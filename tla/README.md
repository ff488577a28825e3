# A verification of asterisk-chan-quectel

chan-quectel is an Asterisk channel driver for cellular modems. It talks to a
modem in AT commands over a tty, places and answers calls on it, and sends and
receives messages. This directory holds TLA+ models of the driver, the TLC
configurations that check them, and TLAPS proofs. Paths below are relative to
`src/src/` unless they say otherwise.

## 1. The system and its parts

| Part | State | Operations | Modelled |
|---|---|---|---|
| Command queue, `at_queue.c` | list of tasks, `at_tasks`, `at_cmds` | add, remove, run, run immediately, handle a result, flush | `AtQueue` |
| Command builders, `at_command.c` | none | one `at_enqueue_*` per request | `AtCommands` |
| Response handlers, `at_response.c` | `pvt`'s flags, calls, messages | one handler per kind of line | `AtSession`, `Calls`, `SmsOut`, `SmsIn` |
| Monitor thread and serializer, `monitor_thread.c` | where the thread is, its jobs, `terminate_monitor` | wait, read, push and run jobs, ping, time out, stop | `AtSession` |
| Session, `chan_quectel.c` | descriptors, `connected`, `initialized` | `pvt_start`, `pvt_disconnect` | `AtSession`, `DevManager` |
| Device manager, `chan_quectel.c` | desired and current state, `must_remove`, eventfd | scan, start, stop, restart, remove, reload, unload | `DevManager`, `DeviceLife` |
| Choice of a device, `chan_quectel.c`, `channel.c` | `group_last_used`, device locks | search by group, round robin, name | `DevSelect` |
| Calls, `cpvt.c`, `channel.c` | call states, flags, counters, sound source | call, answer, hang up, AT+CLCC, activate, hold | `Calls` |
| Locks of callbacks, `channel.c` | channel, list and device locks | trylock, yield, look up | `ChannelLock` |
| Messages, `smsdb.c` | outgoing and incoming parts, references, transactions | add, reference, report, expire, assemble | `SmsDb`, `SmsOut`, `SmsIn`, `SmsTx` |
| Reader, `at_read.c`, `ringbuffer.c` | offsets | read, search, cut into lines | `RingBuffer`, `RingFifo`, `BoundedFifo`, `LineReader` |
| Mixer, `mixbuffer.c` | offsets of the buffer and of each stream | attach, mix, read, detach | `MixBuffer`, `MixedStreams` |
| PDU coding, `pdu.c`, `char_conv.c` | none | pack, cut, store, parse | `Gsm7`, `PduSubmit`, `PduFields`, `PduDeliver` |
| Line parsers, `at_parse.c`; CLI, applications, helpers; tty, ALSA | none of their own | parse, check arguments, print, system calls | as outcomes: a line is readable or not, a device passes its check or not, a write or a capture succeeds or not |

How they interact. A caller (CLI, dial plan, a channel) searches a device,
locks it, checks it and enqueues a task; `at_queue_run` writes the command at the
head if it has not been written. The modem's answer is read by the monitor
thread, which cuts it into lines and pushes one job per line onto the device's
serializer. The job locks the device, calls the handler for the line, which
credits the result to the head of the queue, changes calls and messages, may
enqueue more, and runs the queue again. The monitor thread only tries the lock:
when it has it, it looks at the head's timeout and sleeps that long; when the
sleep ends with nothing to read it pushes a timeout job or a ping. Jobs that
find `terminate_monitor` set do nothing. The device manager is woken by an
eventfd or by a timer, starts devices that should run, and stops one by setting
`terminate_monitor` and joining the thread with the lock released; a job sets the
same flag, with nobody waiting, when a command times out or cannot be written. Asterisk's
threads call back into the driver with their channel locked, while the
serializer, with the device locked, queues frames on channels. All devices
share one SQLite connection.

What is hard here. The protocol has no identifiers: a result belongs to
whatever is at the head. Timeouts are computed under the lock, slept on without
it and acted on by a later job; answers may come after them. Writes may fall
short. A session may end at any point with jobs still in the serializer. The
modem's view of a call, the driver's and Asterisk's come and go separately.
Messages travel in parts, in any order, with references that wrap. Two lock
orders meet in `channel.c`. Buffers wrap anywhere. `hazards` in `PROJECT.json`
lists these at their lines.

## 2. The modules

Each critical section under `pvt->lock` is one action, except in `ChannelLock`,
`DevSelect` and `SmsTx`, which are about the locks themselves.

**The link.** `AtQueue` is the queue as operators on a record `[queue, at_tasks,
at_cmds, tx]`, one operator per function of `at_queue.c`; `tx` is what has been
written and the modem has not taken. A command is its code, expected result and
IGNORE flag; `length == 0`, the code's mark of a written command, is membership
of the command's index in the task's set `sent`. Counters are taken modulo
`UintValues` (2^32 in the code). `AtCommands` has one operator per builder: what
the task looks like to the queue. `AtSession` composes the queue with the
monitor, the serializer, the handlers, the device's start and stop, and an
environment of callers, modem and clock:

| Action | Code |
|---|---|
| `CallerOnline`, `CallerConnected` | the functions of `helpers.c` through `get_pvt(.., 1)` and `get_pvt(.., 0)` |
| `TaskResponse` | `response_taskproc`, with `at_response` and the trailing `at_queue_run` |
| `TaskTimeout`, `TaskPing`, `TaskRestart` | `cmd_timeout`, `at_enqueue_ping`, `restart_monitor` |
| `TaskSkipped` | a job that finds `terminate_monitor` or, for those that only try it, the lock taken |
| `MonStart`, `MonLoop`, `MonBusy`, `MonRead` | the thread's prologue, the top of its loop with and without the lock, reading |
| `MonTimeout`, `MonLate`, `MonIdle` | the three ends of a sleep with nothing to read |
| `MonTerminate`, `MonLost` | `e_restart` and `e_cleanup`, both with `pvt_disconnect` |
| `pvt_start`, `StopRequest`, `StopJoined` | `pvt_start`, the two halves of `pvt_monitor_stop` |
| `ModemAnswer`, `ModemIgnores`, `ModemTalks`, `TimePasses` | external: the modem and the clock |

`cmd_timeout` reads the flags of a command that `at_response` has just freed;
what it reads decides whether the session ends, so `TaskTimeout` leaves that
open. A deadline is a flag `expired`, set by the clock for a written head and
cleared by the next write; `watched` says that the monitor sleeps on the
deadline of that very command. Handlers whose effect is on calls or messages
appear here as what they enqueue. `gsm_registered` is not tracked, so
`CallerOnline` allows more than the code.

**The device manager.** `DevManager` has the eventfd (`event`, a sum), the
manager's place in its two loops (`mgr`), of each device its states, flags and
monitor thread (`pvt`), the reload (`reload`, section by section) and the unload.
`ManagerVisit`, `ManagerJoined` and `ManagerSweep` are the loops of
`dev_manager_threadproc_state`, a join being two steps because the lock is
given up; `ReloadMark` to `ReloadDone` are `reload_config`. A session is reduced
to a thread that runs, has ended, or is not there, and to the jobs it leaves
behind (`jobs`). `JobTerminates` is a job that sets `terminate_monitor`
(`restart_monitor`, `cmd_timeout`, `response_taskproc`), `MonitorTold` the end of
the thread through `e_restart`, which leaves the flag set until the join clears
it, and `MonitorLost` the end through `e_cleanup`, which clears it. `DeviceLife` is what the
manager promises of a device: created stopped, run by one thread at a time, freed
only when it does not run. `DevManager` is shown to implement it by the mapping
of the list and the thread to one of three states.

**The choice of a device.** `DevSelect` is `pvt_find_by_resource_fn`, a device a
step, run by several threads, with what `channel_request` and the status
functions do with the device they get locked. A turn of the round robin has room
for `MaxListed` devices (`MAXQUECTELDEVICES`, 128 in the code).

**Calls.** `Calls` has the list of `struct cpvt`, the counters, the sound
source, the mixer's members, the buffers and the tasks of the queue that concern
calls. `Request`, `Dial`, `Hangup`, `Answer`, `Activate` are channel callbacks;
`Report` is a line of `^DSCI`, `+QIND` or `+CLCC` through `handle_clcc`;
`CallWaiting`, `ResultOk`, `ResultError`, `ResultTimeout`, `CaptureLost` and
`Disconnect` are the rest of what may happen. The helpers of `cpvt.c`
(`cpvt_alloc`, `cpvt_free`, `cpvt_call_activate`, `cpvt_change_state`...) are
operators of the same names; `config` is what the device was configured with, for
the properties that depend on it. `ChannelLock` has the locks: media callbacks that
try and yield (`channel_lock_pvt`), callbacks that follow the channel's pointer
(`Direct`), the serializers' jobs, and `devices_destroy`.

**Messages.** `SmsDb` has the tables and each operation as the function its
transaction computes. `SmsOut` sends: `Send` and `SendRefused` (`at_enqueue_sms`,
which uses up a reference either way), the answers, refusals and unreadable
answers of AT+CMGS, reports, expiry, loss of the link. `SmsIn`
receives, by notification (`Stored`), by list and by hand-over, from peers that
number their messages by the same `smsdb_get_refid`; the network duplicates and
reorders. With `Refusals` the modem may refuse AT+CMGR and AT+CMGL, and
`smsdb_put` may be refused its transaction (`begun`). `SmsTx` is about `BEGIN` and
`COMMIT` on the one connection, either of which may fail. The statements of
`smsdb_put` before `BEGIN` (expiry and capacity, `smsdb.c:544-552`) join whatever
transaction is open; other errors of SQLite are not modelled.

**Data.** `RingBuffer` has every function of `ringbuffer.c` on a record with the
buffer's offsets; `RingFifo` uses it and implements `BoundedFifo`. `LineReader`
is `at_read` and `at_read_result_iov` against a modem whose units are cut at any
octet; a character is a symbol. `MixBuffer` implements `MixedStreams`, a queue of
sums. `Gsm7` packs and unpacks bit by bit; `PduSubmit` counts and cuts a text;
`PduFields` codes periods and numbers; `PduDeliver` walks over a header and
hands the half octets that are left to the decoder.

`AtSessionProofs`, `DevManagerProofs`, `DevSelectProofs`, `ChannelLockProofs`,
`CallsProofs`, `SmsProofs`, `SmsInProofs` and `RingFifoProofs` hold the proofs.
The modules whose names begin with `MC` give constants their values. Several of
them put instances side by side: a variable `part`, chosen at first and never
changed, says which instance a behaviour is about, and a property says for which
parts it is meant. Nothing is shared between parts.

Some operators are commented as seeded faults. No specification uses them; each
takes the place of its neighbour to show that a property can fail.

## 3. What the runs show

| Run | Instances (`part`) and what may go wrong | Properties |
|---|---|---|
| `link` | `traffic`: messages, calls, console commands, unsolicited lines, pings, errors, unexpected prompts; `catalogue`: a task of every shape from the start of initialisation; `singles`: the remaining builders | `CommandsCounted`, `HalfDuplex`, `NothingSkipped`, `PromptDiscipline` |
| `boot` | full initialisation of a Quectel module, unknown lines at any time | `Boots` |
| `faults` | short writes, timeouts with late answers, overload, loss, stop, restart | `TypeOK`, `HeadOnlyStarted`, `TasksCounted` |
| `live` | timeouts, a silent modem, loss, stop, restart | `HeadProgress`, `IdleQueueResumes` |
| `manager` | every request, busy devices, loss, jobs that end a session or outlive it, failing ports, commands that meet, unload | `StartedIsWatched`, `TerminateIsTransient`, `ImplementsLife` |
| `manager_reload` | two reloads against the manager, then immediate requests of every kind to the device they changed; the session of one device may be lost or ended by its jobs | `RequestsServed` |
| `calls` | `uac`: two calls on ALSA, capture fails; `tty`: two calls in the mixer; `one`: one call, failing channels, every report | `AudioFollowsCalls`, `CallListIsTrue`, `SilentCallsEnd`, `NoCallLeftBehind`, `UniqueIdx` |
| `sms` | `out`: refusals, unreadable answers, loss, reports in any order, expiry; `refs`: messages that are and are not sent; `stored`: loss, expiring rows, a full table, duplicates, unreadable lines, refused commands and transactions; `peers`: two senders, one reference; `direct`: duplicates, loss; `tx`: three devices, COMMIT fails | `ToldOnce`, `OutgoingIsTrue`, `WholeMessages`, `ReadingIsAsked`, `NothingLost`, `OwnTransaction`, `EveryMessageEnds`, `TransactionsEnd` |
| `data` | `ring`, `lines` and `tight` (a buffer that holds every unit, and one that does not), `mixer`, `gsm7`, `submit`, `fields`, `deliver` | `LinesArriveWhole`, `CodingIsReversible`, `PartsAreTheText`, `HeadersAreRead`, `ImplementsFifo`, `ImplementsMixer` |
| `chan_lock` | `one` and `two` devices with media callbacks; `all` callbacks with one device, and with `both` | `NoOrphanedLock`, `LockedUsesLive`, `NobodyWaitsForEver` |
| `select` | two threads, three of four devices in the group, room for two in a turn, calls that come and go | `NoLockLeft`, `BookedIsFit`, `TriesAll`, `SearchEnds` |
| `chan_lock_direct` | callbacks that follow the channel's pointer | `UsesLiveCall`, refuted |

*The link.* `HalfDuplex` is the reason the protocol works without identifiers:
every result on its way belongs to the head command, and there is at most one.
`NothingSkipped` and `PromptDiscipline` follow the same concern: no command is
passed over unwritten, and the modem is given message text exactly when it has
asked for it. All three are claims about sessions in which no command times out:
after a timeout the late answer is credited to the next command, and `faults`
shows what is left then, a well formed queue.

*The manager.* `current_state`, `connected` and the thread are set in three
places; `StartedIsWatched` says they agree whenever the lock is free.
`terminate_monitor` has many setters, and jobs outlive their session: one that
runs after the join sets the flag with no thread there (`late`), the next session
finds it set and ends at once, and the join of that one clears it.
`TerminateIsTransient` says that there is no other way for it to be left behind,
and that it is never taken back from a thread the manager waits for.
`ImplementsLife` is checked without reloads, `RequestsServed` while no two
commands meet on the eventfd; section 4 says why.

*Calls.* `AudioFollowsCalls` is the promise of `src/doc/uac-recovery.md`: one
call at a time has the sound device, a late hold or release of the previous one
does not stop it, and failed captures do not leave it claimed. `CallListIsTrue`
ties counters, the dialling flag and the buffers to the list. `NoCallLeftBehind`
is about devices with room for one call, the part `one`.

*Messages.* Two messages of two parts to two destinations, three references, up
to four of which are given out, and two modem references are enough for a
reference to come round while rows of an older message are there. One destination
is new to the database, the other's references are about to wrap (`FirstRefs`). The
first two messages to a new destination have the same reference: the row that is
inserted says 0 when 1 was returned. `OutgoingIsTrue` makes that exception and no
other. `NothingLost` holds until something happens that costs a part: an
unreadable line, an expired row, a full table or a refused BEGIN in `smsdb_put`
(the part is acknowledged or deleted all the same), an ERROR to AT+CMGR with
`autodeletesms` (the message is deleted unread) or, for messages read from the
store, a new session. The variable `harmed` of `SmsIn` remembers that; no guard
looks at it. Handed over, parts outlive lost links too. `TransactionsEnd` holds
until a COMMIT fails: nobody looks at its result, and the transaction stays open.

*Locks.* A callback that follows the channel's pointer may find its call freed
while it does (`chan_lock_direct`), but not once it has the device's lock
(`LockedUsesLive`): the serializer that frees the call keeps the device until it
has had the channel, which the callback holds, so the two wait for each other
instead (section 4).

*Data.* A buffer of four bytes has every offset and length; a unit of the modem is
cut by reads at every octet, and lies over the end of the buffer at every place.
The sizes of messages (160, 153, 70, 67) are scaled to 6, 4, 4 and 3 with texts of
up to eight symbols, so that one part, several parts and too many all happen. Periods are taken
around every border of `pdu_relative_validity`. Headers are of up to three elements;
octets may be lost and septets missing from the announcement. When the septets
announced end inside the header, `udl_nibbles` is negative and the decoder, which
takes it as a size, reads on behind the PDU (`"overrun"`); `HeadersAreRead` says
that this is the only case in which it does.

Bounds. In `AtSession` `MaxQueue` limits what callers add (pings may add one
more), `MaxHandled` what handlers of unsolicited lines add, `MaxJobs` the
serializer, `MaxLines` what either side has not read. Two or three tasks suffice
for the head, a task inserted behind it and one at the tail to differ; three
jobs for a response, a timeout and a ping or restart to be queued in any order.
At a bound callers wait, the monitor does not go round, and a handler enqueues
nothing. `HighWater` (400 in the code) is small so that overload happens.
`UintValues` is 256 where the counters are exact, 4 where the drift of `at_cmds`
would otherwise multiply the states, and 1 in `live`, whose properties do not
mention them. `DevManager` has two devices because the manager visits them one
after the other and both may signal; two reloads, so that one may undo the
other. `Calls` has two calls: activation, hold and release concern the sound
source and one other; `MaxIdx` (31 in the code) is 2, so that indices run out. `ChannelLock`
has two channels, two devices and two places for calls, so that storage is used
again for a call of another channel. `DevSelect` has a device outside the group
between two inside, so that a turn of the round robin differs from the list, and
one member more than a turn has room for; the uses are holding a call and asking
for the status, as dialling takes the same path under a narrower test.

Fairness. Threads run, sleeps end, time passes, the modem takes lines off the
tty, jobs that hold a mutex go on and rows get old: weak fairness. Strong
fairness is for whoever waits for a lock that others hold briefly and give back
again and again: the monitor and the timeout and ping jobs, which only try it;
a mutex is not refused to a waiting thread for ever; the manager, which skips
its second loop while the list is taken. In `ChannelLock` a callback that tries,
yields and tries again has only weak fairness: that it gets through is what
`NobodyWaitsForEver` shows. Nothing is assumed of callers, of requests or of
what the modem says; `Boots` needs a modem that answers in the end
(`HelpfulSpec`).

## 4. Disagreements

`chan_lock_direct` is a run: `channel_hangup`, `channel_call`, `channel_answer` and
`channel_indicate` take the call from the channel and wait for the device
before they use it; a release in between frees the call they read. Of
`channel_hangup` `channel.c:312` says that it is also "called for cleanup after
remote side alreay terminate call, CEND received and cpvt destroyed", and
`channel.c:41-42` "Keep no call or device pointer across that wait: modem release
can free both."

The following were found by the same models. The properties are stated in the
modules, and a run with the constants in brackets refutes them; the runs of
section 3 leave these cases out where it says so.

| Property | Constants | The code | What is said of it |
|---|---|---|---|
| `AtSession!CommandsCounted` | `faults` | an at-once task that fails stays at the head and its timeout subtracts its commands again; `at_cmds` wraps (`at_queue.c:116`) | "number of active commands in at_queue" (`chan_quectel.h:50`) |
| `AtSession!TimeoutIsDue` | `faults` | the timeout job looks only at whether the head has been written, and removes one written a moment ago (`monitor_thread.c:77`) | a timeout is "started at time when command actually written on device" (`at_queue.h:38`) |
| `AtSession!CriticalErrorDisconnects` | `faults` | a handler's -1 is logged and the session goes on (`at_response.c:3065`) | errors that "mean disconnected from device" (`at_response.c:583`) |
| `DevManager!RemovedOnlyWhenStopped` | `manager_reload` | a reload marks all devices for removal and unmarks those that stay; the manager frees one in between, its thread running (`chan_quectel.c:390`) | "terminate monitor thread i.e. restart, stop, remove" (`chan_quectel.h:172`) |
| `DevManager!ManagerStopsWhenTold` | `MaxSignals = 2` | two scans are read from the eventfd as 2, the stop command (`chan_quectel.c:325`) | "Got exit event" (`chan_quectel.c:326`) |
| `DevManager!UnloadEnds` | `Unloads` | a stop and a scan are read as 3, which is ignored; `dev_manager_stop` waits for ever (`chan_quectel.c:330`) | "Unknown command: %d - exiting" (`chan_quectel.c:329`) |
| `DevManager!ManagerKeepsRequests` | requests to stop and restart | `desired_state` is set to STARTED after a join during which a stop was asked for (`chan_quectel.c:356`) | "Stop scheduled" (`helpers.c:783`) |
| `DevManager!GracefulHappens` | a graceful stop | `pvt_time4restate` wants `incoming_sms_index >= 0`, which an idle device does not have (`chan_quectel.c:1146`) | the same |
| `Calls!MasterHasAudio` | `"pbx"` in `Failures` | `start_pbx` frees the call without `cpvt_call_disactivate`; capture goes on (`at_response.c:929`) | "Releasing or holding the current UAC sound source stops its audio" (`src/doc/uac-recovery.md:53`) |
| `Calls!CountersAgree` | `LateReleases` | a release before the OK of ATD frees the call; the OK then changes the state, and the counters, of `sys_chan` (`at_response.c:119`) | "channel number grouped by state" (`chan_quectel.h:52`) |
| `Calls!UniqueIdx` | `Rerings` | a waiting call reported as incoming gets a second `cpvt` (`at_response.c:1049`) | "device call ID" (`cpvt.h:62`) |
| `Calls!UnplacedEnds` | any | a channel hung up before ATD leaves its call in state INIT in the list (`channel.c:340`) | RELEASED is "on CEND or channel_hangup() called" (`cpvt.h:28`) |
| `Calls!OrphanIsHungUp` | two calls | `+CHLD=1%d` is enqueued as it stands (`at_command.c:1303`) | "require issue AT+CHUP or AT+CHLD=1x for call" (`cpvt.h:40`) |
| `SmsOut!StatusIsTold` | any | the row is cleared when the last part is accepted; reports then find nothing (`smsdb.c:879`) | "clear if everything is finished" (the same line) |
| `SmsOut!SentDoesNotExpire` | any | a message without report keeps its row and is told to have expired (`smsdb.c:1028`) | "Successfully sent message" (`at_response.c:1433`) |
| `SmsIn!WholeMessages` | `PeerRef <- NoRow` | the first reference of a destination is 1 and stored as 0, so the second message has it again (`smsdb.c:570`) | "returns the whole message into 'out' when the message is complete" (`smsdb.c:523`) |
| `SmsIn!NotifiedIsRead` | two slots | a notification during a read is ignored and nothing reads it later (`at_command.c:1039`) | "Start reading next SMS, if any" (`at_command.c:987`) |
| `SmsIn!AllKept` | `Direct`, `PartsGarble` | an unreadable message is acknowledged like a good one (`at_response.c:1735`) | "negative ACT" (`at_response.c:1734`) |
| `SmsIn!AllKept` | `Refusals`, `Autodelete` | an ERROR to AT+CMGR counts as retrieved, and the message is deleted unread (`at_response.c:744`) | "Error reading SMS message, resetting index" (`at_response.c:742`) |
| `SmsIn!AllKept` | `Refusals` | a part that `smsdb_put` is refused a transaction for is acknowledged or deleted (`at_response.c:1660`) | "Error putting message part to database" (`at_response.c:1658`) |
| `SmsTx!NoneRefused` | any | most transactions begin without the database lock; another's BEGIN fails (`smsdb.c:185`) | "the transaction calls will be called with the database lock held" (`smsdb.c:145-147`) |
| `MixBuffer!StreamsInStep` | `HeldWrites` | a held call, detached from the mixer, goes on writing (`channel.c:684`) | "all streams has one read but differ used" (`mixbuffer.c:111`) |
| `ChannelLock!CallbacksReturn` | `Direct` | callbacks wait for the device with the channel locked, jobs the other way round (`channel.c:322`) | "trylock got deadlock up to 30 seconds here" (`channel.c:1080`) |
| `PduSubmit!PartsAlwaysFit` | any | a text of exactly 160 septets is cut in two without room for headers (`pdu.c:489`) | `SMS_GSM7_MAX_LEN` is 160 (`pdu.c:261`) |
| `PduDeliver!TextIsFound` | `"ss"`, `"ls"` in `Elements` | language elements do not reduce `udhl`; the text is looked for too late (`pdu.c:917`) | "skip rest of UDH, if any" (`pdu.c:937`) |
| `DevSelect!MarkIsKept` | round robin | a search that fails takes the mark off and sets none (`chan_quectel.c:746`) | "mark the last used device" (`chan_quectel.h:168`) |

Observations without a statement to contradict: the first two messages to a
destination share a reference; a COMMIT that fails leaves its transaction open, and
every later BEGIN is refused; a 7-bit message whose announced septets end inside
its header is decoded past its end (`pdu.c:868`); a round robin over more than 128
devices never tries the rest (`chan_quectel.c:752`); a job that outlives its
session ends the next one; `rb_read_until_char_iov` goes on
to search the second part of a wrapped buffer after a printable character in the
first; noise directly before a printable character drops all that is buffered;
with two devices two media callbacks may each find busy the device that the
other is testing, again and again, and get through only because the sleeps
between their rounds differ.

## 5. What is proved

For every value of the constants, from the named assumptions that they are of
the right kind (`UintAssumption`, `KindsAssumption`, `ModemAssumption`,
`StartAssumption`, `ConfigAssumption`, with a finite set of devices,
`LockAssumption`, `DevSelectAssumption`, `CallsAssumption`, `OutAssumption`, `DbAssumption`,
`ByteAssumption`, `SizeAssumption`) and, where a theorem says so, from more:

| Module | Theorem | Says that always | Assumed besides |
|---|---|---|---|
| `AtSessionProofs` | `TypeCorrect`, `OnlyHeadStarts`, `TasksAreCounted` | `TypeOK`, `HeadOnlyStarted`, `TasksCounted` | |
| | `OneCommandAtATime` | `HalfDuplex` | `~Timeouts`, `~Restarts` |
| | `CommandsAreCounted`, `NoCommandSkipped` | `CommandsCounted`, `NothingSkipped` | these and `~WriteFaults` |
| | `TextAnswersPrompt` | `PromptDiscipline` | these and `WellBuilt` |
| `DevManagerProofs` | `StartedMeansWatched`, `NoTerminateLeft` | `StartedIsWatched`, `TerminateIsTransient` | |
| | `ManagerImplementsLife` | `DevManager` implements `DeviceLife` | `Configs = {}` |
| `DevSelectProofs` | `LeavesNoLock`, `BookedStaysFit`, `GivesUpAfterAll` | `NoLockLeft`, `BookedIsFit`, `TriesAll` | |
| `ChannelLockProofs` | `LocksAreGivenBack` | `NoOrphanedLock` | |
| | `LockedUsesLiveCall` | `LockedUsesLive`: the call of a callback under the lock is its own and alive | |
| `CallsProofs` | `ListIsTrue` | `TypeOK`, `BuffersWhileCalls`, the number of calls, no task of a call that is gone | |
| | `EveryIdxIsOne` | `UniqueIdx` | `~Rerings`, `MaxCalls <= MaxIdx` |
| | `OneSoundSource` | `AudioFollowsCalls`: `OneMaster`, `MasterHasAudio`, `MixedIsActivated` | `"pbx" \notin Failures` |
| | `CallsAreCounted` | `CallListIsTrue` | `~LateReleases` |
| | `SilenceIsEnded` | `SilentCallsEnd` | |
| | `OrphansAreEnded` | `NoCallLeftBehind`: `OrphanIsHungUp` on a device with one call | |
| `SmsProofs` | `EndsToldOnce` | `ToldOnce` | |
| | `TablesTellTheTruth` | `OutgoingIsTrue` | |
| | `EachItsOwn` | `OwnTransaction` | `NoTx` is no thread, `Statements` is a number |
| `SmsInProofs` | `ReadingIsOnTheWay` | `ReadingIsAsked` | |
| | `ReceivingTypes`, `MessagesAreWhole`, `MessagesWereSent` | `InTypeOK`, `WholeMessages`, `OnlySent` | `RefsAreFresh` |
| | `NoPartIsLost` | `NothingLost` | `RefsAreFresh` |
| | `ReliableKeepsAll` | `AllKept` | `RefsAreFresh`, `RowsEnough`, `Reliable` |
| `RingFifoProofs` | `PositionsInStep`, `WritesAppend` | `InStep`, `AppendsWhatFits` | |
| | `BufferIsFifo` | `RingFifo` implements `BoundedFifo` | |

The extra assumptions are where the code breaks the promise otherwise, and
section 4 says how: after a timeout the late answer is credited to the next
command; an at-once task whose write falls short, or that times out, is
discounted twice; a reload lets a running device be freed; a
waiting call reported as incoming gets a second `struct cpvt`; a call for which no
PBX starts is freed with its audio on; a release that overtakes the OK of ATD
leaves the answer to a call that is gone. `MaxCalls <= MaxIdx` is the modem's
limit: it has far fewer calls than the 31 indices of the code. With two calls
`OrphanIsHungUp` fails, as the index is lost on the way to the modem; the theorem
is about one, where the run checks it too.

`WellBuilt` says that the tasks given to the session are `Proper`: AT+CMGS is
followed by its text and nothing else is, it alone expects the prompt and its task
ends without it, AT+CNMA is the last command of a task, and none of them is sent
at once. The builders of `AtCommands` make them so; `MCAtLink` evaluates it for
every task of its three instances. The tasks that handlers of results enqueue
are shown to be proper (`HandlerTasksProper`).

`RefsAreFresh` says that no peer sends more messages than there are references
(256 in the code) and that a peer has sent one before, since its first two share
a reference otherwise. `NoPartIsLost` assumes nothing else: it says that parts are
kept until one of the things that lose one has happened (`harmed`). They are a row
that expires, a line that cannot be read, a part that `smsdb_put` refuses for want
of room or of a transaction, an AT+CMGR refused with `autodeletesms` and, for
messages read from the store, a new session: it lists the unread slots, and one
that is also notified meanwhile is deleted twice, the second time perhaps with a
new part in it (TLC finds this in thirteen states). `ReliableKeepsAll` says when
none of them happens: `Reliable` excludes all but the want of room, which
`RowsEnough` is shown to exclude; in the code the table holds 1024 rows or 1 MiB
of text. `MCSms` evaluates each assumption for the
instances whose properties rest on it.

*The queue.* `OnlyHeadStarts`, `TasksAreCounted` and the types are proved
together; none is inductive alone: that an index stays within a task's commands
needs the types, the counter of tasks is right after a flush only if it was the
length of the list before, and the tail of the queue must be untouched for the
next head to be fit. The inductive invariant is `Sound(atq)` (type, shape and
count of the queue) with the types of the other variables. The first part of
`AtSessionProofs` shows that each operator keeps `Sound`, through the weaker `TailSound` that
`at_queue_remove` needs while the head is past its end, and that counting modulo
`UintValues` is compatible with adding and subtracting.

*The link.* `HalfDuplex` counts; its invariant `Lone` says instead where the one
thing on its way is: in `tx`, among the lines, or among the jobs, and that the
others are then empty of results. Each operator of the queue is shown to write
at most one line, and none while the head is on the wire (`WritesOnce`); a
handler of a result therefore writes nothing before it takes the result off, and
what runs the queue afterwards finds nothing on its way. Commands and skipping
need `CountInv`: `Unresolved`, an at-once head has had no result, holds while
its result is on its way or it is not written; and a device that is off has
`terminate` set, so that no job runs its queue. What `at_cmds` should be is a
cardinality; the lemmas `RemainingTail`, `RemainingHead`, `RemainingAppend` and
`RemainingInsert` say what each operation does to it.

`PromptDiscipline` relates three parties: what the modem waits for, what is on
its way and what the queue writes next. `PromptInv` adds to `CountInv` that every
queued task is proper, but for an escape at the head (`Plain`), that a result on
its way is a prompt exactly when the modem waits for text (`Owed`), and that
while no result is, the modem waits for text exactly when the head command,
written or to be written next, is one (`Mannered`). `Lone` is what makes it work: with more than one result on its way
the prompt could be another's.

*The manager.* `Inductive` ties `current_state`, the thread and
`terminate_monitor` to the places of the manager and the unload: a device that
is being joined is listed once, is at the head of the work, and has its flag set
for as long as its thread runs (`JoinTold`); of any other, the flag is set without
a thread only when a job came `late`. The refinement maps a device to absent, idle or
running; it needs that nothing listed and running is swept away, hence no
reload.

*The choice of a device.* The invariant says where each search is in its list
and which devices it has tried, and that a device is locked only by a thread
that has found it. The lemma `AroundTriesAll` carries the arithmetic: a turn of
the length of the list, begun anywhere, meets every place. The list holds every
member up to where it ends, so that what it leaves out is behind.

*The locks.* `IInv` says which locks a thread holds at each of its places and, for
the second theorem, that the call of a callback that holds the device is one of
its channel and device. A callback that waits for the device with a freed call
does not get it: whoever freed the call is the serializer of that device, which
keeps the device until it has had the channel, and the channel is the
callback's (`Stuck`). A step of one thread is shown to leave the others' parts
alone by four lemmas about steps that change one thread and at most one lock.

*Calls.* `Inv` has three parts: `Listing` (the list has no call twice, `chansno`
is its length, the buffers are there while it is not empty, tasks have living
owners), `OneIdx` and `Audio`. `Audio` is `OneMaster`, `MasterHasAudio` and
`MixedIsActivated` with what makes them inductive: an activated call has a
channel, so that a call which a report releases after its hangup leaves no stream
behind. `Alike` relates states that differ in nothing `Inv` depends on, most
commands, flags and state changes are such steps, and `Preserves` those that keep
`Inv` and add no call; `cpvt_alloc`, `cpvt_free`, `cpvt_call_activate`,
`cpvt_call_disactivate` and `cpvt_change_state` have a lemma each, and actions
compose them. That `pvt_get_pseudo_call_idx` finds an index is the pigeonhole
principle, as is that `chansno` does not wrap.

The counters by state, for `CallsAreCounted`, need more of the queue. `Kept` has
`Tally` (each counter is the number of calls in that state), `Calling` (while the
device counts as dialling a call is in INIT, DIALING or ALERTING) and `Dialled`
(pending dial commands belong to placed calls, one each and none of `sys_chan`).
`Calling` rests on `Dialled`: the OK of a second dial command would set the flag
for a call that already talks.

`FitInv` is behind the last two theorems. `Fit` says of one call that a master is
activated, that a channel which ought to have sound has it or is being hung up,
and that a placed call has been asked to end or has a channel whose hangup will
ask. The second fails in the middle of `cpvt_change_state`, which sets the state
before it activates: `FitsBut` is the rest of it, and the proofs of the change of
state go from `Fits` through `FitsBut` to `Fits`. `Parting` adds that the owner of
a pending hangup command is marked already, so that its result leaves nothing
behind.

*Messages.* `SendingInductive` says which messages have rows: one that is in the
table has not been told of (`Untold`), a part in the table has its message there
and was sent (`PartsBelong`, `RowsTrue`), and the parts a task has still to send
are not sent (`TasksAhead`). For `TablesTellTheTruth`, `Counting` says how many
references were given out since each message, refused ones included: within
`RefMod` of them no reference comes back, but for the one that follows the first
of a destination without a row.

For receiving there are three invariants. `QueueInv` says which commands are
queued, and that an answer to AT+CMGR is awaited only while that command is at
the head and no slot counts as being read. `TablesInv` says that what is in the
network, in the store, unacknowledged, in the table or handed over is `Genuine`:
a part of a message in `Sent`, and of no other, since within `RefsAreFresh` a
peer and a reference determine the message; a row that is complete has therefore
the parts of one message. `LossInv` says where a part is that has left the
network: in the store, in the table or in a message handed over (`AllHere`); a
slot is deleted once, after its part was put in the table, and is not the one
being read (`DeletesRead`); at most one read is pending (`OneRead`). `KeptInv` is
`LossInv` until something is harmed. That a table with rows enough is never full
for a part that is not in it (`FullHasAll`) is the pigeonhole principle again.

*The buffer.* `InStep` with the ranges of the offsets is inductive. The contents
after a write that wraps are those before and what was copied, byte by byte:
`Overlaid` is the buffer after the one or two copies, and the lemmas compare it
with the unread bytes, which it does not touch, and with the new ones. The
refinement maps the record to its contents.

Only model-checked: liveness (fairness and `ENABLED` are out of the prover's
reach), that is `Boots`, `HeadProgress`, `IdleQueueResumes`, `RequestsServed`,
`EveryMessageEnds`, `TransactionsEnd`, `NobodyWaitsForEver` and `SearchEnds`; and
of `data` `LinesArriveWhole`, `CodingIsReversible`, `PartsAreTheText`,
`HeadersAreRead` and `ImplementsMixer`. What the loops over a text or a buffer
compute for every length would need induction over data, which the prover cannot
do.

## 6. Not modelled

* `gsm7_luts.h`: tables, without control.
* `at_parse.c` beyond what `SmsIn` and `SmsOut` need: each function is one scan of
  a line into fields; a line that cannot be read is an outcome.
* Handlers that copy network state (signal, operator, registration, time) into
  `pvt`: no decision of the modelled parts depends on it but `gsm_registered`,
  which only narrows what callers may do.
* `cli.c`, most of `app.c` and `helpers.c`: argument checks and output around the
  operations above; `msg_tech.c`, which hands a message to `send_sms`.
* `tty.c`, `pcm.c`: system calls, present as outcomes.
* Memory exhaustion, and with it `ast_taskprocessor_push` failing
  (`monitor_thread.c:300`).

## 7. What is left

Every safety invariant that the runs check, but those of `data`, is a theorem.
What could be added:

1. An abstract half-duplex link that `AtSession` implements while nothing times
   out; `HalfDuplex` and `PromptInv` hold most of what its refinement needs.
2. The offsets of the mixer's streams, which `StreamsInStep` relates only while
   no held call writes.
3. The hazards of `PROJECT.json` without a property: what the code does there is
   in section 4 or outside the model.
