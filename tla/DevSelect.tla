----------------------------- MODULE DevSelect -----------------------------
(***************************************************************************)
(* The choice of a device for a call (chan_quectel.c,                      *)
(* pvt_find_by_resource_fn, and channel_request around it).  Threads of    *)
(* Asterisk search the list of devices at once, all holding it for         *)
(* reading, and lock one device at a time: by group the first that can     *)
(* dial, by "r", "p:" or "s:" the next one after the last used, by name,   *)
(* IMEI or ICCID the one that matches.  A device that is found is returned *)
(* locked.  Devices are numbered in the order of the list.                 *)
(***************************************************************************)
EXTENDS Integers, Sequences, FiniteSets

CONSTANTS
  N,           \* number of devices
  Members,     \* those that match the resource asked for
  Own,         \* the device of the requestors' own calls, or 0
  MaxListed,   \* MAXQUECTELDEVICES: room for devices that are tried in turn
  Threads,
  Kinds,       \* "first" or "robin": how the resource is searched
  Uses         \* "dial", "hold", "status", "statusex": what the device is for

ASSUME DevSelectAssumption ==
  /\ N \in Nat \ {0} /\ Members \subseteq 1 .. N /\ Own \in 0 .. N
  /\ MaxListed \in Nat \ {0}
  /\ Kinds \subseteq {"first", "robin"}
  /\ Uses \subseteq {"dial", "hold", "status", "statusex"}
  /\ "none" \notin Threads

VARIABLES
  call,        \* by device: "none", "init", "active", "off" (not ready)
  lock,        \* by device: the thread that holds pvt->lock, or "none"
  last_used,   \* by device: the mark of the round robin
  th,          \* by thread: pc, kind, use, and the search so far
  used         \* history: a device was taken in turn

vars == <<call, lock, last_used, th, used>>

Devs == 1 .. N
NoLock == "none"
Idle == [pc |-> "idle", kind |-> "first", use |-> "dial", at |-> 0,
         list |-> <<>>, from |-> 0, tried |-> {}, exists |-> FALSE, found |-> 0]

Init ==
  /\ call \in [Devs -> {"none", "off"}]
  /\ lock = [d \in Devs |-> NoLock]
  /\ last_used = [d \in Devs |-> FALSE]
  /\ th = [t \in Threads |-> Idle]
  /\ used = FALSE

(* can_dial and test_fn: a device that is ready and has no call, or one    *)
(* whose call can be held, but never for the requestor's own; any device   *)
(* will do to read its state.                                              *)
test_fn(d, use) ==
  \/ use = "statusex"
  \/ use # "hold" /\ call[d] = "none"
  \/ use = "hold" /\ d # Own /\ call[d] \in {"none", "active"}

Begin(t, kind, use) ==
  /\ th[t].pc = "idle"
  /\ th' = [th EXCEPT ![t] = [Idle EXCEPT !.pc = IF kind = "robin" THEN "scan" ELSE "first",
                                          !.kind = kind, !.use = use, !.at = 1]]
  /\ UNCHANGED <<call, lock, last_used, used>>

(* The devices of the group are listed, as many as there is room for, and  *)
(* the mark taken off the last one used; each is locked for that.          *)
Scan(t) ==
  LET s == th[t]
      d == s.at
  IN  /\ s.pc = "scan"
      /\ IF d > N \/ Len(s.list) = MaxListed
           THEN /\ th' = [th EXCEPT ![t].pc = "search", ![t].at = 0]
                /\ UNCHANGED last_used
           ELSE /\ lock[d] = NoLock
                /\ IF d \notin Members
                     THEN th' = [th EXCEPT ![t].at = d + 1] /\ UNCHANGED last_used
                     ELSE /\ th' = [th EXCEPT ![t].at = d + 1, ![t].list = Append(s.list, d),
                                              ![t].from = IF last_used[d] THEN Len(s.list) ELSE s.from]
                          /\ last_used' = [last_used EXCEPT ![d] = FALSE]
      /\ UNCHANGED <<call, lock, used>>

(* Seeded fault: the device is unlocked before it is returned.             *)
TestUnlocked(t, d, mark) ==
  /\ lock[d] = NoLock
  /\ IF test_fn(d, th[t].use)
       THEN /\ th' = [th EXCEPT ![t].pc = "found", ![t].found = d, ![t].exists = TRUE,
                                ![t].tried = @ \cup {d}]
            /\ UNCHANGED lock
            /\ last_used' = [last_used EXCEPT ![d] = @ \/ mark]
            /\ used' = (used \/ mark)
       ELSE /\ th' = [th EXCEPT ![t].at = @ + 1, ![t].exists = TRUE, ![t].tried = @ \cup {d}]
            /\ UNCHANGED <<lock, last_used, used>>

(* A device is tested under its lock, and kept locked when it will do.     *)
TestDevice(t, d, mark) ==
  /\ lock[d] = NoLock
  /\ IF test_fn(d, th[t].use)
       THEN /\ th' = [th EXCEPT ![t].pc = "found", ![t].found = d, ![t].exists = TRUE,
                                ![t].tried = @ \cup {d}]
            /\ lock' = [lock EXCEPT ![d] = t]
            /\ last_used' = [last_used EXCEPT ![d] = @ \/ mark]
            /\ used' = (used \/ mark)
       ELSE /\ th' = [th EXCEPT ![t].at = @ + 1, ![t].exists = TRUE, ![t].tried = @ \cup {d}]
            /\ UNCHANGED <<lock, last_used, used>>

(* Seeded fault: the search does not go on from the end of the list to its *)
(* beginning.                                                              *)
SearchNoWrap(t) ==
  LET s == th[t]
      c == Len(s.list)
      j == s.from + 1 + s.at
  IN  /\ s.pc = "search"
      /\ IF s.at >= c \/ j >= c
           THEN /\ th' = [th EXCEPT ![t].pc = "none"]
                /\ UNCHANGED <<lock, last_used, used>>
           ELSE TestDevice(t, s.list[j + 1], TRUE)
      /\ UNCHANGED call

(* Seeded fault: the search goes around until a device is free.            *)
SearchForever(t) ==
  LET s == th[t]
      c == Len(s.list)
  IN  /\ s.pc = "search"
      /\ IF s.at = c
           THEN /\ th' = [th EXCEPT ![t].at = 0]
                /\ UNCHANGED <<lock, last_used, used>>
           ELSE TestDevice(t, s.list[((s.from + 1 + s.at) % c) + 1], TRUE)
      /\ UNCHANGED call

(* From the one after the last used, once around.                          *)
Search(t) ==
  LET s == th[t]
      c == Len(s.list)
  IN  /\ s.pc = "search"
      /\ IF s.at = c
           THEN /\ th' = [th EXCEPT ![t].pc = "none"]
                /\ UNCHANGED <<lock, last_used, used>>
           ELSE TestDevice(t, s.list[((s.from + 1 + s.at) % c) + 1], TRUE)
      /\ UNCHANGED call

(* By group, name, IMEI, ICCID: down the list; every device is locked to   *)
(* be looked at.                                                           *)
SearchFirst(t) ==
  LET s == th[t]
      d == s.at
  IN  /\ s.pc = "first"
      /\ IF d > N
           THEN /\ th' = [th EXCEPT ![t].pc = "none"]
                /\ UNCHANGED <<lock, last_used, used>>
           ELSE IF d \notin Members
             THEN /\ lock[d] = NoLock
                  /\ th' = [th EXCEPT ![t].at = d + 1]
                  /\ UNCHANGED <<lock, last_used, used>>
             ELSE TestDevice(t, d, FALSE)
      /\ UNCHANGED call

(* Seeded fault: the device stays locked.                                  *)
FoundKeepsLock(t) ==
  LET d == th[t].found
  IN  /\ th[t].pc = "found"
      /\ call' = IF th[t].use \in {"dial", "hold"} THEN [call EXCEPT ![d] = "init"] ELSE call
      /\ th' = [th EXCEPT ![t] = Idle]
      /\ UNCHANGED <<lock, last_used, used>>

(* channel_request makes a call on it, app_status_read only reports, then  *)
(* the device is unlocked.                                                 *)
Found(t) ==
  LET d == th[t].found
  IN  /\ th[t].pc = "found"
      /\ call' = IF th[t].use \in {"dial", "hold"} THEN [call EXCEPT ![d] = "init"] ELSE call
      /\ lock' = [lock EXCEPT ![d] = NoLock]
      /\ th' = [th EXCEPT ![t] = Idle]
      /\ UNCHANGED <<last_used, used>>

NotFound(t) ==
  /\ th[t].pc = "none"
  /\ th' = [th EXCEPT ![t] = Idle]
  /\ UNCHANGED <<call, lock, last_used, used>>

(* Under the lock of a device its call goes on or ends, its modem comes    *)
(* and goes.                                                               *)
Device(d) ==
  /\ lock[d] = NoLock
  /\ \/ call[d] = "init" /\ call' = [call EXCEPT ![d] = "active"]
     \/ call[d] \in {"init", "active"} /\ call' = [call EXCEPT ![d] = "none"]
     \/ call[d] = "none" /\ call' = [call EXCEPT ![d] = "off"]
     \/ call[d] = "off" /\ call' = [call EXCEPT ![d] = "none"]
  /\ UNCHANGED <<lock, last_used, th, used>>

Next ==
  \/ \E t \in Threads, kind \in Kinds, use \in Uses : Begin(t, kind, use)
  \/ \E t \in Threads : Scan(t) \/ Search(t) \/ SearchFirst(t) \/ Found(t) \/ NotFound(t)
  \/ \E d \in Devs : Device(d)

Spec == Init /\ [][Next]_vars
FairSpec ==
  /\ Spec
  /\ \A t \in Threads : /\ WF_vars(Found(t)) /\ WF_vars(NotFound(t))
                        /\ SF_vars(Scan(t) \/ Search(t) \/ SearchFirst(t))

-----------------------------------------------------------------------------
(* Every way out of a search unlocks what it locked, but for the device it *)
(* returns; and that one is unlocked when the call is made.                *)
NoLockLeft ==
  \A d \in Devs : lock[d] # NoLock => th[lock[d]].pc = "found" /\ th[lock[d]].found = d

(* A device that is found can still take the call when it is made: no      *)
(* other thread books it in between, and it does not go away               *)
(* (channel_request, is_dial_possible2).                                   *)
BookedIsFit == \A t \in Threads : th[t].pc = "found" => test_fn(th[t].found, th[t].use)

(* A search that finds nothing has tried every device of the group: only   *)
(* one in turn that has tried as many as there is room for may have left   *)
(* devices out, and these are behind them all in the list.  It says that   *)
(* the resource exists exactly if there is one.                            *)
TriesAll ==
  \A t \in Threads :
    LET s == th[t]
    IN  s.pc = "none" =>
          /\ s.tried \subseteq Members
          /\ \A d \in Members \ s.tried : /\ s.kind = "robin" /\ Cardinality(s.tried) = MaxListed
                                          /\ \A e \in s.tried : e < d
          /\ s.exists = (Members # {})

(* Threads search at once, each waiting for the devices the others hold:   *)
(* every search ends.                                                      *)
SearchEnds == \A t \in Threads : th[t].pc # "idle" ~> th[t].pc = "idle"

(* What the mark is for: while nobody searches, a group of which a device  *)
(* was once taken in turn has its last used one marked (chan_quectel.h).   *)
MarkIsKept ==
  used /\ (\A t \in Threads : th[t].pc = "idle") => \E d \in Devs : last_used[d]
=============================================================================
