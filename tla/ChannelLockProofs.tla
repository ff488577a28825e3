------------------------- MODULE ChannelLockProofs --------------------------
(***************************************************************************)
(* The locks between channels and devices, for any channels, devices and   *)
(* calls: no thread comes to rest with a lock, and a callback that has the *)
(* lock of a device works on a live call of its own channel.               *)
(***************************************************************************)
EXTENDS ChannelLock, TLAPS

-----------------------------------------------------------------------------
(* The inductive invariant: who holds which lock follows from where the    *)
(* threads are.                                                            *)

CbPcs == {"idle", "list", "look", "match", "yield", "relock", "body", "return",
          "follow", "wait", "use"}
CbSet == [pc : CbPcs, todo : SUBSET Devs, busy : BOOLEAN, pvt : Devs \union {None},
          cpvt : Calls \union {None}]
SerSet == [pc : {"idle", "task", "queue", "done", "end"}, chan : Chans \union {None}]

TypeInv == TypeOK /\ cb \in [Chans -> CbSet] /\ ser \in [Devs -> SerSet]

(* The call a callback found is one of the device it found it on.          *)
Own(ch) == call[cb[ch].cpvt] = [dev |-> cb[ch].pvt, chan |-> ch]

(* The serializer of the device has freed it, and waits for the channel,   *)
(* which the callback has locked.                                          *)
Stuck(ch) == ser[cb[ch].pvt].pc = "queue" /\ ser[cb[ch].pvt].chan = ch

(* A channel's callback.                                                   *)
ChanInv(ch) ==
  /\ clock[ch] = IF cb[ch].pc \in {"idle", "relock"} THEN None ELSE ch
  /\ ch \in readers <=> cb[ch].pc \in {"look", "match"}
  /\ \A d \in Devs : dlock[d] = ch <=> cb[ch].pc \in {"match", "body", "use"} /\ cb[ch].pvt = d
  /\ cb[ch].pc \in {"match", "body", "wait", "use"} => cb[ch].pvt \in Devs
  /\ cb[ch].pc \in {"body", "follow", "wait", "use"} => cb[ch].cpvt \in Calls
  /\ cb[ch].pc \in {"follow", "wait", "use"} => Direct
  /\ cb[ch].pc \in {"look", "match"} => cb[ch].todo \subseteq devs
  /\ cb[ch].pc \in {"match", "body"} => cb[ch].pvt \in devs
  /\ cb[ch].pc \in {"body", "use"} => Own(ch)
  /\ cb[ch].pc = "wait" => Own(ch) \/ Stuck(ch)

(* A device's serializer.                                                  *)
DevInv(d) ==
  /\ dlock[d] \in Chans \union {d, None}
  /\ dlock[d] = d <=> ser[d].pc \in {"task", "queue", "done"}
  /\ ser[d].pc = "queue" => ser[d].chan \in Chans
  /\ ser[d].pc \in {"task", "queue", "done"} => d \in devs

(* A call is on a device that has not ended.                               *)
CallInv(c) == call[c] # None => call[c].dev \in devs /\ ser[call[c].dev].pc # "end"

IInv ==
  /\ TypeInv
  /\ \A ch \in Chans : ChanInv(ch)
  /\ \A d \in Devs : DevInv(d)
  /\ \A c \in Calls : CallInv(c)

-----------------------------------------------------------------------------
(* The kinds of thread are told apart.                                     *)
LEMMA Kinds ==
  ASSUME NEW ch \in Chans, NEW d \in Devs
  PROVE  ch # None /\ d # None /\ ch # d /\ ch # Manager /\ d # Manager /\ Manager # None
BY LockAssumption

(* Free storage is told from a call.                                       *)
LEMMA NoneIsNoCall ==
  None \notin [dev : Devs, chan : Chans \union {None}]
BY LockAssumption

(* The record of an idle thread is a thread record.                        *)
LEMMA IdleSet ==
  Idle \in CbSet /\ Idle.pc = "idle"
BY DEF Idle, CbSet, CbPcs

(* A callback's record with another program counter.                       *)
LEMMA Fresh ==
  ASSUME NEW pc \in CbPcs
  PROVE  /\ [Idle EXCEPT !.pc = pc] \in CbSet
         /\ [Idle EXCEPT !.pc = pc].pc = pc
BY IdleSet DEF CbSet, Idle

(* At first nobody holds a lock.                                           *)
LEMMA InitOk ==
  Init => IInv
<1> SUFFICES ASSUME Init PROVE IInv
  OBVIOUS
<1>1. TypeInv
  BY IdleSet DEF Init, TypeInv, TypeOK, SerSet
<1>2. ASSUME NEW ch \in Chans PROVE ChanInv(ch)
  BY IdleSet, Kinds DEF Init, ChanInv
<1>3. ASSUME NEW d \in Devs PROVE DevInv(d)
  <2>1. dlock[d] = None /\ ser[d].pc = "idle" /\ d # None
    BY LockAssumption DEF Init
  <2> QED BY <2>1 DEF DevInv
<1>4. ASSUME NEW c \in Calls PROVE CallInv(c)
  BY DEF Init, CallInv
<1> QED BY <1>1, <1>2, <1>3, <1>4 DEF IInv

(* A step of one callback that leaves the devices' locks alone.            *)
LEMMA CbStep ==
  ASSUME IInv, NEW ch \in Chans, NEW r \in CbSet, cb' = [cb EXCEPT ![ch] = r],
         clock' \in [Chans -> Chans \union {None}],
         \A x \in Chans \ {ch} : clock'[x] = clock[x],
         readers' \subseteq Chans, writer = None \/ readers' = {},
         \A x \in Chans \ {ch} : x \in readers' <=> x \in readers,
         UNCHANGED <<writer, dlock, devs, call, tech, ser, ending>>,
         ChanInv(ch)'
  PROVE  IInv'
<1> USE DEF IInv
<1>1. TypeInv'
  BY DEF TypeInv, TypeOK
<1>2. ASSUME NEW x \in Chans PROVE ChanInv(x)'
  <2>1. CASE x = ch
    BY <2>1
  <2>2. CASE x # ch
    <3>1. cb'[x] = cb[x] /\ clock'[x] = clock[x] /\ (x \in readers' <=> x \in readers)
      BY <2>2 DEF TypeInv
    <3>2. (Own(x)' <=> Own(x)) /\ (Stuck(x)' <=> Stuck(x))
      BY <3>1 DEF Own, Stuck
    <3> QED BY <3>1, <3>2 DEF ChanInv
  <2> QED BY <2>1, <2>2
<1>3. \A d \in Devs : DevInv(d)'
  BY DEF DevInv
<1>4. \A c \in Calls : CallInv(c)'
  BY DEF CallInv
<1> QED BY <1>1, <1>2, <1>3, <1>4

(* A step of one callback on the lock of one device, which was free or its *)
(* own, and is its own or free afterwards.                                 *)
LEMMA CbLockStep ==
  ASSUME IInv, NEW ch \in Chans, NEW r \in CbSet, cb' = [cb EXCEPT ![ch] = r],
         NEW d \in Devs, NEW o \in {ch, None}, dlock[d] \in {ch, None},
         dlock' = [dlock EXCEPT ![d] = o],
         UNCHANGED <<writer, readers, clock, devs, ser, ending>>,
         call' \in [Calls -> [dev : Devs, chan : Chans \union {None}] \union {None}],
         \A c \in Calls : \/ call'[c] = call[c]
                          \/ /\ call[c] # None /\ call[c].chan = ch
                             /\ call'[c].dev = call[c].dev,
         tech' \in [Chans -> Calls \union {None}],
         ChanInv(ch)'
  PROVE  IInv'
<1> USE DEF IInv
<1>1. TypeInv'
  BY DEF TypeInv, TypeOK, Threads
<1>2. ASSUME NEW x \in Chans PROVE ChanInv(x)'
  <2>1. CASE x = ch
    BY <2>1
  <2>2. CASE x # ch
    <3>1. cb'[x] = cb[x] /\ \A e \in Devs : dlock'[e] = x <=> dlock[e] = x
      BY <2>2, Kinds DEF TypeInv, TypeOK
    <3>2. cb[x].cpvt \in Calls => (Own(x) => Own(x)')
      BY <2>2, <3>1 DEF Own
    <3>3. Stuck(x)' <=> Stuck(x)
      BY <3>1 DEF Stuck
    <3>4. ChanInv(x)
      OBVIOUS
    <3> QED BY <3>1, <3>2, <3>3, <3>4 DEF ChanInv
  <2> QED BY <2>1, <2>2
<1>3. ASSUME NEW e \in Devs PROVE DevInv(e)'
  <2>1. dlock'[e] = IF e = d THEN o ELSE dlock[e]
    BY DEF TypeInv, TypeOK
  <2> QED BY <2>1, Kinds DEF DevInv
<1>4. \A c \in Calls : CallInv(c)'
  BY DEF CallInv
<1> QED BY <1>1, <1>2, <1>3, <1>4

-----------------------------------------------------------------------------
(* The steps of a callback.                                                *)

(* A callback that gives a device back holds none.                         *)
LEMMA GivesBack ==
  ASSUME IInv, NEW ch \in Chans, cb[ch].pc \in {"match", "body", "use"},
         dlock' = [dlock EXCEPT ![cb[ch].pvt] = None], NEW e \in Devs
  PROVE  dlock'[e] # ch
<1>1. dlock[e] = ch => cb[ch].pvt = e
  BY DEF IInv, ChanInv
<1>2. dlock'[e] = IF e = cb[ch].pvt THEN None ELSE dlock[e]
  BY DEF IInv, TypeInv, TypeOK
<1> QED BY <1>1, <1>2, Kinds

(* A callback that takes a device, holding none, holds that one.           *)
LEMMA TakesOne ==
  ASSUME IInv, NEW ch \in Chans, cb[ch].pc \notin {"match", "body", "use"},
         NEW d \in Devs, dlock' = [dlock EXCEPT ![d] = ch], NEW e \in Devs
  PROVE  dlock'[e] = ch <=> d = e
<1>1. dlock[e] # ch
  BY DEF IInv, ChanInv
<1>2. dlock'[e] = IF e = d THEN ch ELSE dlock[e]
  BY DEF IInv, TypeInv, TypeOK
<1> QED BY <1>1, <1>2

(* A media callback starts with the lock of its channel only.              *)
LEMMA EnterMediaOk ==
  ASSUME IInv, NEW ch \in Chans, EnterMedia(ch)
  PROVE  IInv'
<1> DEFINE r == [Idle EXCEPT !.pc = "list"]
<1>1. r \in CbSet /\ r.pc = "list"
  BY Fresh DEF CbPcs
<1> HIDE DEF r
<1>2. /\ cb' = [cb EXCEPT ![ch] = r] /\ clock' = [clock EXCEPT ![ch] = ch] /\ cb[ch].pc = "idle"
      /\ UNCHANGED <<writer, readers, dlock, devs, call, tech, ser, ending>>
  BY DEF EnterMedia, Enter, At, state, r
<1>3. ChanInv(ch)'
  <2>1. cb'[ch] = r /\ ChanInv(ch) /\ ch # None /\ clock'[ch] = ch
    BY <1>1, <1>2, LockAssumption DEF IInv, TypeInv, TypeOK
  <2> QED BY <1>1, <1>2, <2>1 DEF ChanInv
<1> QED BY <1>1, <1>2, <1>3, CbStep DEF IInv, TypeInv, TypeOK

(* So does one that uses its call directly.                                *)
LEMMA EnterDirectOk ==
  ASSUME IInv, NEW ch \in Chans, EnterDirect(ch)
  PROVE  IInv'
<1> DEFINE r == IF tech[ch] = None THEN [Idle EXCEPT !.pc = "return"]
                ELSE [Idle EXCEPT !.pc = "follow", !.cpvt = tech[ch]]
<1>0. tech[ch] \in Calls \union {None}
  BY DEF IInv, TypeInv, TypeOK
<1>1. r \in CbSet /\ (\/ r.pc = "return"
                      \/ r.pc = "follow" /\ r.cpvt \in Calls)
  <2>1. CASE tech[ch] = None
    <3>1. "return" \in CbPcs /\ r = [Idle EXCEPT !.pc = "return"]
      BY <2>1 DEF CbPcs
    <3>2. [Idle EXCEPT !.pc = "return"] \in CbSet /\ [Idle EXCEPT !.pc = "return"].pc = "return"
      BY <3>1, Fresh
    <3> QED BY <3>1, <3>2
  <2>2. CASE tech[ch] # None
    BY <1>0, <2>2, IdleSet DEF CbSet, CbPcs, Idle
  <2> QED BY <2>1, <2>2
<1> HIDE DEF r
<1>2. /\ cb' = [cb EXCEPT ![ch] = r] /\ clock' = [clock EXCEPT ![ch] = ch] /\ cb[ch].pc = "idle"
      /\ UNCHANGED <<writer, readers, dlock, devs, call, tech, ser, ending>> /\ Direct
  BY DEF EnterDirect, Enter, At, state, r
<1>3. ChanInv(ch)'
  <2>1. cb'[ch] = r /\ ChanInv(ch) /\ ch # None /\ clock'[ch] = ch
    BY <1>1, <1>2, LockAssumption DEF IInv, TypeInv, TypeOK
  <2> QED BY <1>1, <1>2, <2>1 DEF ChanInv
<1> QED BY <1>1, <1>2, <1>3, CbStep DEF IInv, TypeInv, TypeOK

(* The list is locked only when it is free.                                *)
LEMMA TryListOk ==
  ASSUME IInv, NEW ch \in Chans, TryList(ch)
  PROVE  IInv'
<1>0. /\ cb[ch].pc = "list" /\ UNCHANGED <<writer, dlock, clock, devs, call, tech, ser, ending>>
      /\ cb[ch] \in CbSet
  BY DEF TryList, At, state, IInv, TypeInv
<1>1. CASE writer = None
  <2> DEFINE r == [Idle EXCEPT !.pc = "look", !.todo = devs]
  <2>1. r \in CbSet /\ r.pc = "look" /\ r.todo = devs
    BY IdleSet DEF CbSet, CbPcs, Idle, IInv, TypeInv, TypeOK
  <2> HIDE DEF r
  <2>2. cb' = [cb EXCEPT ![ch] = r] /\ readers' = readers \union {ch}
    BY <1>1 DEF TryList, r
  <2>3. ChanInv(ch)'
    <3>1. cb'[ch] = r /\ ChanInv(ch) /\ ch # None /\ clock'[ch] = clock[ch]
      BY <1>0, <2>1, <2>2, LockAssumption DEF IInv, TypeInv, TypeOK
    <3> QED BY <1>0, <2>1, <2>2, <3>1 DEF ChanInv
  <2> QED BY <1>0, <1>1, <2>1, <2>2, <2>3, CbStep DEF IInv, TypeInv, TypeOK
<1>2. CASE writer # None
  <2> DEFINE r == [cb[ch] EXCEPT !.pc = "yield"]
  <2>1. r \in CbSet /\ r.pc = "yield"
    BY <1>0 DEF CbSet, CbPcs
  <2> HIDE DEF r
  <2>2. cb' = [cb EXCEPT ![ch] = r] /\ readers' = readers
    BY <1>2 DEF TryList, r
  <2>3. ChanInv(ch)'
    <3>1. cb'[ch] = r /\ ChanInv(ch) /\ ch # None /\ clock'[ch] = clock[ch]
      BY <1>0, <2>1, <2>2, LockAssumption DEF IInv, TypeInv, TypeOK
    <3> QED BY <1>0, <2>1, <2>2, <3>1 DEF ChanInv
  <2> QED BY <1>0, <2>1, <2>2, <2>3, CbStep DEF IInv, TypeInv, TypeOK
<1> QED BY <1>1, <1>2

(* A device is locked with try, under the list.                            *)
LEMMA TryDeviceOk ==
  ASSUME IInv, NEW ch \in Chans, NEW d \in Devs, TryDevice(ch, d)
  PROVE  IInv'
<1>0. /\ cb[ch].pc = "look" /\ d \in cb[ch].todo /\ cb[ch] \in CbSet
      /\ cb[ch].todo \subseteq devs /\ cb[ch].todo \ {d} \in SUBSET Devs
      /\ UNCHANGED <<writer, readers, clock, devs, call, tech, ser, ending>>
  BY DEF TryDevice, At, state, IInv, TypeInv, ChanInv, CbSet
<1>1. CASE dlock[d] = None
  <2> DEFINE r == [cb[ch] EXCEPT !.pc = "match", !.pvt = d, !.todo = @ \ {d}]
  <2>1. r \in CbSet /\ r.pc = "match" /\ r.pvt = d /\ r.todo = cb[ch].todo \ {d}
    BY <1>0 DEF CbSet, CbPcs
  <2> HIDE DEF r
  <2>2. cb' = [cb EXCEPT ![ch] = r] /\ dlock' = [dlock EXCEPT ![d] = ch]
    BY <1>1 DEF TryDevice, r
  <2>3. ChanInv(ch)'
    <3>1. cb'[ch] = r /\ ChanInv(ch) /\ ch # None /\ clock'[ch] = clock[ch]
      BY <1>0, <2>1, <2>2, LockAssumption DEF IInv, TypeInv, TypeOK
    <3>2. \A e \in Devs : dlock'[e] = ch <=> d = e
      BY <1>0, <2>2, TakesOne
    <3> QED BY <1>0, <2>1, <2>2, <3>1, <3>2 DEF ChanInv
  <2> QED BY <1>0, <1>1, <2>1, <2>2, <2>3, CbLockStep DEF IInv, TypeInv, TypeOK
<1>2. CASE dlock[d] # None
  <2> DEFINE r == [cb[ch] EXCEPT !.busy = TRUE, !.todo = @ \ {d}]
  <2>1. r \in CbSet
    <3>1. TRUE \in BOOLEAN
      OBVIOUS
    <3> QED BY <1>0, <3>1, Zenon DEF CbSet
  <2>2. r.pc = "look" /\ r.todo = cb[ch].todo \ {d}
    BY <1>0 DEF CbSet
  <2> HIDE DEF r
  <2>3. cb' = [cb EXCEPT ![ch] = r] /\ dlock' = dlock
    BY <1>2 DEF TryDevice, r
  <2>4. ChanInv(ch)'
    <3>1. cb'[ch] = r /\ ChanInv(ch) /\ ch # None /\ clock'[ch] = clock[ch]
      BY <1>0, <2>1, <2>2, <2>3, LockAssumption DEF IInv, TypeInv, TypeOK
    <3> QED BY <1>0, <2>1, <2>2, <2>3, <3>1 DEF ChanInv
  <2> QED BY <1>0, <2>1, <2>3, <2>4, CbStep DEF IInv, TypeInv, TypeOK
<1> QED BY <1>1, <1>2

(* A device that matches is kept, another is unlocked.                     *)
LEMMA MatchOk ==
  ASSUME IInv, NEW ch \in Chans, Match(ch)
  PROVE  IInv'
<1> DEFINE d == cb[ch].pvt
<1>0. /\ cb[ch].pc = "match" /\ cb[ch] \in CbSet /\ d \in Devs /\ d \in devs
      /\ dlock[d] = ch /\ cb[ch].todo \subseteq devs
      /\ UNCHANGED <<writer, clock, devs, call, tech, ser, ending>>
  BY DEF Match, At, state, IInv, TypeInv, ChanInv
<1>1. CASE {c \in Calls : Matches(ch, c)} # {}
  <2>1. PICK c \in Calls : Matches(ch, c) /\ cb' = [cb EXCEPT ![ch].pc = "body", ![ch].cpvt = c]
    BY <1>1 DEF Match
  <2> DEFINE r == [cb[ch] EXCEPT !.pc = "body", !.cpvt = c]
  <2>2. r \in CbSet /\ r.pc = "body" /\ r.cpvt = c /\ r.pvt = d
    BY <1>0 DEF CbSet, CbPcs
  <2>3. call[c] = [dev |-> d, chan |-> ch]
    BY <2>1 DEF Matches
  <2> HIDE DEF r
  <2>4. cb' = [cb EXCEPT ![ch] = r] /\ readers' = readers \ {ch} /\ dlock' = dlock
    BY <1>1, <2>1 DEF Match, r
  <2>5. ChanInv(ch)'
    <3>1. cb'[ch] = r /\ ChanInv(ch) /\ ch # None /\ clock'[ch] = clock[ch]
      BY <1>0, <2>2, <2>3, <2>4, LockAssumption DEF IInv, TypeInv, TypeOK
    <3>2. Own(ch)'
      BY <1>0, <2>2, <2>3, <3>1 DEF Own
    <3> QED BY <1>0, <2>2, <2>3, <2>4, <3>1, <3>2 DEF ChanInv
  <2> QED BY <1>0, <2>2, <2>4, <2>5, CbStep DEF IInv, TypeInv, TypeOK
<1>2. CASE {c \in Calls : Matches(ch, c)} = {}
  <2> DEFINE r == [cb[ch] EXCEPT !.pc = "look"]
  <2>1. r \in CbSet /\ r.pc = "look" /\ r.todo = cb[ch].todo
    BY <1>0 DEF CbSet, CbPcs
  <2> HIDE DEF r
  <2>2. cb' = [cb EXCEPT ![ch] = r] /\ readers' = readers /\ dlock' = [dlock EXCEPT ![d] = None]
    BY <1>2 DEF Match, r
  <2>3. \A e \in Devs : dlock'[e] # ch
    BY <1>0, <2>2, GivesBack
  <2>4. ChanInv(ch)'
    <3>1. cb'[ch] = r /\ ChanInv(ch) /\ ch # None /\ clock'[ch] = clock[ch]
      BY <1>0, <2>1, <2>2, <2>3, LockAssumption DEF IInv, TypeInv, TypeOK
    <3> QED BY <1>0, <2>1, <2>2, <2>3, <3>1 DEF ChanInv
  <2> QED BY <1>0, <2>1, <2>2, <2>4, CbLockStep DEF IInv, TypeInv, TypeOK
<1> QED BY <1>1, <1>2

(* At the end of the list its lock is given back.                          *)
LEMMA ListDoneOk ==
  ASSUME IInv, NEW ch \in Chans, ListDone(ch)
  PROVE  IInv'
<1> DEFINE r == [Idle EXCEPT !.pc = IF cb[ch].busy THEN "yield" ELSE "return"]
<1>1. r \in CbSet /\ r.pc \in {"yield", "return"}
  BY Fresh DEF CbPcs
<1> HIDE DEF r
<1>2. /\ cb' = [cb EXCEPT ![ch] = r] /\ cb[ch].pc = "look" /\ readers' = readers \ {ch}
      /\ UNCHANGED <<writer, clock, dlock, devs, call, tech, ser, ending>>
  BY DEF ListDone, At, state, r
<1>3. ChanInv(ch)'
  <2>1. cb'[ch] = r /\ ChanInv(ch) /\ ch # None /\ clock'[ch] = clock[ch]
    BY <1>1, <1>2, LockAssumption DEF IInv, TypeInv, TypeOK
  <2> QED BY <1>1, <1>2, <2>1 DEF ChanInv
<1> QED BY <1>1, <1>2, <1>3, CbStep DEF IInv, TypeInv, TypeOK

(* It lets go of the channel for a moment and takes it again.              *)
LEMMA YieldOk ==
  ASSUME IInv, NEW ch \in Chans, Yield(ch) \/ Relock(ch)
  PROVE  IInv'
<1>0. cb[ch] \in CbSet
  BY DEF IInv, TypeInv
<1>1. CASE Yield(ch)
  <2> DEFINE r == [cb[ch] EXCEPT !.pc = "relock"]
  <2>1. r \in CbSet /\ r.pc = "relock"
    BY <1>0 DEF CbSet, CbPcs
  <2> HIDE DEF r
  <2>2. /\ cb' = [cb EXCEPT ![ch] = r] /\ cb[ch].pc = "yield" /\ clock' = [clock EXCEPT ![ch] = None]
        /\ UNCHANGED <<writer, readers, dlock, devs, call, tech, ser, ending>>
    BY <1>1 DEF Yield, At, state, r
  <2>3. ChanInv(ch)'
    <3>1. cb'[ch] = r /\ ChanInv(ch) /\ ch # None /\ clock'[ch] = None
      BY <2>1, <2>2, LockAssumption DEF IInv, TypeInv, TypeOK
    <3> QED BY <2>1, <2>2, <3>1 DEF ChanInv
  <2> QED BY <2>1, <2>2, <2>3, CbStep DEF IInv, TypeInv, TypeOK
<1>2. CASE Relock(ch)
  <2> DEFINE r == [cb[ch] EXCEPT !.pc = "list"]
  <2>1. r \in CbSet /\ r.pc = "list"
    BY <1>0 DEF CbSet, CbPcs
  <2> HIDE DEF r
  <2>2. /\ cb' = [cb EXCEPT ![ch] = r] /\ cb[ch].pc = "relock" /\ clock' = [clock EXCEPT ![ch] = ch]
        /\ UNCHANGED <<writer, readers, dlock, devs, call, tech, ser, ending>>
    BY <1>2 DEF Relock, At, state, r
  <2>3. ChanInv(ch)'
    <3>1. cb'[ch] = r /\ ChanInv(ch) /\ ch # None /\ clock'[ch] = ch
      BY <2>1, <2>2, LockAssumption DEF IInv, TypeInv, TypeOK
    <3> QED BY <2>1, <2>2, <3>1 DEF ChanInv
  <2> QED BY <2>1, <2>2, <2>3, CbStep DEF IInv, TypeInv, TypeOK
<1> QED BY <1>1, <1>2

(* The body works under the lock of the device of its call.                *)
LEMMA BodyOk ==
  ASSUME IInv, NEW ch \in Chans, Body(ch)
  PROVE  IInv'
<1> DEFINE r == [Idle EXCEPT !.pc = "return"]
<1>1. r \in CbSet /\ r.pc = "return"
  BY Fresh DEF CbPcs
<1> HIDE DEF r
<1>2. /\ cb' = [cb EXCEPT ![ch] = r] /\ dlock' = [dlock EXCEPT ![cb[ch].pvt] = None]
      /\ cb[ch].pc = "body" /\ cb[ch].pvt \in Devs /\ dlock[cb[ch].pvt] = ch
      /\ UNCHANGED <<writer, readers, clock, devs, call, tech, ser, ending>>
  <2>1. ChanInv(ch) /\ cb[ch].pc = "body"
    BY DEF IInv, Body, At
  <2>2. cb[ch].pvt \in Devs /\ dlock[cb[ch].pvt] = ch
    BY <2>1 DEF ChanInv
  <2> QED BY <2>1, <2>2 DEF Body, state, r
<1>3. \A e \in Devs : dlock'[e] # ch
  BY <1>2, GivesBack
<1>4. ChanInv(ch)'
  <2>1. cb'[ch] = r /\ ChanInv(ch) /\ ch # None /\ clock'[ch] = clock[ch]
    BY <1>1, <1>2, <1>3, LockAssumption DEF IInv, TypeInv, TypeOK
  <2> QED BY <1>1, <1>2, <1>3, <2>1 DEF ChanInv
<1> QED BY <1>1, <1>2, <1>4, CbLockStep DEF IInv, TypeInv, TypeOK

(* A callback that returns holds nothing.                                  *)
LEMMA ReturnOk ==
  ASSUME IInv, NEW ch \in Chans, Return(ch)
  PROVE  IInv'
<1>1. /\ cb' = [cb EXCEPT ![ch] = Idle] /\ cb[ch].pc = "return" /\ clock' = [clock EXCEPT ![ch] = None]
      /\ UNCHANGED <<writer, readers, dlock, devs, call, tech, ser, ending>>
  BY DEF Return, At, state
<1>2. ChanInv(ch)'
  <2>1. cb'[ch] = Idle /\ ChanInv(ch) /\ ch # None /\ clock'[ch] = None
    BY <1>1, IdleSet, LockAssumption DEF IInv, TypeInv, TypeOK
  <2> QED BY <1>1, IdleSet, <2>1 DEF ChanInv
<1> QED BY <1>1, <1>2, IdleSet, CbStep DEF IInv, TypeInv, TypeOK

(* A direct callback follows the pointer of its channel.                   *)
LEMMA FollowOk ==
  ASSUME IInv, NEW ch \in Chans, Follow(ch)
  PROVE  IInv'
<1> DEFINE c == call[cb[ch].cpvt]
           r == IF c # None /\ c.chan = ch THEN [cb[ch] EXCEPT !.pc = "wait", !.pvt = c.dev]
                ELSE [Idle EXCEPT !.pc = "return"]
<1>0. /\ cb[ch].pc = "follow" /\ cb[ch] \in CbSet /\ cb[ch].cpvt \in Calls /\ Direct
      /\ c # None => c.dev \in Devs
  <2>1. cb[ch].pc = "follow" /\ cb[ch] \in CbSet /\ ChanInv(ch)
    BY DEF Follow, At, IInv, TypeInv
  <2>2. cb[ch].cpvt \in Calls /\ Direct
    BY <2>1 DEF ChanInv
  <2> QED BY <2>1, <2>2 DEF IInv, TypeInv, TypeOK
<1>1. r \in CbSet /\ (\/ r.pc = "return"
                      \/ /\ r.pc = "wait" /\ r.pvt \in Devs /\ r.cpvt \in Calls
                         /\ call[r.cpvt] = [dev |-> r.pvt, chan |-> ch])
  <2>1. CASE c # None /\ c.chan = ch
    <3>1. c.dev \in Devs
      BY <1>0, <2>1
    <3>2. r = [cb[ch] EXCEPT !.pc = "wait", !.pvt = c.dev]
      BY <2>1
    <3>3. c = [dev |-> c.dev, chan |-> ch]
      BY <1>0, <2>1 DEF IInv, TypeInv, TypeOK
    <3>4. c = call[cb[ch].cpvt]
      OBVIOUS
    <3> HIDE DEF c, r
    <3>5. r \in CbSet /\ r.pc = "wait" /\ r.pvt = c.dev /\ r.cpvt = cb[ch].cpvt
      BY <1>0, <3>1, <3>2 DEF CbSet, CbPcs
    <3> QED BY <1>0, <3>1, <3>3, <3>4, <3>5
  <2>2. CASE ~(c # None /\ c.chan = ch)
    <3>1. "return" \in CbPcs /\ r = [Idle EXCEPT !.pc = "return"]
      BY <2>2 DEF CbPcs
    <3>2. [Idle EXCEPT !.pc = "return"] \in CbSet /\ [Idle EXCEPT !.pc = "return"].pc = "return"
      BY <3>1, Fresh
    <3> QED BY <3>1, <3>2
  <2> QED BY <2>1, <2>2
<1>2. cb' = [cb EXCEPT ![ch] = r]
  BY DEF Follow
<1> HIDE DEF r
<1>3. UNCHANGED <<writer, readers, clock, dlock, devs, call, tech, ser, ending>>
  BY DEF Follow, locks, state
<1>4. ChanInv(ch)'
  <2>1. cb'[ch] = r /\ ChanInv(ch) /\ ch # None /\ clock'[ch] = clock[ch]
    BY <1>0, <1>1, <1>2, <1>3, LockAssumption DEF IInv, TypeInv, TypeOK
  <2>2. r.pc = "wait" => Own(ch)'
    BY <1>1, <1>3, <2>1 DEF Own
  <2> QED BY <1>0, <1>1, <1>2, <1>3, <2>1, <2>2 DEF ChanInv
<1> QED BY <1>1, <1>2, <1>3, <1>4, CbStep DEF IInv, TypeInv, TypeOK

(* It waits for the lock of that device.                                   *)
LEMMA WaitDeviceOk ==
  ASSUME IInv, NEW ch \in Chans, WaitDevice(ch)
  PROVE  IInv'
<1> DEFINE r == [cb[ch] EXCEPT !.pc = "use"]
<1>0. /\ cb[ch].pc = "wait" /\ cb[ch] \in CbSet /\ cb[ch].pvt \in Devs
      /\ cb[ch].cpvt \in Calls /\ Direct
  BY DEF WaitDevice, At, IInv, TypeInv, ChanInv
<1>1. r \in CbSet /\ r.pc = "use" /\ r.pvt = cb[ch].pvt /\ r.cpvt = cb[ch].cpvt
  BY <1>0 DEF CbSet, CbPcs
<1> HIDE DEF r
<1>2. /\ cb' = [cb EXCEPT ![ch] = r] /\ dlock' = [dlock EXCEPT ![cb[ch].pvt] = ch]
      /\ dlock[cb[ch].pvt] = None
      /\ UNCHANGED <<writer, readers, clock, devs, call, tech, ser, ending>>
  BY DEF WaitDevice, state, r
<1>3. ChanInv(ch)'
  <2>1. cb'[ch] = r /\ ChanInv(ch) /\ ch # None /\ clock'[ch] = clock[ch]
    BY <1>0, <1>1, <1>2, LockAssumption DEF IInv, TypeInv, TypeOK
  <2>2. \A e \in Devs : dlock'[e] = ch <=> cb[ch].pvt = e
    BY <1>0, <1>2, TakesOne
  <2>3. Own(ch)'
    <3>1. ~Stuck(ch)
      <4>1. DevInv(cb[ch].pvt) /\ cb[ch].pvt # None
        BY <1>0, LockAssumption DEF IInv
      <4> QED BY <1>2, <4>1 DEF DevInv, Stuck
    <3>2. Own(ch)
      BY <1>0, <2>1, <3>1 DEF ChanInv
    <3> QED BY <1>1, <1>2, <2>1, <3>2 DEF Own
  <2> QED BY <1>0, <1>1, <1>2, <2>1, <2>2, <2>3 DEF ChanInv
<1> QED BY <1>0, <1>1, <1>2, <1>3, CbLockStep DEF IInv, TypeInv, TypeOK

(* It uses the call and gives the lock back.                               *)
LEMMA UseOk ==
  ASSUME IInv, NEW ch \in Chans, NEW h \in BOOLEAN, Use(ch, h)
  PROVE  IInv'
<1> DEFINE r == [Idle EXCEPT !.pc = "return"]
<1>1. r \in CbSet /\ r.pc = "return"
  BY Fresh DEF CbPcs
<1> HIDE DEF r
<1>2. /\ cb' = [cb EXCEPT ![ch] = r] /\ dlock' = [dlock EXCEPT ![cb[ch].pvt] = None]
      /\ cb[ch].pc = "use" /\ cb[ch].pvt \in Devs /\ dlock[cb[ch].pvt] = ch /\ Direct
      /\ UNCHANGED <<writer, readers, clock, devs, ser, ending>>
  <2>1. ChanInv(ch) /\ cb[ch].pc = "use"
    BY DEF IInv, Use, At
  <2>2. cb[ch].pvt \in Devs /\ dlock[cb[ch].pvt] = ch /\ Direct
    BY <2>1 DEF ChanInv
  <2> QED BY <2>1, <2>2 DEF Use, r
<1>3. \A e \in Devs : dlock'[e] # ch
  BY <1>2, GivesBack
<1>4. /\ call' \in [Calls -> [dev : Devs, chan : Chans \union {None}] \union {None}]
      /\ tech' \in [Chans -> Calls \union {None}]
  BY DEF Use, IInv, TypeInv, TypeOK
<1>6. \A c \in Calls : \/ call'[c] = call[c]
                       \/ /\ call[c] # None /\ call[c].chan = ch
                          /\ call'[c].dev = call[c].dev
  <2>1. call[cb[ch].cpvt] = [dev |-> cb[ch].pvt, chan |-> ch] /\ cb[ch].cpvt \in Calls
    BY <1>2 DEF IInv, ChanInv, Own
  <2>2. call[cb[ch].cpvt] # None
    BY <1>2, <2>1, NoneIsNoCall
  <2>3. \/ call' = call
        \/ call' = [call EXCEPT ![cb[ch].cpvt] = [call[cb[ch].cpvt] EXCEPT !.chan = None]]
    BY <2>2 DEF Use
  <2>4. CASE call' = call
    BY <2>4
  <2>5. CASE call' = [call EXCEPT ![cb[ch].cpvt] = [call[cb[ch].cpvt] EXCEPT !.chan = None]]
    <3>1. ASSUME NEW c \in Calls, c # cb[ch].cpvt PROVE call'[c] = call[c]
      BY <2>5, <3>1 DEF IInv, TypeInv, TypeOK
    <3>2. call'[cb[ch].cpvt] = [call[cb[ch].cpvt] EXCEPT !.chan = None]
      BY <2>1, <2>5 DEF IInv, TypeInv, TypeOK
    <3>3. call'[cb[ch].cpvt].dev = call[cb[ch].cpvt].dev /\ call[cb[ch].cpvt].chan = ch
      BY <2>1, <3>2
    <3> QED BY <2>2, <3>1, <3>3
  <2> QED BY <2>3, <2>4, <2>5
<1>5. ChanInv(ch)'
  <2>1. cb'[ch] = r /\ ChanInv(ch) /\ ch # None /\ clock'[ch] = clock[ch]
    BY <1>1, <1>2, <1>3, LockAssumption DEF IInv, TypeInv, TypeOK
  <2> QED BY <1>1, <1>2, <1>3, <2>1 DEF ChanInv
<1> QED BY <1>1, <1>2, <1>4, <1>5, <1>6, CbLockStep

(* Every step of a callback keeps the invariant.                           *)
LEMMA CallbackOk ==
  ASSUME IInv, NEW ch \in Chans, Callback(ch)
  PROVE  IInv'
BY TryListOk, TryDeviceOk, MatchOk, ListDoneOk, YieldOk, BodyOk, ReturnOk, FollowOk, WaitDeviceOk,
   UseOk DEF Callback

-----------------------------------------------------------------------------
(* The steps of a serializer.                                              *)

(* One that keeps the device's lock.  It leaves the calls of other devices *)
(* alone, and goes to the channel of a call that it frees, but never past  *)
(* a channel that is locked.                                               *)
LEMMA SerStep ==
  ASSUME IInv, NEW d \in Devs, NEW r \in SerSet, ser' = [ser EXCEPT ![d] = r],
         ser[d].pc \in {"task", "queue", "done"}, r.pc \in {"task", "queue", "done"},
         r.pc = "queue" => r.chan \in Chans,
         ser[d].pc = "queue" => clock[ser[d].chan] = None,
         UNCHANGED <<writer, readers, devs, dlock, clock, cb, ending>>,
         call' \in [Calls -> [dev : Devs, chan : Chans \union {None}] \union {None}],
         \A c \in Calls :
           /\ call[c] # None /\ call[c].dev # d => call'[c] = call[c]
           /\ call[c] # None /\ call[c].chan \in Chans /\ call'[c] # call[c] =>
                r.pc = "queue" /\ r.chan = call[c].chan
           /\ call'[c] # None => call'[c] = call[c] \/ call'[c].dev = d,
         tech' \in [Chans -> Calls \union {None}]
  PROVE  IInv'
<1> USE DEF IInv
<1>1. TypeInv'
  BY DEF TypeInv, TypeOK
<1>0. \A e \in Devs : ser'[e] = IF e = d THEN r ELSE ser[e]
  BY DEF TypeInv
<1>2. ASSUME NEW ch \in Chans PROVE ChanInv(ch)'
  <2>0. ChanInv(ch)
    OBVIOUS
  <2>1. ASSUME cb[ch].cpvt \in Calls, cb[ch].pvt \in Devs, Own(ch)
        PROVE  \/ Own(ch)'
               \/ Stuck(ch)' /\ cb[ch].pvt = d
    <3>1. call[cb[ch].cpvt] # None /\ call[cb[ch].cpvt].dev = cb[ch].pvt
          /\ call[cb[ch].cpvt].chan = ch
      <4>1. call[cb[ch].cpvt] \in [dev : Devs, chan : Chans \union {None}]
        BY <2>1 DEF Own
      <4>2. None \notin [dev : Devs, chan : Chans \union {None}]
        BY NoneIsNoCall
      <4> QED BY <2>1, <4>1, <4>2 DEF Own
    <3>2. CASE call'[cb[ch].cpvt] = call[cb[ch].cpvt]
      BY <2>1, <3>2 DEF Own
    <3>3. CASE call'[cb[ch].cpvt] # call[cb[ch].cpvt]
      <4>1. r.pc = "queue" /\ r.chan = ch /\ cb[ch].pvt = d
        BY <2>1, <3>1, <3>3
      <4> QED BY <1>0, <4>1 DEF Stuck
    <3> QED BY <3>2, <3>3
  <2>2. cb[ch].pc \in {"body", "use"} => Own(ch)'
    <3> SUFFICES ASSUME cb[ch].pc \in {"body", "use"} PROVE Own(ch)'
      OBVIOUS
    <3>1. dlock[cb[ch].pvt] = ch /\ cb[ch].pvt \in Devs /\ cb[ch].cpvt \in Calls /\ Own(ch)
      BY <2>0 DEF ChanInv
    <3>2. dlock[d] = d
      BY DEF DevInv
    <3>3. cb[ch].pvt # d
      BY <3>1, <3>2, Kinds
    <3> QED BY <2>1, <3>1, <3>3
  <2>3. cb[ch].pc = "wait" => Own(ch)' \/ Stuck(ch)'
    <3> SUFFICES ASSUME cb[ch].pc = "wait" PROVE Own(ch)' \/ Stuck(ch)'
      OBVIOUS
    <3>1. cb[ch].pvt \in Devs /\ cb[ch].cpvt \in Calls /\ clock[ch] = ch /\ ch # None
      BY <2>0, LockAssumption DEF ChanInv
    <3>2. CASE Own(ch)
      BY <2>1, <3>1, <3>2
    <3>3. CASE Stuck(ch)
      <4>1. cb[ch].pvt # d
        BY <3>1, <3>3 DEF Stuck
      <4> QED BY <1>0, <3>1, <3>3, <4>1 DEF Stuck
    <3> QED BY <2>0, <3>2, <3>3 DEF ChanInv
  <2> QED BY <2>0, <2>2, <2>3 DEF ChanInv
<1>3. ASSUME NEW e \in Devs PROVE DevInv(e)'
  <2>2. DevInv(e) /\ DevInv(d)
    OBVIOUS
  <2> QED BY <1>0, <2>2 DEF DevInv
<1>4. ASSUME NEW c \in Calls PROVE CallInv(c)'
  <2> SUFFICES ASSUME call'[c] # None
               PROVE  call'[c].dev \in devs' /\ ser'[call'[c].dev].pc # "end"
    BY DEF CallInv
  <2>1. CASE call'[c] = call[c]
    <3>1. call[c].dev \in devs /\ ser[call[c].dev].pc # "end" /\ call[c].dev \in Devs
      BY <2>1 DEF CallInv, TypeInv, TypeOK
    <3> QED BY <1>0, <2>1, <3>1
  <2>2. CASE call'[c].dev = d
    <3>1. d \in devs
      BY DEF DevInv
    <3> QED BY <1>0, <2>2, <3>1
  <2> QED BY <2>1, <2>2
<1> QED BY <1>1, <1>2, <1>3, <1>4

(* One that takes or gives back the device's lock.                         *)
LEMMA SerLockStep ==
  ASSUME IInv, NEW d \in Devs, NEW r \in SerSet, ser' = [ser EXCEPT ![d] = r],
         dlock[d] \in {d, None}, ser[d].pc # "queue", d \in devs,
         r.pc = "end" => OnDevice(d) = {},
         NEW o \in {d, None}, dlock' = [dlock EXCEPT ![d] = o],
         r.pc # "queue", o = d <=> r.pc \in {"task", "done"},
         UNCHANGED <<writer, readers, devs, clock, cb, call, tech, ending>>
  PROVE  IInv'
<1> USE DEF IInv
<1>0. \A e \in Devs : dlock'[e] = IF e = d THEN o ELSE dlock[e]
  BY DEF TypeInv, TypeOK
<1>1. TypeInv'
  BY DEF TypeInv, TypeOK, Threads
<1>2. ASSUME NEW ch \in Chans PROVE ChanInv(ch)'
  <2>1. \A e \in Devs : dlock'[e] = ch <=> dlock[e] = ch
    BY <1>0, Kinds
  <2>2. ChanInv(ch)
    OBVIOUS
  <2>3. Own(ch)' <=> Own(ch)
    BY DEF Own
  <2>4. cb[ch].pvt \in Devs => (Stuck(ch) => Stuck(ch)')
    BY DEF Stuck, TypeInv
  <2> QED BY <2>1, <2>2, <2>3, <2>4 DEF ChanInv
<1>3. ASSUME NEW e \in Devs PROVE DevInv(e)'
  <2>1. ser'[e] = IF e = d THEN r ELSE ser[e]
    BY DEF TypeInv
  <2>2. DevInv(e)
    OBVIOUS
  <2> QED BY <1>0, <2>1, <2>2, Kinds DEF DevInv
<1>4. ASSUME NEW c \in Calls PROVE CallInv(c)'
  <2>1. call[c] # None => call[c].dev \in Devs
    BY DEF TypeInv, TypeOK
  <2>2. call[c] # None /\ call[c].dev = d => r.pc # "end"
    BY DEF OnDevice
  <2> QED BY <2>1, <2>2 DEF CallInv, TypeInv
<1> QED BY <1>1, <1>2, <1>3, <1>4

(* A job of the serializer takes and gives back its device.                *)
LEMMA TaskOk ==
  ASSUME IInv, NEW d \in Devs, Task(d) \/ TaskDone(d)
  PROVE  IInv'
<1>0. ser[d] \in SerSet /\ DevInv(d)
  BY DEF IInv, TypeInv
<1>1. CASE Task(d)
  <2> DEFINE r == [ser[d] EXCEPT !.pc = "task"]
  <2>1. r \in SerSet /\ r.pc = "task"
    BY <1>0 DEF SerSet
  <2> HIDE DEF r
  <2>2. /\ ser' = [ser EXCEPT ![d] = r] /\ dlock[d] = None /\ dlock' = [dlock EXCEPT ![d] = d]
        /\ d \in devs /\ ser[d].pc = "idle"
        /\ UNCHANGED <<writer, readers, devs, clock, cb, call, tech, ending>>
    BY <1>1 DEF Task, r
  <2> QED BY <2>1, <2>2, SerLockStep
<1>2. CASE TaskDone(d)
  <2> DEFINE r == [ser[d] EXCEPT !.pc = IF d \in ending /\ OnDevice(d) = {} THEN "end" ELSE "idle"]
  <2>1. r \in SerSet /\ r.pc \in {"end", "idle"} /\ (r.pc = "end" => OnDevice(d) = {})
    BY <1>0 DEF SerSet
  <2> HIDE DEF r
  <2>2. /\ ser' = [ser EXCEPT ![d] = r] /\ dlock' = [dlock EXCEPT ![d] = None]
        /\ ser[d].pc \in {"done", "task"}
        /\ UNCHANGED <<writer, readers, devs, clock, cb, call, tech, ending>>
    BY <1>2 DEF TaskDone, r
  <2>3. dlock[d] = d /\ d \in devs
    BY <1>0, <2>2 DEF DevInv
  <2>4. d # None
    BY LockAssumption
  <2> QED BY <2>1, <2>2, <2>3, <2>4, SerLockStep
<1> QED BY <1>1, <1>2

(* A new call belongs to its channel and device.                           *)
LEMMA NewCallOk ==
  ASSUME IInv, NEW d \in Devs, NEW c \in Calls, NEW ch \in Chans, NewCall(d, c, ch)
  PROVE  IInv'
<1> DEFINE r == [ser[d] EXCEPT !.pc = "done"]
<1>0. ser[d] \in SerSet
  BY DEF IInv, TypeInv
<1>1. r \in SerSet /\ r.pc = "done"
  BY <1>0 DEF SerSet
<1> HIDE DEF r
<1>2. /\ ser' = [ser EXCEPT ![d] = r] /\ ser[d].pc = "task" /\ call[c] = None
      /\ call' = [call EXCEPT ![c] = [dev |-> d, chan |-> ch]]
      /\ tech' = [tech EXCEPT ![ch] = c]
      /\ UNCHANGED <<writer, readers, devs, dlock, clock, cb, ending>>
  BY DEF NewCall, locks, r
<1>3. /\ call' \in [Calls -> [dev : Devs, chan : Chans \union {None}] \union {None}]
      /\ tech' \in [Chans -> Calls \union {None}]
      /\ \A x \in Calls : call[x] # None => call'[x] = call[x]
      /\ \A x \in Calls : call'[x] # None => call'[x] = call[x] \/ call'[x].dev = d
  BY <1>2 DEF IInv, TypeInv, TypeOK
<1> QED BY <1>1, <1>2, <1>3, SerStep

(* A call is freed under the lock of its device.                           *)
LEMMA ReleaseOk ==
  ASSUME IInv, NEW d \in Devs, NEW c \in Calls, Release(d, c)
  PROVE  IInv'
<1> DEFINE x == call[c].chan
           r == IF x = None THEN [ser[d] EXCEPT !.pc = IF d \in ending THEN "task" ELSE "done"]
                ELSE [pc |-> "queue", chan |-> x]
<1>0. /\ ser[d] \in SerSet /\ ser[d].pc = "task" /\ call[c] # None /\ call[c].dev = d
      /\ x \in Chans \union {None}
  BY DEF Release, OnDevice, IInv, TypeInv, TypeOK
<1>1. r \in SerSet /\ r.pc \in {"task", "queue", "done"} /\ (r.pc = "queue" => r.chan \in Chans)
  <2>1. CASE x = None
    <3>1. r = [ser[d] EXCEPT !.pc = IF d \in ending THEN "task" ELSE "done"]
      BY <2>1
    <3> HIDE DEF r, x
    <3> QED BY <1>0, <3>1 DEF SerSet
  <2>2. CASE x # None
    <3>1. r = [pc |-> "queue", chan |-> x] /\ x \in Chans
      BY <1>0, <2>2
    <3> HIDE DEF r, x
    <3> QED BY <3>1 DEF SerSet
  <2> QED BY <2>1, <2>2
<1>2. /\ ser' = [ser EXCEPT ![d] = r]
      /\ call' = [call EXCEPT ![c] = None]
      /\ tech' = (IF x = None THEN tech ELSE [tech EXCEPT ![x] = None])
      /\ UNCHANGED <<writer, readers, devs, dlock, clock, cb, ending>>
  BY DEF Release, locks
<1> HIDE DEF r, x
<1>3. /\ call' \in [Calls -> [dev : Devs, chan : Chans \union {None}] \union {None}]
      /\ tech' \in [Chans -> Calls \union {None}]
      /\ \A y \in Calls : call'[y] = (IF y = c THEN None ELSE call[y])
  BY <1>0, <1>2 DEF IInv, TypeInv, TypeOK
<1>4. x \in Chans => r.pc = "queue" /\ r.chan = x
  <2>1. None \notin Chans
    BY LockAssumption
  <2> QED BY <2>1 DEF r
<1>5. \A y \in Calls :
        /\ call[y] # None /\ call[y].dev # d => call'[y] = call[y]
        /\ call[y] # None /\ call[y].chan \in Chans /\ call'[y] # call[y] =>
             r.pc = "queue" /\ r.chan = call[y].chan
        /\ call'[y] # None => call'[y] = call[y] \/ call'[y].dev = d
  BY <1>0, <1>3, <1>4 DEF x
<1> QED BY <1>0, <1>1, <1>2, <1>3, <1>5, SerStep

(* A serializer about to queue a frame has the channel of a call.          *)
LEMMA NotifyOk ==
  ASSUME IInv, NEW d \in Devs, NEW c \in Calls, Notify(d, c)
  PROVE  IInv'
<1> DEFINE r == [pc |-> "queue", chan |-> call[c].chan]
<1>0. call[c].chan \in Chans /\ ser[d].pc = "task"
  BY DEF Notify, OnDevice, IInv, TypeInv, TypeOK
<1>1. r \in SerSet /\ r.pc = "queue" /\ r.chan \in Chans
  BY <1>0 DEF SerSet
<1> HIDE DEF r
<1>2. /\ ser' = [ser EXCEPT ![d] = r]
      /\ UNCHANGED <<writer, readers, devs, dlock, clock, cb, call, tech, ending>>
  BY DEF Notify, locks, r
<1> QED BY <1>0, <1>1, <1>2, SerStep DEF IInv, TypeInv, TypeOK

(* Queueing a frame keeps no lock but that of the device.                  *)
LEMMA QueueOk ==
  ASSUME IInv, NEW d \in Devs, Queue(d)
  PROVE  IInv'
<1> DEFINE r == [pc |-> IF d \in ending THEN "task" ELSE "done", chan |-> None]
<1>1. r \in SerSet /\ r.pc \in {"task", "done"}
  BY DEF SerSet
<1> HIDE DEF r
<1>2. /\ ser' = [ser EXCEPT ![d] = r] /\ ser[d].pc = "queue" /\ clock[ser[d].chan] = None
      /\ UNCHANGED <<writer, readers, devs, dlock, clock, cb, call, tech, ending>>
  BY DEF Queue, locks, r
<1> QED BY <1>1, <1>2, SerStep DEF IInv, TypeInv, TypeOK

(* Every step of a serializer keeps the invariant.                         *)
LEMMA SerializerOk ==
  ASSUME IInv, NEW d \in Devs, Serializer(d)
  PROVE  IInv'
BY TaskOk, NewCallOk, ReleaseOk, NotifyOk, QueueOk DEF Serializer

-----------------------------------------------------------------------------
(* The end of the module.                                                  *)

(* Every step of the manager keeps the invariant.                          *)
LEMMA ManagerOk ==
  ASSUME IInv, LockList \/ UnlockList \/ \E d \in Devs : StopDevice(d) \/ FreeDevice(d)
  PROVE  IInv'
<1> USE DEF IInv
<1>0. /\ UNCHANGED <<readers, dlock, clock, call, tech, cb, ser>>
      /\ \/ LockList \/ UnlockList
         \/ \E d \in Devs : StopDevice(d) \/ FreeDevice(d)
  BY DEF LockList, UnlockList, StopDevice, FreeDevice, locks
<1>1. TypeInv'
  BY <1>0 DEF TypeInv, TypeOK, LockList, UnlockList, StopDevice, FreeDevice, locks
<1>5. \/ devs' = devs
      \/ \E d \in Devs : devs' = devs \ {d} /\ ser[d].pc = "end"
  BY <1>0 DEF LockList, UnlockList, StopDevice, FreeDevice
<1>2. \A d \in Devs : DevInv(d)'
  BY <1>0, <1>5 DEF DevInv
<1>4. \A c \in Calls : CallInv(c)'
  BY <1>0, <1>5 DEF CallInv
<1>3. ASSUME NEW ch \in Chans PROVE ChanInv(ch)'
  <2>0. (Own(ch)' <=> Own(ch)) /\ (Stuck(ch)' <=> Stuck(ch))
    BY <1>0 DEF Own, Stuck
  <2>1. CASE devs' = devs
    BY <1>0, <2>0, <2>1 DEF ChanInv
  <2>2. CASE \E d \in Devs : FreeDevice(d)
    <3>1. PICK d \in Devs : FreeDevice(d)
      BY <2>2
    <3>2. /\ writer # None /\ dlock[d] = None /\ devs' = devs \ {d}
      BY <3>1, LockAssumption DEF FreeDevice
    <3>3. readers = {}
      BY <3>2 DEF TypeInv, TypeOK
    <3>4. ChanInv(ch) /\ ch # None
      BY LockAssumption
    <3> QED BY <1>0, <2>0, <3>2, <3>3, <3>4 DEF ChanInv
  <2>3. devs' = devs \/ \E d \in Devs : FreeDevice(d)
    BY <1>0 DEF LockList, UnlockList, StopDevice
  <2> QED BY <2>1, <2>2, <2>3
<1> QED BY <1>1, <1>2, <1>3, <1>4

(* Every step keeps the invariant.                                         *)
LEMMA NextOk ==
  IInv /\ [Next]_vars => IInv'
<1> SUFFICES ASSUME IInv, [Next]_vars PROVE IInv'
  OBVIOUS
<1>1. CASE \E ch \in Chans : EnterMedia(ch) \/ EnterDirect(ch) \/ Callback(ch)
  BY <1>1, EnterMediaOk, EnterDirectOk, CallbackOk
<1>2. CASE \E d \in Devs : Serializer(d)
  BY <1>2, SerializerOk
<1>3. CASE LockList \/ Ends
  BY <1>3, ManagerOk DEF Ends
<1>4. CASE UNCHANGED vars
  BY <1>4 DEF vars, IInv, TypeInv, TypeOK, ChanInv, DevInv, CallInv, Own, Stuck
<1> QED BY <1>1, <1>2, <1>3, <1>4 DEF Next

(* The invariant holds in every behaviour.                                 *)
LEMMA Inductive ==
  Spec => []IInv
BY InitOk, NextOk, PTL DEF Spec

-----------------------------------------------------------------------------
(* No thread comes to rest with a lock: a callback that has returned holds *)
(* neither its channel, the list nor a device, and an idle serializer does *)
(* not hold its device; with every kind of callback.                       *)
THEOREM LocksAreGivenBack ==
  Spec => []NoOrphanedLock
<1>1. IInv => NoOrphanedLock
  <2> SUFFICES ASSUME IInv PROVE NoOrphanedLock
    OBVIOUS
  <2>1. ASSUME NEW ch \in Chans, cb[ch].pc = "idle"
        PROVE  clock[ch] # ch /\ ch \notin readers /\ \A d \in Devs : dlock[d] # ch
    BY <2>1, LockAssumption DEF IInv, ChanInv
  <2>2. ASSUME NEW d \in Devs, ser[d].pc \in {"idle", "end"}
        PROVE  dlock[d] # d
    BY <2>2 DEF IInv, DevInv
  <2> QED BY <2>1, <2>2 DEF NoOrphanedLock
<1> QED BY <1>1, Inductive, PTL

(* A callback that has the lock of a device works on a live call of its    *)
(* own channel and a device that has not been freed, however calls end and *)
(* storage is used again, for any number of each; also one that found its  *)
(* call by the channel's pointer and then waited for the lock.             *)
THEOREM LockedUsesLiveCall ==
  Spec => []LockedUsesLive
<1>1. IInv => LockedUsesLive
  <2> SUFFICES ASSUME IInv, NEW ch \in Chans, cb[ch].pc \in {"body", "use"}
               PROVE  LET c == call[cb[ch].cpvt]
                      IN  c # None /\ c.chan = ch /\ c.dev \in devs /\ c.dev = cb[ch].pvt
    BY DEF LockedUsesLive
  <2>1. ChanInv(ch)
    BY DEF IInv
  <2>2. /\ call[cb[ch].cpvt] = [dev |-> cb[ch].pvt, chan |-> ch]
        /\ cb[ch].cpvt \in Calls /\ cb[ch].pvt \in Devs
    BY <2>1 DEF ChanInv, Own
  <2>3. call[cb[ch].cpvt] # None
    BY <2>2, NoneIsNoCall
  <2>4. call[cb[ch].cpvt].dev \in devs
    BY <2>2, <2>3 DEF IInv, CallInv
  <2> QED BY <2>2, <2>3, <2>4
<1> QED BY <1>1, Inductive, PTL
=============================================================================
