---------------------------- MODULE CallsProofs -----------------------------
(***************************************************************************)
(* The calls of a device, for any number of calls, tasks and indices.      *)
(***************************************************************************)
EXTENDS Calls, FiniteSetTheorems, SequenceTheorems, NaturalsInduction, WellFoundedInduction, TLAPS

-----------------------------------------------------------------------------
(* The inductive invariant, of a state of the device.                      *)

Owners(s) == {s.queue[i].of : i \in DOMAIN s.queue}

(* The list has every call once, its length is counted, the buffers are    *)
(* there while it is not empty, and tasks belong to calls in it.           *)
Listing(s) ==
  /\ \A i, j \in DOMAIN s.chans : s.chans[i] = s.chans[j] => i = j
  /\ s.chansno = Len(s.chans)
  /\ s.buf <=> s.chans # <<>>
  /\ Owners(s) \subseteq Listed(s) \union {Sys}

(* An index stands for one call.                                           *)
OneIdx(s) == \A c, d \in Listed(s) : s.call[c].idx = s.call[d].idx => c = d

(* The sound source, the capture and the mixer follow the calls, and a     *)
(* call without a channel is not activated.                                *)
Audio(s) ==
  /\ \A c, d \in Listed(s) :
       s.call[c].master => s.call[c].act /\ (s.call[d].master => c = d)
  /\ Uac => /\ s.capture <=> \E c \in Listed(s) : s.call[c].master
            /\ \A c \in Listed(s) : s.call[c].fd = "audio" => s.call[c].master
  /\ Mixing => s.mix = {c \in Listed(s) : s.call[c].act}
  /\ \A c \in Listed(s) : s.call[c].act => s.call[c].chan

-----------------------------------------------------------------------------
(* Steps that none of this depends on.                                     *)

Twin(x, y) ==
  /\ y \in Call /\ y.idx = x.idx /\ y.act = x.act /\ y.master = x.master
  /\ y.fd = x.fd /\ y.chan = x.chan

Alike(s, t) ==
  /\ t \in Device
  /\ t.chans = s.chans /\ t.chansno = s.chansno /\ t.buf = s.buf
  /\ t.capture = s.capture /\ t.mix = s.mix
  /\ \A c \in CallIds : Twin(s.call[c], t.call[c])
  /\ Owners(t) \subseteq Owners(s) \union Listed(s) \union {Sys}

(* The fields of a device.                                                 *)
LEMMA Fields ==
  ASSUME NEW s \in Device
  PROVE  /\ s.chans \in Seq(CallIds) /\ s.call \in [CallIds -> Call]
         /\ s.chansno \in 0 .. CountValues - 1
         /\ s.count \in [call_state_t -> 0 .. CountValues - 1]
         /\ s.ring \in BOOLEAN /\ s.dialing \in BOOLEAN /\ s.cwaiting \in BOOLEAN
         /\ s.buf \in BOOLEAN /\ s.capture \in BOOLEAN /\ s.mix \in SUBSET CallIds
         /\ s.queue \in Seq(Tasks) /\ s.sys \in call_state_t \union {"freed"}
BY DEF Device

(* The calls in the list.                                                  *)
LEMMA ListedTypes ==
  ASSUME NEW s \in Device
  PROVE  Listed(s) \subseteq CallIds
BY Fields, ElementOfSeq DEF Listed

(* Such steps keep the invariant,                                          *)
LEMMA AlikeKeeps ==
  ASSUME NEW s \in Device, NEW t, Alike(s, t)
  PROVE  /\ Listing(s) => Listing(t)
         /\ OneIdx(s) => OneIdx(t)
         /\ Audio(s) => Audio(t)
         /\ Listed(t) = Listed(s)
<1>1. Listed(t) = Listed(s) /\ Listed(s) \subseteq CallIds
  BY ListedTypes DEF Alike, Listed
<1>2. Listing(s) => Listing(t)
  BY <1>1 DEF Alike, Listing
<1>3. OneIdx(s) => OneIdx(t)
  BY <1>1 DEF Alike, OneIdx, Twin
<1>4. Audio(s) => Audio(t)
  BY <1>1 DEF Alike, Audio, Twin
<1> QED BY <1>1, <1>2, <1>3, <1>4

(* and so do two of them.                                                  *)
LEMMA AlikeTwice ==
  ASSUME NEW s, NEW t, NEW u, Alike(s, t), Alike(t, u)
  PROVE  Alike(s, u)
BY DEF Alike, Twin, Listed

(* No step is one.                                                         *)
LEMMA AlikeSelf ==
  ASSUME NEW s \in Device
  PROVE  Alike(s, s)
BY Fields DEF Alike, Twin

(* Changes of a call that leave its index and its audio alone.             *)
LEMMA Twins ==
  ASSUME NEW x \in Call
  PROVE  /\ \A b \in BOOLEAN : Twin(x, [x EXCEPT !.need = b]) /\ Twin(x, [x EXCEPT !.hup = b])
         /\ \A st \in call_state_t : Twin(x, [x EXCEPT !.state = st])
         /\ \A o \in {"", "holdother", "conference"} : Twin(x, [x EXCEPT !.opts = o])
         /\ Twin(x, [x EXCEPT !.need = TRUE, !.placed = TRUE])
         /\ Twin(x, [x EXCEPT !.asked = TRUE])
         /\ Twin(x, x)
BY DEF Call, Twin

(* One call changes so.                                                    *)
LEMMA OneTwin ==
  ASSUME NEW s \in Device, NEW c \in CallIds, NEW y, Twin(s.call[c], y),
         NEW t, t = [s EXCEPT !.call = [s.call EXCEPT ![c] = y]]
  PROVE  Alike(s, t)
<1>1. y \in Call /\ [s.call EXCEPT ![c] = y] \in [CallIds -> Call]
  BY Fields DEF Twin
<1>2. \A d \in CallIds : Twin(s.call[d], [s.call EXCEPT ![c] = y][d])
  BY Fields DEF Twin
<1> DEFINE f == [s.call EXCEPT ![c] = y]
<1> HIDE DEF f
<1>3. f \in [CallIds -> Call] /\ \A d \in CallIds : Twin(s.call[d], f[d])
  BY <1>1, <1>2 DEF f
<1>4. t = [s EXCEPT !.call = f]
  BY DEF f
<1>5. /\ t \in Device /\ t.chans = s.chans /\ t.chansno = s.chansno /\ t.buf = s.buf
      /\ t.capture = s.capture /\ t.mix = s.mix /\ t.call = f /\ t.queue = s.queue
  BY <1>3, <1>4 DEF Device
<1> QED BY <1>3, <1>5 DEF Alike, Owners

(* The flags of the device change, or the counters of states.              *)
LEMMA FlagsAlike ==
  ASSUME NEW s \in Device, NEW ring \in BOOLEAN, NEW dialing \in BOOLEAN, NEW cwaiting \in BOOLEAN
  PROVE  Alike(s, Flags(s, ring, dialing, cwaiting))
<1> DEFINE t == Flags(s, ring, dialing, cwaiting)
<1>1. /\ t \in Device /\ t.chans = s.chans /\ t.chansno = s.chansno /\ t.buf = s.buf
      /\ t.capture = s.capture /\ t.mix = s.mix /\ t.call = s.call /\ t.queue = s.queue
  BY DEF Device, Flags
<1> QED BY <1>1, Fields DEF Alike, Owners, Twin

(* The counters stay in range.                                             *)
LEMMA CountRange ==
  ASSUME NEW n \in 0 .. CountValues - 1
  PROVE  Inc(n) \in 0 .. CountValues - 1 /\ Dec(n) \in 0 .. CountValues - 1
<1>0. MaxCalls \in Nat \ {0} /\ CountValues \in Nat /\ CountValues > MaxCalls
  BY CallsAssumption, Zenon
<1>1. CountValues \in Nat /\ CountValues > 0
  BY <1>0
<1>2. \A x \in Int : x % CountValues \in 0 .. CountValues - 1
  BY <1>1
<1>3. n + 1 \in Int /\ n + CountValues - 1 \in Int
  BY <1>1
<1> QED BY <1>2, <1>3 DEF Inc, Dec

LEMMA UpdateFlagsAlike ==
  ASSUME NEW s \in Device, NEW old \in call_state_t, NEW new \in call_state_t
  PROVE  Alike(s, UpdateFlags(s, old, new))
<1> DEFINE n == [s.count EXCEPT ![old] = Dec(@), ![new] = Inc(@)]
           ends == new \in {ACTIVE, RELEASED}
           d == s.dialing /\ ~(ends /\ old \in {INIT, DIALING, ALERTING})
           r == s.ring /\ ~(ends /\ old = INCOMING)
           w == s.cwaiting /\ ~(ends /\ old = WAITING)
           t == [s EXCEPT !.count = n, !.dialing = d, !.ring = r, !.cwaiting = w]
<1>1. n \in [call_state_t -> 0 .. CountValues - 1]
  BY Fields, CountRange
<1>2. d \in BOOLEAN /\ r \in BOOLEAN /\ w \in BOOLEAN
  BY Fields
<1>3. UpdateFlags(s, old, new) = t
  BY DEF UpdateFlags
<1> HIDE DEF n, d, r, w
<1>4. /\ t \in Device /\ t.chans = s.chans /\ t.chansno = s.chansno /\ t.buf = s.buf
      /\ t.capture = s.capture /\ t.mix = s.mix /\ t.call = s.call /\ t.queue = s.queue
  BY <1>1, <1>2 DEF Device
<1>5. Alike(s, t)
  BY <1>4, Fields DEF Alike, Owners, Twin
<1> QED BY <1>3, <1>5

(* sys_chan changes its state.                                             *)
LEMMA SysAlike ==
  ASSUME NEW s \in Device, NEW st \in call_state_t \union {"freed"}
  PROVE  Alike(s, [s EXCEPT !.sys = st])
<1> DEFINE t == [s EXCEPT !.sys = st]
<1>1. /\ t \in Device /\ t.chans = s.chans /\ t.chansno = s.chansno /\ t.buf = s.buf
      /\ t.capture = s.capture /\ t.mix = s.mix /\ t.call = s.call /\ t.queue = s.queue
  BY DEF Device
<1> QED BY <1>1, Fields DEF Alike, Owners, Twin

(* The device counts as dialling, or as having a call that waits.          *)
LEMMA FlagAlike ==
  ASSUME NEW s \in Device
  PROVE  Alike(s, [s EXCEPT !.dialing = TRUE]) /\ Alike(s, [s EXCEPT !.cwaiting = TRUE])
<1>1. /\ [s EXCEPT !.dialing = TRUE] = Flags(s, s.ring, TRUE, s.cwaiting)
      /\ [s EXCEPT !.cwaiting = TRUE] = Flags(s, s.ring, s.dialing, TRUE)
  BY DEF Flags, Device
<1>2. s.ring \in BOOLEAN /\ s.cwaiting \in BOOLEAN /\ s.dialing \in BOOLEAN /\ TRUE \in BOOLEAN
  BY Fields
<1>3. Alike(s, Flags(s, s.ring, TRUE, s.cwaiting)) /\ Alike(s, Flags(s, s.ring, s.dialing, TRUE))
  BY <1>2, FlagsAlike
<1> QED BY <1>1, <1>3, Zenon

-----------------------------------------------------------------------------
(* The queue.                                                              *)

(* The queue changes, but no owner comes that is not a call.               *)
LEMMA QueueAlike ==
  ASSUME NEW s \in Device, NEW q \in Seq(Tasks),
         \A i \in DOMAIN q : q[i].of \in Owners(s) \union Listed(s) \union {Sys},
         NEW t, t = [s EXCEPT !.queue = q]
  PROVE  Alike(s, t)
<1>1. /\ t \in Device /\ t.chans = s.chans /\ t.chansno = s.chansno /\ t.buf = s.buf
      /\ t.capture = s.capture /\ t.mix = s.mix /\ t.call = s.call /\ t.queue = q
  BY DEF Device
<1>2. Owners(t) \subseteq Owners(s) \union Listed(s) \union {Sys}
  BY <1>1, Zenon DEF Owners
<1> QED BY <1>1, <1>2, Fields DEF Alike, Twin

(* A task behind the head.                                                 *)
LEMMA BehindHead ==
  ASSUME NEW q \in Seq(Tasks), NEW t \in Tasks, NEW r,
         r = IF q = <<>> THEN <<t>> ELSE <<Head(q), t>> \o Tail(q)
  PROVE  /\ r \in Seq(Tasks)
         /\ \A i \in DOMAIN r : r[i] = t \/ \E j \in DOMAIN q : r[i] = q[j]
<1>1. CASE q = <<>>
  BY <1>1
<1>2. CASE q # <<>>
  <2>1. /\ Head(q) \in Tasks /\ Tail(q) \in Seq(Tasks) /\ Head(q) = q[1] /\ 1 \in DOMAIN q
        /\ Len(q) \in Nat /\ Len(q) > 0 /\ DOMAIN q = 1 .. Len(q)
        /\ Len(Tail(q)) = Len(q) - 1 /\ \A i \in 1 .. Len(q) - 1 : Tail(q)[i] = q[i + 1]
    BY <1>2, HeadTailProperties, LenProperties, EmptySeq
  <2>2. <<Head(q), t>> \in Seq(Tasks) /\ Len(<<Head(q), t>>) = 2
    BY <2>1
  <2>3. /\ r \in Seq(Tasks) /\ Len(r) = Len(q) + 1
        /\ \A i \in 1 .. Len(r) : r[i] = IF i <= 2 THEN <<Head(q), t>>[i] ELSE Tail(q)[i - 2]
    BY <1>2, <2>1, <2>2, ConcatProperties
  <2>4. ASSUME NEW i \in DOMAIN r
        PROVE  r[i] = t \/ \E j \in DOMAIN q : r[i] = q[j]
    <3>1. i \in 1 .. Len(q) + 1
      BY <2>3, LenProperties
    <3>2. CASE i = 1
      BY <2>1, <2>3, <3>1, <3>2
    <3>3. CASE i = 2
      BY <2>1, <2>3, <3>1, <3>3
    <3>4. CASE i > 2
      <4>1. i - 2 \in 1 .. Len(q) - 1 /\ i - 1 \in DOMAIN q /\ i - 2 + 1 = i - 1 /\ ~(i <= 2)
        BY <2>1, <3>1, <3>4
      <4>2. r[i] = q[i - 1]
        BY <2>1, <2>3, <3>1, <4>1
      <4> QED BY <4>1, <4>2
    <3> QED BY <3>1, <3>2, <3>3, <3>4
  <2> QED BY <2>3, <2>4
<1> QED BY <1>1, <1>2

(* at_queue_insert for a call of the list, or for sys_chan.                *)
LEMMA InsertAlike ==
  ASSUME NEW s \in Device, NEW of \in Listed(s) \union {Sys}, NEW cmds,
         [cmds |-> cmds, of |-> of] \in Tasks
  PROVE  Alike(s, Insert(s, of, cmds))
<1> DEFINE t == [cmds |-> cmds, of |-> of]
           q == IF s.queue = <<>> THEN <<t>> ELSE <<Head(s.queue), t>> \o Tail(s.queue)
<1>1. Insert(s, of, cmds) = [s EXCEPT !.queue = q]
  BY DEF Insert
<1>2. t.of = of /\ t \in Tasks
  OBVIOUS
<1> HIDE DEF t
<1>3. /\ q \in Seq(Tasks)
      /\ \A i \in DOMAIN q : q[i] = t \/ \E j \in DOMAIN s.queue : q[i] = s.queue[j]
  BY <1>2, Fields, BehindHead
<1> HIDE DEF q
<1>4. \A i \in DOMAIN q : q[i].of \in Owners(s) \union Listed(s) \union {Sys}
  BY <1>2, <1>3, Zenon DEF Owners
<1> QED BY <1>1, <1>3, <1>4, QueueAlike

(* The tasks there are.                                                    *)
LEMMA TaskKinds ==
  ASSUME NEW of \in CallIds \union {Sys},
         NEW cmds \in {<<"D">>, <<"CHLD_2", "D">>, <<"A">>, <<"CHLD_2x">>, <<"CHLD_3">>,
                       <<"HUP">>, <<"CHLD_1x">>}
  PROVE  [cmds |-> cmds, of |-> of] \in Tasks
BY DEF Tasks

(* The head of a queue goes.                                               *)
LEMMA TaskGoes ==
  ASSUME NEW s \in Device, s.queue # <<>>
  PROVE  Alike(s, NextTask(s))
<1>1. /\ Tail(s.queue) \in Seq(Tasks) /\ Len(s.queue) \in Nat /\ DOMAIN s.queue = 1 .. Len(s.queue)
      /\ DOMAIN Tail(s.queue) = 1 .. Len(s.queue) - 1
      /\ \A i \in 1 .. Len(s.queue) - 1 : Tail(s.queue)[i] = s.queue[i + 1]
  BY Fields, HeadTailProperties, LenProperties, EmptySeq
<1>2. ASSUME NEW i \in DOMAIN Tail(s.queue)
      PROVE  Tail(s.queue)[i].of \in Owners(s)
  <2>1. i + 1 \in DOMAIN s.queue /\ Tail(s.queue)[i] = s.queue[i + 1]
    BY <1>1
  <2> QED BY <2>1, Zenon DEF Owners
<1>3. NextTask(s) = [s EXCEPT !.queue = Tail(s.queue)]
  BY DEF NextTask
<1> QED BY <1>1, <1>2, <1>3, QueueAlike

(* The first command of the head goes.                                     *)
LEMMA CommandGoes ==
  ASSUME NEW s \in Device, s.queue # <<>>
  PROVE  Alike(s, NextCommand(s))
<1>1. CASE Len(Head(s.queue).cmds) = 1
  <2>1. NextCommand(s) = NextTask(s)
    BY <1>1 DEF NextCommand, NextTask
  <2> QED BY <2>1, TaskGoes
<1>2. CASE Len(Head(s.queue).cmds) # 1
  <2>1. /\ Head(s.queue) \in Tasks /\ Tail(s.queue) \in Seq(Tasks) /\ Len(s.queue) \in Nat
        /\ DOMAIN s.queue = 1 .. Len(s.queue) /\ Head(s.queue) = s.queue[1] /\ Len(s.queue) > 0
        /\ Len(Tail(s.queue)) = Len(s.queue) - 1
        /\ \A i \in 1 .. Len(s.queue) - 1 : Tail(s.queue)[i] = s.queue[i + 1]
    BY Fields, HeadTailProperties, LenProperties, EmptySeq
  <2>2. Head(s.queue).cmds = <<"CHLD_2", "D">> /\ Head(s.queue).of \in CallIds \union {Sys}
    BY <1>2, <2>1 DEF Tasks
  <2>3. Tail(Head(s.queue).cmds) = <<"D">>
    <3>1. Tail(<<"CHLD_2", "D">>) = <<"D">>
      OBVIOUS
    <3> QED BY <2>2, <3>1, Zenon
  <2> DEFINE h == [Head(s.queue) EXCEPT !.cmds = Tail(Head(s.queue).cmds)]
             q == <<h>> \o Tail(s.queue)
  <2>4. h \in Tasks /\ h.of = Head(s.queue).of
    BY <2>1, <2>2, <2>3 DEF Tasks
  <2>5. NextCommand(s) = [s EXCEPT !.queue = q]
    BY <1>2 DEF NextCommand
  <2> HIDE DEF h
  <2>6. <<h>> \in Seq(Tasks) /\ Len(<<h>>) = 1
    BY <2>4
  <2>7. /\ q \in Seq(Tasks) /\ Len(q) = Len(s.queue) /\ DOMAIN q = 1 .. Len(q)
        /\ \A i \in 1 .. Len(q) : q[i] = IF i <= 1 THEN <<h>>[i] ELSE Tail(s.queue)[i - 1]
    BY <2>1, <2>6, ConcatProperties, LenProperties
  <2> HIDE DEF q
  <2>8. ASSUME NEW i \in DOMAIN q
        PROVE  q[i].of \in Owners(s)
    <3>1. CASE i = 1
      <4>1. q[i].of = s.queue[1].of /\ 1 \in DOMAIN s.queue
        BY <2>1, <2>4, <2>7, <3>1
      <4> QED BY <4>1, Zenon DEF Owners
    <3>2. CASE i # 1
      <4>1. i - 1 \in 1 .. Len(s.queue) - 1 /\ i \in DOMAIN s.queue /\ i - 1 + 1 = i /\ ~(i <= 1)
        BY <2>1, <2>7, <3>2
      <4>2. q[i].of = s.queue[i].of
        BY <2>1, <2>7, <4>1
      <4> QED BY <4>1, <4>2, Zenon DEF Owners
    <3> QED BY <3>1, <3>2
  <2> QED BY <2>5, <2>7, <2>8, QueueAlike
<1> QED BY <1>1, <1>2

(* at_enqueue_hangup marks calls of the index as asked to end.             *)
LEMMA HangupAlike ==
  ASSUME NEW s \in Device, NEW of \in Listed(s) \union {Sys}, NEW idx
  PROVE  Alike(s, at_enqueue_hangup(s, of, idx))
<1>1. of \in CallIds \union {Sys}
  BY ListedTypes
<1>2. Alike(s, Insert(s, of, <<"CHLD_1x">>)) /\ Alike(s, Insert(s, of, <<"HUP">>))
  BY <1>1, TaskKinds, InsertAlike
<1> DEFINE f == [c \in CallIds |-> IF c \in Listed(s) /\ s.call[c].idx = idx
                                     THEN [s.call[c] EXCEPT !.asked = TRUE] ELSE s.call[c]]
           u == Insert(s, of, <<"HUP">>)
           t == [u EXCEPT !.call = f]
<1>3. \A c \in CallIds : Twin(s.call[c], f[c])
  BY Fields, Twins
<1>4. f \in [CallIds -> Call]
  BY <1>3 DEF Twin
<1> HIDE DEF f
<1>5. u \in Device /\ Alike(s, u)
  BY <1>2 DEF Alike
<1> HIDE DEF u
<1>6. /\ t \in Device /\ t.chans = u.chans /\ t.chansno = u.chansno /\ t.buf = u.buf
      /\ t.capture = u.capture /\ t.mix = u.mix /\ t.call = f /\ t.queue = u.queue
  BY <1>4, <1>5 DEF Device
<1>7. Alike(s, t)
  BY <1>3, <1>5, <1>6 DEF Alike, Owners
<1>8. at_enqueue_hangup(s, of, idx) = t \/ at_enqueue_hangup(s, of, idx) = Insert(s, of, <<"CHLD_1x">>)
  BY DEF at_enqueue_hangup, t, u, f
<1> QED BY <1>2, <1>7, <1>8

(* at_enqueue_dial.                                                        *)
LEMMA DialAlike ==
  ASSUME NEW s \in Device, NEW c \in Listed(s)
  PROVE  Alike(s, at_enqueue_dial(s, c))
<1>1. c \in CallIds
  BY ListedTypes
<1> DEFINE u == Insert(s, c, IF s.count[ACTIVE] > 0 /\ s.call[c].opts # ""
                              THEN <<"CHLD_2", "D">> ELSE <<"D">>)
           y == [u.call[c] EXCEPT !.need = TRUE, !.placed = TRUE]
<1>2. Alike(s, u)
  BY <1>1, TaskKinds, InsertAlike
<1>3. at_enqueue_dial(s, c) = [u EXCEPT !.call = [u.call EXCEPT ![c] = y]]
  BY ZenonT(40) DEF at_enqueue_dial
<1> HIDE DEF u
<1>4. u \in Device /\ u.call[c] \in Call
  BY <1>1, <1>2, Fields DEF Alike
<1>5. Twin(u.call[c], y)
  BY <1>4, Twins
<1>6. Alike(u, at_enqueue_dial(s, c))
  BY <1>1, <1>3, <1>4, <1>5, OneTwin
<1> QED BY <1>2, <1>6, AlikeTwice

(* Marks on the owner of a command.                                        *)
LEMMA MarkAlike ==
  ASSUME NEW s \in Device, NEW c \in CallIds \union {Sys}, NEW b \in BOOLEAN
  PROVE  Alike(s, SetNeed(s, c, b)) /\ Alike(s, QueueHangup(s, c))
<1>1. CASE c = Sys
  BY <1>1, AlikeSelf DEF SetNeed, QueueHangup
<1>2. CASE c \in CallIds /\ c # Sys
  <2>1. /\ SetNeed(s, c, b) = [s EXCEPT !.call = [s.call EXCEPT ![c] = [s.call[c] EXCEPT !.need = b]]]
        /\ [s EXCEPT !.call[c].hup = TRUE] =
             [s EXCEPT !.call = [s.call EXCEPT ![c] = [s.call[c] EXCEPT !.hup = TRUE]]]
    BY <1>2 DEF SetNeed
  <2>2. s.call[c] \in Call
    BY <1>2, Fields
  <2>3. Twin(s.call[c], [s.call[c] EXCEPT !.need = b]) /\ Twin(s.call[c], [s.call[c] EXCEPT !.hup = TRUE])
    BY <2>2, Twins
  <2>4. Alike(s, SetNeed(s, c, b)) /\ Alike(s, [s EXCEPT !.call[c].hup = TRUE])
    BY <1>2, <2>1, <2>3, OneTwin
  <2> QED BY <2>4, AlikeSelf DEF QueueHangup
<1> QED BY <1>1, <1>2

-----------------------------------------------------------------------------
(* The list of calls.                                                      *)

(* A set of numbers has a least one.                                       *)
LEMMA Least ==
  ASSUME NEW S \in SUBSET Nat, S # {}
  PROVE  LeastOf(S) \in S /\ \A j \in S : LeastOf(S) <= j
<1>1. PICK i \in S : \A j \in S : ~(<<j, i>> \in OpToRel(<, Nat))
  BY WFMin, NatLessThanWellFounded
<1>2. ASSUME NEW j \in S
      PROVE  i <= j
  <2>1. <<j, i>> \in Nat \X Nat /\ <<j, i>>[1] = j /\ <<j, i>>[2] = i
    BY <1>1
  <2>2. j < i => <<j, i>> \in OpToRel(<, Nat)
    BY <2>1, Zenon DEF OpToRel
  <2>3. ~(j < i)
    BY <1>1, <2>2
  <2>4. i \in Nat /\ j \in Nat
    OBVIOUS
  <2> QED BY <2>3, <2>4
<1>3. \E x \in S : \A y \in S : x <= y
  BY <1>1, <1>2
<1> QED BY <1>3, Zenon DEF LeastOf

(* How many calls there may be.                                            *)
LEMMA Limits ==
  /\ MaxCalls \in Nat /\ MaxCalls > 0 /\ CountValues \in Nat /\ CountValues > MaxCalls
  /\ IsFiniteSet(CallIds) /\ Cardinality(CallIds) = MaxCalls
<1>1. MaxCalls \in Nat \ {0} /\ CountValues \in Nat /\ CountValues > MaxCalls
  BY CallsAssumption, Zenon
<1>2. 1 \in Int /\ MaxCalls \in Int
  BY <1>1
<1>3. IsFiniteSet(1 .. MaxCalls) /\ Cardinality(1 .. MaxCalls) = IF 1 > MaxCalls THEN 0 ELSE MaxCalls - 1 + 1
  BY <1>2, FS_Interval
<1> QED BY <1>1, <1>3 DEF CallIds

(* While a call is not in the list, there is room for it.                  *)
LEMMA Room ==
  ASSUME NEW s \in Device, Listing(s), NEW c \in CallIds, c \notin Listed(s)
  PROVE  Len(s.chans) < MaxCalls
<1>1. Len(s.chans) \in Nat /\ DOMAIN s.chans = 1 .. Len(s.chans) /\ s.chans \in Seq(CallIds)
  BY Fields, LenProperties
<1>2. s.chans \in [1 .. Len(s.chans) -> CallIds \ {c}]
  <2>1. \A i \in 1 .. Len(s.chans) : s.chans[i] \in CallIds \ {c}
    BY <1>1, ElementOfSeq DEF Listed
  <2>2. s.chans = [i \in 1 .. Len(s.chans) |-> s.chans[i]]
    BY <1>1
  <2> QED BY <2>1, <2>2
<1>3. IsFiniteSet(CallIds \ {c}) /\ Cardinality(CallIds \ {c}) = MaxCalls - 1
  BY Limits, FS_RemoveElement
<1>4. IsFiniteSet(1 .. Len(s.chans)) /\ Cardinality(1 .. Len(s.chans)) = Len(s.chans)
  BY <1>1, FS_Interval
<1>5. SUFFICES ASSUME ~(Len(s.chans) < MaxCalls) PROVE FALSE
  OBVIOUS
<1>6. MaxCalls - 1 < Len(s.chans)
  BY <1>1, <1>5, Limits
<1>7. \E i, j \in 1 .. Len(s.chans) : i # j /\ s.chans[i] = s.chans[j]
  BY <1>2, <1>3, <1>4, <1>6, FS_PigeonHole
<1> QED BY <1>1, <1>7 DEF Listing

Entries(q) == {q[i] : i \in DOMAIN q}

(* The list without a call.                                                *)
LEMMA UnlinkedList ==
  ASSUME NEW chans \in Seq(CallIds), NEW c \in CallIds,
         \A i, j \in DOMAIN chans : chans[i] = chans[j] => i = j,
         c \in Entries(chans), NEW q, q = Unlinked(chans, c)
  PROVE  /\ q \in Seq(CallIds) /\ Len(q) = Len(chans) - 1
         /\ \A i, j \in DOMAIN q : q[i] = q[j] => i = j
         /\ Entries(q) = Entries(chans) \ {c}
<1>0. PICK k \in DOMAIN chans : chans[k] = c
  BY DEF Entries
<1>1. Len(chans) \in Nat /\ DOMAIN chans = 1 .. Len(chans) /\ k \in Nat
  BY LenProperties
<1> DEFINE at == {i \in DOMAIN chans : chans[i] = c}
<1>2. at = {k}
  BY <1>0
<1>3. LeastOf(at) = k
  <2>1. {k} \in SUBSET Nat /\ {k} # {}
    BY <1>1
  <2>2. LeastOf({k}) \in {k}
    BY <2>1, Least, Zenon
  <2> QED BY <1>2, <2>2
<1>4. q = [j \in 1 .. Len(chans) - 1 |-> chans[IF j < k THEN j ELSE j + 1]]
  BY <1>2, <1>3 DEF Unlinked
<1>5. \A j \in 1 .. Len(chans) - 1 : (IF j < k THEN j ELSE j + 1) \in DOMAIN chans
  BY <1>1
<1>6. \A j \in 1 .. Len(chans) - 1 : chans[IF j < k THEN j ELSE j + 1] \in CallIds
  BY <1>1, <1>5, ElementOfSeq
<1>7. Len(chans) - 1 \in Nat /\ Len(chans) > 0
  BY <1>1
<1>8. q \in Seq(CallIds) /\ Len(q) = Len(chans) - 1 /\ DOMAIN q = 1 .. Len(chans) - 1
  <2>1. q \in [1 .. Len(chans) - 1 -> CallIds]
    BY <1>4, <1>6
  <2> QED BY <1>7, <2>1, SeqDef, LenProperties
<1>9. ASSUME NEW i \in DOMAIN q, NEW j \in DOMAIN q, q[i] = q[j]
      PROVE  i = j
  <2>1. (IF i < k THEN i ELSE i + 1) = (IF j < k THEN j ELSE j + 1)
    BY <1>4, <1>5, <1>8, <1>9
  <2> QED BY <1>1, <1>8, <2>1
<1>10. ASSUME NEW i \in DOMAIN q
       PROVE  \E j \in DOMAIN chans : q[i] = chans[j] /\ chans[j] # c
  <2> DEFINE j == IF i < k THEN i ELSE i + 1
  <2>1. j \in DOMAIN chans /\ j # k /\ q[i] = chans[j]
    BY <1>1, <1>4, <1>5, <1>8
  <2> QED BY <1>0, <2>1
<1>11. ASSUME NEW j \in DOMAIN chans, chans[j] # c
       PROVE  \E i \in DOMAIN q : q[i] = chans[j]
  <2> DEFINE i == IF j < k THEN j ELSE j - 1
  <2>1. j # k
    BY <1>0, <1>11
  <2>2. i \in DOMAIN q /\ (IF i < k THEN i ELSE i + 1) = j
    BY <1>1, <1>8, <2>1
  <2>3. q[i] = chans[j]
    BY <1>4, <1>8, <2>2
  <2> QED BY <2>2, <2>3
<1>12. Entries(q) = Entries(chans) \ {c}
  BY <1>10, <1>11 DEF Entries
<1> QED BY <1>8, <1>9, <1>12

(* The list with a new call.                                               *)
LEMMA AppendedList ==
  ASSUME NEW chans \in Seq(CallIds), NEW c \in CallIds,
         \A i, j \in DOMAIN chans : chans[i] = chans[j] => i = j,
         c \notin Entries(chans), NEW q, q = Append(chans, c)
  PROVE  /\ q \in Seq(CallIds) /\ Len(q) = Len(chans) + 1 /\ q # <<>>
         /\ \A i, j \in DOMAIN q : q[i] = q[j] => i = j
         /\ Entries(q) = Entries(chans) \union {c}
<1>1. /\ Len(chans) \in Nat /\ DOMAIN chans = 1 .. Len(chans)
      /\ q \in Seq(CallIds) /\ Len(q) = Len(chans) + 1 /\ q # <<>> /\ DOMAIN q = 1 .. Len(chans) + 1
      /\ \A i \in 1 .. Len(chans) : q[i] = chans[i]
      /\ q[Len(chans) + 1] = c
  BY AppendProperties, LenProperties
<1>2. ASSUME NEW i \in DOMAIN q
      PROVE  (i \in DOMAIN chans /\ q[i] = chans[i]) \/ (i = Len(chans) + 1 /\ q[i] = c)
  BY <1>1
<1>3. \A i, j \in DOMAIN q : q[i] = q[j] => i = j
  BY <1>2 DEF Entries
<1>4. Entries(q) = Entries(chans) \union {c}
  <2>1. \A i \in DOMAIN chans : i \in DOMAIN q /\ chans[i] = q[i]
    BY <1>1
  <2>2. Len(chans) + 1 \in DOMAIN q
    BY <1>1
  <2> QED BY <1>1, <1>2, <2>1, <2>2 DEF Entries
<1> QED BY <1>1, <1>3, <1>4

(* The call that cpvt_alloc makes.                                         *)
Fresh(idx, dir, local) ==
  [NoCall EXCEPT !.idx = idx, !.dir = dir, !.state = INIT, !.chan = TRUE,
                 !.fd = IF Uac THEN "none" ELSE "audio", !.local = local]

(* It is a call with a channel and without audio.                          *)
LEMMA FreshTypes ==
  ASSUME NEW idx \in Nat, NEW dir \in {"in", "out"}, NEW local \in BOOLEAN,
         NEW x, x = Fresh(idx, dir, local)
  PROVE  /\ NoCall \in Call
         /\ x \in Call /\ x.idx = idx /\ x.chan /\ x.state = INIT /\ x.dir = dir
         /\ ~x.act /\ ~x.master
         /\ Uac => x.fd = "none"
BY DEF Fresh, NoCall, Call, call_state_t, INIT, RELEASED

(* cpvt_alloc: what changes.                                               *)
LEMMA AllocFields ==
  ASSUME NEW s \in Device, NEW c \in CallIds, NEW idx \in Nat, NEW dir \in {"in", "out"},
         NEW local \in BOOLEAN, NEW t, t = cpvt_alloc(s, c, idx, dir, local)
  PROVE  /\ t \in Device /\ t.chans = Append(s.chans, c) /\ t.chansno = Inc(s.chansno)
         /\ t.buf /\ t.capture = s.capture /\ t.queue = s.queue
         /\ t.mix = (IF s.chansno = 0 /\ Mixing THEN {} ELSE s.mix)
         /\ t.call[c] = Fresh(idx, dir, local)
         /\ \A d \in CallIds \ {c} : t.call[d] = s.call[d]
<1> DEFINE x == Fresh(idx, dir, local)
           f == [s.call EXCEPT ![c] = x]
           q == Append(s.chans, c)
           m == IF s.chansno = 0 /\ Mixing THEN {} ELSE s.mix
           n == [s.count EXCEPT ![INIT] = Inc(s.count[INIT])]
           k == Inc(s.chansno)
<1>1. t = [s EXCEPT !.chans = q, !.call = f, !.buf = TRUE, !.mix = m, !.chansno = k, !.count = n]
  BY DEF cpvt_alloc, Fresh
<1>2. x \in Call
  BY FreshTypes
<1> HIDE DEF x
<1>3. f \in [CallIds -> Call] /\ f[c] = x /\ \A d \in CallIds \ {c} : f[d] = s.call[d]
  BY <1>2, Fields
<1>4. q \in Seq(CallIds)
  BY Fields, AppendProperties
<1>5. m \in SUBSET CallIds
  BY Fields
<1>6. INIT \in call_state_t
  BY DEF call_state_t
<1>7. n \in [call_state_t -> 0 .. CountValues - 1] /\ k \in 0 .. CountValues - 1
  BY <1>6, Fields, CountRange
<1> HIDE DEF f, q, m, n, k
<1>8. /\ t \in Device /\ t.chans = q /\ t.chansno = k /\ t.buf /\ t.capture = s.capture
      /\ t.queue = s.queue /\ t.mix = m /\ t.call = f
  BY <1>1, <1>3, <1>4, <1>5, <1>7, ZenonT(40) DEF Device
<1> QED BY <1>3, <1>8 DEF x, q, m, k

(* cpvt_alloc of a call that is not in the list.                           *)
LEMMA AllocKeeps ==
  ASSUME NEW s \in Device, Listing(s), NEW c \in CallIds, c \notin Listed(s),
         NEW idx \in Nat, NEW dir \in {"in", "out"},
         NEW local \in BOOLEAN, NEW t, t = cpvt_alloc(s, c, idx, dir, local)
  PROVE  /\ t \in Device /\ Listing(t) /\ Listed(t) = Listed(s) \union {c}
         /\ t.call[c] = Fresh(idx, dir, local)
         /\ OneIdx(s) /\ (\A d \in Listed(s) : s.call[d].idx # idx) => OneIdx(t)
         /\ Audio(s) => Audio(t)
<1> DEFINE x == Fresh(idx, dir, local)
<1>1. /\ t \in Device /\ t.chans = Append(s.chans, c) /\ t.chansno = Inc(s.chansno)
      /\ t.buf /\ t.capture = s.capture /\ t.queue = s.queue
      /\ t.mix = (IF s.chansno = 0 /\ Mixing THEN {} ELSE s.mix)
      /\ t.call[c] = x /\ \A d \in CallIds \ {c} : t.call[d] = s.call[d]
  <2>1. t \in Device
    BY AllocFields
  <2>2. t.chans = Append(s.chans, c) /\ t.chansno = Inc(s.chansno)
    BY AllocFields, SMTT(30)
  <2>3. t.buf /\ t.capture = s.capture /\ t.queue = s.queue
    BY AllocFields
  <2>4. t.mix = (IF s.chansno = 0 /\ Mixing THEN {} ELSE s.mix)
    BY AllocFields
  <2>5. t.call[c] = Fresh(idx, dir, local) /\ \A d \in CallIds \ {c} : t.call[d] = s.call[d]
    BY AllocFields
  <2> QED BY <2>1, <2>2, <2>3, <2>4, <2>5
<1>2. s.chans \in Seq(CallIds) /\ Len(s.chans) \in Nat /\ s.chansno = Len(s.chans)
  BY Fields, LenProperties DEF Listing
<1>3. Len(s.chans) < MaxCalls
  BY Room
<1>4. /\ Len(t.chans) = Len(s.chans) + 1 /\ t.chans # <<>>
      /\ \A i, j \in DOMAIN t.chans : t.chans[i] = t.chans[j] => i = j
      /\ Listed(t) = Listed(s) \union {c}
  <2>1. \A i, j \in DOMAIN s.chans : s.chans[i] = s.chans[j] => i = j
    BY DEF Listing
  <2>2. c \notin Entries(s.chans)
    BY DEF Listed, Entries
  <2>3. /\ Len(t.chans) = Len(s.chans) + 1 /\ t.chans # <<>>
        /\ \A i, j \in DOMAIN t.chans : t.chans[i] = t.chans[j] => i = j
        /\ Entries(t.chans) = Entries(s.chans) \union {c}
    <3>1. t.chans = Append(s.chans, c)
      BY <1>1
    <3> QED BY <1>2, <2>1, <2>2, <3>1, AppendedList, ZenonT(40)
  <2> QED BY <2>3 DEF Listed, Entries
<1>5. Inc(s.chansno) = Len(s.chans) + 1
  <2>1. PICK n \in Nat : n = Len(s.chans)
    BY <1>2
  <2>2. n + 1 \in 0 .. CountValues - 1 /\ CountValues \in Nat /\ CountValues > 0
    BY <1>3, <2>1, Limits
  <2>3. (n + 1) % CountValues = n + 1
    BY <2>2
  <2> QED BY <1>2, <2>1, <2>3 DEF Inc
<1>6. Listing(t)
  BY <1>1, <1>4, <1>5 DEF Listing, Owners
<1>7. x.idx = idx /\ ~x.act /\ ~x.master /\ (Uac => x.fd = "none") /\ x.chan
  BY FreshTypes
<1>8. Listed(s) \subseteq CallIds \ {c}
  BY ListedTypes
<1>9. \A d \in Listed(s) : t.call[d] = s.call[d] /\ d # c
  BY <1>1, <1>8
<1>10. OneIdx(s) /\ (\A d \in Listed(s) : s.call[d].idx # idx) => OneIdx(t)
  BY <1>1, <1>4, <1>7, <1>9 DEF OneIdx
<1>11. ASSUME Audio(s)
       PROVE  Audio(t)
  <2>1. \A a, b \in Listed(t) :
          t.call[a].master => t.call[a].act /\ (t.call[b].master => a = b)
    BY <1>1, <1>4, <1>7, <1>9, <1>11 DEF Audio
  <2>2. Uac => /\ t.capture <=> \E a \in Listed(t) : t.call[a].master
               /\ \A a \in Listed(t) : t.call[a].fd = "audio" => t.call[a].master
    BY <1>1, <1>4, <1>7, <1>9, <1>11 DEF Audio
  <2>3. ASSUME Mixing
        PROVE  t.mix = {a \in Listed(t) : t.call[a].act}
    <3>1. s.mix = {a \in Listed(s) : s.call[a].act}
      BY <1>11, <2>3 DEF Audio
    <3>2. {a \in Listed(t) : t.call[a].act} = s.mix
      BY <1>1, <1>4, <1>7, <1>9, <3>1
    <3>3. CASE s.chansno = 0
      <4>1. DOMAIN s.chans = {}
        <5>1. DOMAIN s.chans = 1 .. Len(s.chans) /\ Len(s.chans) = 0
          BY <1>2, <3>3, LenProperties
        <5> QED BY <5>1
      <4>2. Listed(s) = {}
        BY <4>1 DEF Listed
      <4> QED BY <1>1, <2>3, <3>1, <3>2, <3>3, <4>2
    <3>4. CASE s.chansno # 0
      BY <1>1, <3>2, <3>4
    <3> QED BY <3>3, <3>4
  <2>4. \A a \in Listed(t) : t.call[a].act => t.call[a].chan
    BY <1>1, <1>4, <1>7, <1>9, <1>11 DEF Audio
  <2> QED BY <2>1, <2>2, <2>3, <2>4 DEF Audio
<1> QED BY <1>1, <1>4, <1>6, <1>10, <1>11

(* cpvt_free: what changes.                                                *)
LEMMA FreeFields ==
  ASSUME NEW s \in Device, Listing(s), NEW c \in Listed(s), NEW t, t = cpvt_free(s, c)
  PROVE  /\ t \in Device /\ t.chans = Unlinked(s.chans, c) /\ t.chansno = Dec(s.chansno)
         /\ t.buf <=> (s.buf /\ t.chansno # 0)
         /\ t.capture = s.capture /\ t.mix = s.mix
         /\ \A d \in CallIds \ {c} : t.call[d] = s.call[d]
         /\ Owners(t) \subseteq (Owners(s) \ {c}) \union {Sys}
         /\ DOMAIN t.queue = DOMAIN s.queue
<1>0. c \in CallIds /\ c # Sys
  <2>1. c \in 1 .. MaxCalls
    BY ListedTypes DEF CallIds
  <2> QED BY <2>1 DEF CallIds, Sys
<1> DEFINE q == Unlinked(s.chans, c)
           k == Dec(s.chansno)
           n == [s.count EXCEPT ![s.call[c].state] = Dec(s.count[s.call[c].state])]
           d == [s EXCEPT !.chans = q, !.chansno = k, !.count = n]
<1>1. decrease_chan_counters(s, c) = d
  BY DEF decrease_chan_counters
<1>2. q \in Seq(CallIds)
  <2>1. c \in Entries(s.chans)
    BY DEF Listed, Entries
  <2>2. s.chans \in Seq(CallIds) /\ \A a, b \in DOMAIN s.chans : s.chans[a] = s.chans[b] => a = b
    BY Fields DEF Listing
  <2> QED BY <1>0, <2>1, <2>2, UnlinkedList
<1>3. k \in 0 .. CountValues - 1 /\ n \in [call_state_t -> 0 .. CountValues - 1]
  <2>1. s.call[c].state \in call_state_t
    BY <1>0, Fields DEF Call
  <2> QED BY <2>1, Fields, CountRange
<1> HIDE DEF q, k, n
<1>4. /\ d \in Device /\ d.chans = q /\ d.chansno = k /\ d.buf = s.buf /\ d.capture = s.capture
      /\ d.mix = s.mix /\ d.call = s.call /\ d.queue = s.queue
  BY <1>2, <1>3 DEF Device
<1> DEFINE w == [i \in DOMAIN d.queue |->
                   IF d.queue[i].of = c THEN [d.queue[i] EXCEPT !.of = Sys] ELSE d.queue[i]]
           r == [d EXCEPT !.queue = w]
<1>5. relink_to_sys_chan(d, c) = r
  BY DEF relink_to_sys_chan
<1> HIDE DEF d
<1>6. w \in Seq(Tasks) /\ DOMAIN w = DOMAIN s.queue
  <2>1. s.queue \in Seq(Tasks) /\ DOMAIN s.queue = 1 .. Len(s.queue) /\ Len(s.queue) \in Nat
    BY Fields, LenProperties
  <2>2. \A i \in DOMAIN s.queue : s.queue[i] \in Tasks
    BY <2>1, ElementOfSeq
  <2>3. \A x \in Tasks : [x EXCEPT !.of = Sys] \in Tasks
    BY DEF Tasks
  <2>4. w \in [1 .. Len(s.queue) -> Tasks]
    BY <1>4, <2>1, <2>2, <2>3
  <2>5. DOMAIN w = DOMAIN s.queue
    BY <1>4
  <2> HIDE DEF w
  <2>6. w \in Seq(Tasks)
    BY <2>1, <2>4, SeqDef
  <2> QED BY <2>5, <2>6
<1>7. \A i \in DOMAIN w : w[i].of \in (Owners(s) \ {c}) \union {Sys}
  <2>1. \A i \in DOMAIN s.queue : s.queue[i].of \in Owners(s)
    BY Zenon DEF Owners
  <2>2. \A i \in DOMAIN s.queue : s.queue[i] \in Tasks
    BY Fields, ElementOfSeq, LenProperties
  <2>3. \A x \in Tasks : [x EXCEPT !.of = Sys].of = Sys
    BY DEF Tasks
  <2> QED BY <1>4, <2>1, <2>2, <2>3
<1> HIDE DEF w
<1>8. /\ r \in Device /\ r.chans = q /\ r.chansno = k /\ r.buf = s.buf /\ r.capture = s.capture
      /\ r.mix = s.mix /\ r.call = s.call /\ r.queue = w
  BY <1>4, <1>6 DEF Device
<1> HIDE DEF r
<1> DEFINE f == [r.call EXCEPT ![c] = NoCall]
           b == r.buf /\ r.chansno # 0
<1>9. t = [r EXCEPT !.call = f, !.buf = b]
  BY <1>1, <1>5 DEF cpvt_free
<1>10. f \in [CallIds -> Call] /\ \A x \in CallIds \ {c} : f[x] = s.call[x]
  <2>1. NoCall \in Call
    BY DEF NoCall, Call, call_state_t, RELEASED
  <2> QED BY <1>8, <2>1, Fields
<1>11. b \in BOOLEAN /\ (b <=> s.buf /\ k # 0)
  BY <1>8
<1> HIDE DEF f, b
<1>12. /\ t \in Device /\ t.chans = q /\ t.chansno = k /\ t.buf = b /\ t.capture = s.capture
       /\ t.mix = s.mix /\ t.call = f /\ t.queue = w
  BY <1>8, <1>9, <1>10, <1>11 DEF Device
<1>13. Owners(t) \subseteq (Owners(s) \ {c}) \union {Sys}
  BY <1>7, <1>12, Zenon DEF Owners
<1>14. t.buf <=> (s.buf /\ t.chansno # 0)
  BY <1>11, <1>12
<1> QED BY <1>6, <1>10, <1>12, <1>13, <1>14 DEF q, k

(* cpvt_free of a call of the list.                                        *)
LEMMA FreeKeeps ==
  ASSUME NEW s \in Device, Listing(s), NEW c \in Listed(s), NEW t, t = cpvt_free(s, c)
  PROVE  /\ t \in Device /\ Listing(t) /\ Listed(t) = Listed(s) \ {c}
         /\ OneIdx(s) => OneIdx(t)
         /\ Audio(s) /\ ~s.call[c].act => Audio(t)
         /\ s.queue # <<>> => t.queue # <<>>
<1>1. /\ t \in Device /\ t.chans = Unlinked(s.chans, c) /\ t.chansno = Dec(s.chansno)
      /\ t.buf <=> (s.buf /\ t.chansno # 0)
      /\ t.capture = s.capture /\ t.mix = s.mix
      /\ \A d \in CallIds \ {c} : t.call[d] = s.call[d]
      /\ Owners(t) \subseteq (Owners(s) \ {c}) \union {Sys}
  BY FreeFields
<1>2. s.chans \in Seq(CallIds) /\ c \in CallIds /\ Len(s.chans) \in Nat /\ s.chansno = Len(s.chans)
  BY Fields, ListedTypes, LenProperties DEF Listing
<1>3. PICK i \in DOMAIN s.chans : s.chans[i] = c
  BY Zenon DEF Listed
<1>4. /\ Len(t.chans) = Len(s.chans) - 1 /\ t.chans \in Seq(CallIds)
      /\ \A a, b \in DOMAIN t.chans : t.chans[a] = t.chans[b] => a = b
      /\ Listed(t) = Listed(s) \ {c}
  <2>1. \A a, b \in DOMAIN s.chans : s.chans[a] = s.chans[b] => a = b
    BY DEF Listing
  <2>2. t.chans = Unlinked(s.chans, c)
    BY <1>1
  <2>3. /\ Len(t.chans) = Len(s.chans) - 1 /\ t.chans \in Seq(CallIds)
        /\ \A a, b \in DOMAIN t.chans : t.chans[a] = t.chans[b] => a = b
        /\ Entries(t.chans) = Entries(s.chans) \ {c}
    <3>1. c \in Entries(s.chans)
      BY DEF Listed, Entries
    <3> QED BY <1>2, <2>1, <2>2, <3>1, UnlinkedList
  <2> QED BY <2>3 DEF Listed, Entries
<1>5. Dec(s.chansno) = Len(s.chans) - 1
  <2>1. s.chansno \in 0 .. CountValues - 1 /\ CountValues \in Nat /\ CountValues > 0
    BY Fields, Limits
  <2>2. Len(s.chans) > 0
    BY <1>2, <1>3, LenProperties
  <2>3. PICK m \in 1 .. CountValues - 1 : m = Len(s.chans) /\ m = s.chansno
    BY <1>2, <2>1, <2>2
  <2>4. (m + CountValues - 1) % CountValues = m - 1
    <3>1. m + CountValues - 1 = CountValues * 1 + (m - 1) /\ m - 1 \in 0 .. CountValues - 1
      BY <2>1
    <3> QED BY <2>1, <3>1
  <2> QED BY <2>3, <2>4 DEF Dec
<1>6. t.buf <=> t.chans # <<>>
  <2>1. s.buf
    <3>1. s.chans # <<>>
      BY <1>3
    <3> QED BY <3>1 DEF Listing
  <2>2. t.chans # <<>> <=> Len(t.chans) # 0
    BY <1>4, EmptySeq
  <2> QED BY <1>1, <1>4, <1>5, <2>1, <2>2
<1>7. Owners(t) \subseteq Listed(t) \union {Sys}
  BY <1>1, <1>4 DEF Listing
<1>8. Listing(t)
  BY <1>1, <1>4, <1>5, <1>6, <1>7 DEF Listing
<1>9. \A d \in Listed(t) : d \in Listed(s) /\ d # c /\ t.call[d] = s.call[d]
  BY <1>1, <1>4, ListedTypes
<1>10. OneIdx(s) => OneIdx(t)
  BY <1>9 DEF OneIdx
<1>11. ASSUME Audio(s), ~s.call[c].act
       PROVE  Audio(t)
  <2>1. ~s.call[c].master
    BY <1>11 DEF Audio
  <2>2. \A d \in Listed(s) : d = c \/ d \in Listed(t)
    BY <1>4
  <2>3. Mixing => t.mix = {a \in Listed(t) : t.call[a].act}
    BY <1>1, <1>9, <1>11, <2>2 DEF Audio
  <2>4. Uac => /\ t.capture <=> \E a \in Listed(t) : t.call[a].master
               /\ \A a \in Listed(t) : t.call[a].fd = "audio" => t.call[a].master
    BY <1>1, <1>9, <1>11, <2>1, <2>2 DEF Audio
  <2>5. /\ \A a, b \in Listed(t) : t.call[a].master => t.call[a].act /\ (t.call[b].master => a = b)
        /\ \A a \in Listed(t) : t.call[a].act => t.call[a].chan
    BY <1>9, <1>11 DEF Audio
  <2> QED BY <2>3, <2>4, <2>5 DEF Audio
<1>12. s.queue # <<>> => t.queue # <<>>
  <2>1. DOMAIN t.queue = DOMAIN s.queue
    BY FreeFields
  <2>2. s.queue \in Seq(Tasks) /\ t.queue \in Seq(Tasks)
    BY <1>1, Fields
  <2> QED BY <2>1, <2>2, LenProperties, EmptySeq
<1> QED BY <1>1, <1>4, <1>8, <1>10, <1>11, <1>12

-----------------------------------------------------------------------------
(* Steps that keep all of it, and add no call.                             *)

Preserves(s, t) ==
  /\ t \in Device /\ Listing(t) /\ Listed(t) \subseteq Listed(s)
  /\ OneIdx(s) => OneIdx(t)
  /\ Audio(s) => Audio(t)

(* Steps that the invariant does not depend on are such steps,             *)
LEMMA AlikePreserves ==
  ASSUME NEW s \in Device, Listing(s), NEW t, Alike(s, t)
  PROVE  Preserves(s, t) /\ Listed(t) = Listed(s)
<1>1. t \in Device
  BY DEF Alike
<1> QED BY <1>1, AlikeKeeps DEF Preserves

(* and so are two of them.                                                 *)
LEMMA PreservesTwice ==
  ASSUME NEW s, NEW t, NEW u, Preserves(s, t), Preserves(t, u)
  PROVE  Preserves(s, u)
BY DEF Preserves

(* The list and the indices stay.                                          *)
SameList(s, t) ==
  /\ t \in Device /\ t.chans = s.chans /\ t.chansno = s.chansno /\ t.buf = s.buf
  /\ t.queue = s.queue
  /\ \A c \in CallIds : t.call[c].idx = s.call[c].idx

LEMMA SameListKeeps ==
  ASSUME NEW s \in Device, Listing(s), NEW t, SameList(s, t)
  PROVE  Listing(t) /\ Listed(t) = Listed(s) /\ (OneIdx(s) => OneIdx(t))
<1>1. Listed(t) = Listed(s) /\ Listed(s) \subseteq CallIds
  BY ListedTypes DEF SameList, Listed
<1>2. Listing(t)
  BY <1>1 DEF SameList, Listing, Owners
<1> QED BY <1>1, <1>2 DEF SameList, OneIdx

(* A call that is taken out of the sound.                                  *)
Muted(x) == [x EXCEPT !.fd = IF Uac THEN "none" ELSE @, !.act = FALSE, !.master = FALSE]

LEMMA MutedTypes ==
  ASSUME NEW x \in Call, NEW y, y = Muted(x)
  PROVE  /\ y \in Call /\ y.idx = x.idx /\ y.chan = x.chan /\ ~y.act /\ ~y.master
         /\ Uac => y.fd = "none"
         /\ ~Uac => y.fd = x.fd
BY DEF Muted, Call

(* cpvt_call_disactivate of a call that is activated: what changes.        *)
LEMMA DisactivateFields ==
  ASSUME NEW s \in Device, NEW c \in CallIds, s.call[c].act, NEW t, t = cpvt_call_disactivate(s, c)
  PROVE  /\ t \in Device /\ t.chans = s.chans /\ t.chansno = s.chansno /\ t.buf = s.buf
         /\ t.queue = s.queue
         /\ t.capture <=> s.capture /\ ~(Uac /\ s.call[c].master)
         /\ t.mix = mixb_detach(s, c)
         /\ t.call[c] = Muted(s.call[c])
         /\ \A d \in CallIds \ {c} : t.call[d] = s.call[d]
<1> DEFINE f == [s.call EXCEPT ![c] = Muted(s.call[c])]
           b == s.capture /\ ~StopsAudio(s, c)
           m == mixb_detach(s, c)
<1>1. t = [s EXCEPT !.capture = b, !.mix = m, !.call = f]
  <2> DEFINE e == IF Uac THEN "none" ELSE s.call[c].fd
  <2>1. t = [s EXCEPT !.capture = b, !.mix = m, !.call[c].fd = e,
                      !.call[c].act = FALSE, !.call[c].master = FALSE]
    BY DEF cpvt_call_disactivate
  <2>2. Muted(s.call[c]) = [s.call[c] EXCEPT !.fd = e, !.act = FALSE, !.master = FALSE]
    BY DEF Muted
  <2> HIDE DEF e, b, m
  <2>3. [s EXCEPT !.capture = b, !.mix = m, !.call[c].fd = e,
                  !.call[c].act = FALSE, !.call[c].master = FALSE] =
        [s EXCEPT !.capture = b, !.mix = m, !.call =
           [s.call EXCEPT ![c] = [s.call[c] EXCEPT !.fd = e, !.act = FALSE, !.master = FALSE]]]
    BY ZenonT(60)
  <2> QED BY <2>1, <2>2, <2>3
<1>2. s.call[c] \in Call
  BY Fields
<1>3. Muted(s.call[c]) \in Call
  BY <1>2, MutedTypes
<1>4. /\ f \in [CallIds -> Call] /\ f[c] = Muted(s.call[c])
      /\ \A d \in CallIds \ {c} : f[d] = s.call[d]
  BY <1>3, Fields
<1>5. m \in SUBSET CallIds
  BY Fields DEF mixb_detach
<1>6. b \in BOOLEAN /\ (b <=> s.capture /\ ~(Uac /\ s.call[c].master))
  BY Fields DEF StopsAudio
<1> HIDE DEF f, b, m
<1>7. /\ t \in Device /\ t.chans = s.chans /\ t.chansno = s.chansno /\ t.buf = s.buf
      /\ t.queue = s.queue /\ t.capture = b /\ t.mix = m /\ t.call = f
  BY <1>1, <1>4, <1>5, <1>6 DEF Device
<1> QED BY <1>4, <1>6, <1>7 DEF m

(* cpvt_call_disactivate.                                                  *)
LEMMA DisactivateKeeps ==
  ASSUME NEW s \in Device, Listing(s), NEW c \in Listed(s), NEW t, t = cpvt_call_disactivate(s, c)
  PROVE  Preserves(s, t) /\ Listed(t) = Listed(s) /\ ~t.call[c].act /\ t.queue = s.queue
<1>0. c \in CallIds /\ s.call[c] \in Call
  BY ListedTypes, Fields
<1>1. CASE ~s.call[c].act
  <2>1. t = s
    BY <1>1 DEF cpvt_call_disactivate
  <2> QED BY <1>1, <2>1 DEF Preserves
<1>2. CASE s.call[c].act
  <2>1. /\ t \in Device /\ t.chans = s.chans /\ t.chansno = s.chansno /\ t.buf = s.buf
        /\ t.queue = s.queue /\ t.mix = mixb_detach(s, c)
    BY <1>0, <1>2, DisactivateFields
  <2>2. t.capture <=> s.capture /\ ~(Uac /\ s.call[c].master)
    BY <1>0, <1>2, DisactivateFields
  <2>3. t.call[c] = Muted(s.call[c]) /\ \A d \in CallIds \ {c} : t.call[d] = s.call[d]
    BY <1>0, <1>2, DisactivateFields
  <2>4. /\ t.call[c].idx = s.call[c].idx /\ ~t.call[c].act /\ ~t.call[c].master
        /\ Uac => t.call[c].fd = "none"
    BY <1>0, <2>3, MutedTypes
  <2>5. SameList(s, t)
    BY <2>1, <2>3, <2>4 DEF SameList
  <2>6. Listing(t) /\ Listed(t) = Listed(s) /\ (OneIdx(s) => OneIdx(t))
    BY <2>5, SameListKeeps
  <2>7. \A d \in Listed(s) : d = c \/ t.call[d] = s.call[d]
    BY <2>3, ListedTypes
  <2>8. ASSUME Audio(s)
        PROVE  Audio(t)
    <3>1. /\ \A a, b \in Listed(t) : t.call[a].master => t.call[a].act /\ (t.call[b].master => a = b)
          /\ \A a \in Listed(t) : t.call[a].act => t.call[a].chan
      BY <2>4, <2>6, <2>7, <2>8 DEF Audio
    <3>2. ASSUME Uac
          PROVE  /\ t.capture <=> \E a \in Listed(t) : t.call[a].master
                 /\ \A a \in Listed(t) : t.call[a].fd = "audio" => t.call[a].master
      <4>1. \A a \in Listed(t) : t.call[a].fd = "audio" => t.call[a].master
        BY <2>4, <2>6, <2>7, <2>8, <3>2 DEF Audio
      <4>2. CASE s.call[c].master
        <5>1. \A a \in Listed(s) : s.call[a].master => a = c
          BY <2>8, <4>2 DEF Audio
        <5>2. ~t.capture /\ ~\E a \in Listed(t) : t.call[a].master
          BY <2>2, <2>4, <2>6, <2>7, <3>2, <4>2, <5>1
        <5> QED BY <4>1, <5>2
      <4>3. CASE ~s.call[c].master
        <5>1. \A a \in Listed(s) : t.call[a].master <=> s.call[a].master
          BY <2>4, <2>7, <4>3
        <5>2. t.capture <=> s.capture
          BY <2>2, <4>3
        <5>3. s.capture <=> \E a \in Listed(s) : s.call[a].master
          BY <2>8, <3>2 DEF Audio
        <5> QED BY <2>6, <4>1, <5>1, <5>2, <5>3
      <4> QED BY <4>2, <4>3
    <3>3. Mixing => t.mix = {a \in Listed(t) : t.call[a].act}
      BY <2>1, <2>4, <2>6, <2>7, <2>8 DEF Audio, mixb_detach
    <3> QED BY <3>1, <3>2, <3>3 DEF Audio
  <2> QED BY <2>1, <2>4, <2>6, <2>8 DEF Preserves
<1> QED BY <1>1, <1>2

-----------------------------------------------------------------------------
(* cpvt_call_activate.                                                     *)

(* What the other calls keep and lose.                                     *)
LEMMA YieldTypes ==
  ASSUME NEW s \in Device, NEW c \in CallIds, NEW d \in CallIds, NEW y, y = OthersYield(s, c)[d]
  PROVE  /\ y \in Call /\ y.idx = s.call[d].idx /\ y.act = s.call[d].act
         /\ y.chan = s.call[d].chan
         /\ d = c => y = s.call[d]
         /\ d # c /\ d \in Listed(s) =>
              /\ ~y.master
              /\ Uac => IF s.call[d].chan THEN y.fd = "none" ELSE y.fd = s.call[d].fd
<1> DEFINE x == s.call[d]
           e == IF ~x.chan THEN x.fd ELSE IF Uac THEN "none" ELSE IF x.act THEN "pipe" ELSE x.fd
<1>1. x \in Call
  BY Fields
<1>2. y = IF d = c \/ d \notin Listed(s) THEN x ELSE [x EXCEPT !.master = FALSE, !.fd = e]
  BY DEF OthersYield
<1>3. e \in {"none", "audio", "pipe"}
  BY <1>1 DEF Call
<1>4. Uac => IF x.chan THEN e = "none" ELSE e = x.fd
  OBVIOUS
<1> HIDE DEF x, e
<1>5. CASE d = c \/ d \notin Listed(s)
  BY <1>1, <1>2, <1>5 DEF x
<1>6. CASE ~(d = c \/ d \notin Listed(s))
  <2>1. y = [x EXCEPT !.master = FALSE, !.fd = e]
    BY <1>2, <1>6
  <2>2. /\ y \in Call /\ y.idx = x.idx /\ y.act = x.act /\ y.chan = x.chan /\ ~y.master
        /\ y.fd = e
    BY <1>1, <1>3, <2>1 DEF Call
  <2> QED BY <1>4, <1>6, <2>2 DEF x
<1> QED BY <1>5, <1>6

(* The call itself, when the audio starts and when it does not.            *)
Sounding(x) == [x EXCEPT !.fd = "audio", !.act = TRUE, !.master = TRUE]
Silenced(x) == [x EXCEPT !.fd = "none", !.hup = TRUE, !.act = FALSE, !.master = FALSE]

LEMMA SoundingTypes ==
  ASSUME NEW x \in Call
  PROVE  /\ Sounding(x) \in Call /\ Sounding(x).idx = x.idx /\ Sounding(x).chan = x.chan
         /\ Sounding(x).act /\ Sounding(x).master
         /\ Silenced(x) \in Call /\ Silenced(x).idx = x.idx /\ Silenced(x).chan = x.chan
         /\ ~Silenced(x).act /\ ~Silenced(x).master /\ Silenced(x).fd = "none"
BY DEF Sounding, Silenced, Call

(* All the others have yielded, and y is what becomes of the call.         *)
Streams(s, c) == IF Mixing /\ ~s.call[c].act THEN s.mix \union {c} ELSE s.mix
Activated(s, c, y, b) ==
  [s EXCEPT !.call = [OthersYield(s, c) EXCEPT ![c] = y], !.capture = b, !.mix = Streams(s, c)]

LEMMA ActivatedFields ==
  ASSUME NEW s \in Device, NEW c \in CallIds, NEW y \in Call, NEW b \in BOOLEAN,
         y.idx = s.call[c].idx, NEW t, t = Activated(s, c, y, b)
  PROVE  /\ SameList(s, t) /\ t.capture = b /\ t.mix = Streams(s, c)
         /\ t.call[c] = y /\ \A d \in CallIds \ {c} : t.call[d] = OthersYield(s, c)[d]
<1> DEFINE g == OthersYield(s, c)
           f == [g EXCEPT ![c] = y]
           m == Streams(s, c)
<1>0. m \in SUBSET CallIds
  BY Fields DEF Streams
<1>1. \A d \in CallIds : g[d] \in Call /\ g[d].idx = s.call[d].idx
  BY YieldTypes
<1>2. g = [d \in CallIds |-> g[d]]
  BY DEF OthersYield
<1> HIDE DEF g
<1>3. /\ f \in [CallIds -> Call] /\ f[c] = y
      /\ \A d \in CallIds \ {c} : f[d] = g[d]
  BY <1>1, <1>2
<1>4. \A d \in CallIds : f[d].idx = s.call[d].idx
  BY <1>1, <1>3
<1>5. t = [s EXCEPT !.call = f, !.capture = b, !.mix = m]
  BY DEF g, Activated
<1> HIDE DEF f, m
<1>6. /\ t \in Device /\ t.chans = s.chans /\ t.chansno = s.chansno /\ t.buf = s.buf
      /\ t.queue = s.queue /\ t.capture = b /\ t.mix = m /\ t.call = f
  BY <1>0, <1>3, <1>5 DEF Device
<1> QED BY <1>3, <1>4, <1>6 DEF SameList, g, m

(* How cpvt_call_activate may end.                                         *)
LEMMA ActivateCases ==
  ASSUME NEW s \in Device, NEW c \in CallIds, NEW t \in cpvt_call_activate(s, c)
  PROVE  \/ t = s /\ (s.call[c].master \/ s.call[c].local)
         \/ t = Activated(s, c, Sounding(s.call[c]), Uac)
         \/ Uac /\ t = Activated(s, c, Silenced(s.call[c]), FALSE)
<1> DEFINE g == OthersYield(s, c)
           m == Streams(s, c)
           u == [s EXCEPT !.call = g, !.mix = m]
           started == [u EXCEPT !.capture = Uac, !.call[c].fd = "audio",
                                !.call[c].act = TRUE, !.call[c].master = TRUE]
<1>1. \/ t = s /\ (s.call[c].master \/ s.call[c].local)
      \/ t = started
      \/ Uac /\ t = ActivationFailed(u, c)
  BY DEF cpvt_call_activate, Streams
<1>2. g[c] = s.call[c]
  BY YieldTypes
<1>3. g = [d \in CallIds |-> g[d]]
  BY DEF OthersYield
<1> HIDE DEF g, m
<1>4. u \in Device /\ u.call = g
  <2>1. g \in [CallIds -> Call]
    BY <1>3, YieldTypes DEF g
  <2>2. m \in SUBSET CallIds
    BY Fields DEF m, Streams
  <2> QED BY <2>1, <2>2 DEF Device
<1>5. started = [s EXCEPT !.call = [g EXCEPT ![c] = Sounding(g[c])], !.capture = Uac, !.mix = m]
  <2> HIDE DEF u
  <2>1. started = [u EXCEPT !.capture = Uac, !.call = [u.call EXCEPT ![c] = Sounding(u.call[c])]]
    <3>1. started = [u EXCEPT !.capture = Uac, !.call = [u.call EXCEPT ![c] =
                       [u.call[c] EXCEPT !.fd = "audio", !.act = TRUE, !.master = TRUE]]]
      BY ZenonT(60)
    <3> QED BY <3>1 DEF Sounding
  <2> QED BY <1>4, <2>1, ZenonT(60) DEF u
<1>6. ActivationFailed(u, c) = [s EXCEPT !.call = [g EXCEPT ![c] = Silenced(g[c])], !.capture = FALSE, !.mix = m]
  <2> HIDE DEF u
  <2>1. ActivationFailed(u, c) = [u EXCEPT !.capture = FALSE, !.call = [u.call EXCEPT ![c] = Silenced(u.call[c])]]
    <3>1. ActivationFailed(u, c) = [u EXCEPT !.capture = FALSE, !.call = [u.call EXCEPT ![c] =
                       [u.call[c] EXCEPT !.fd = "none", !.hup = TRUE, !.act = FALSE, !.master = FALSE]]]
      BY ZenonT(60) DEF ActivationFailed
    <3> QED BY <3>1 DEF Silenced
  <2> QED BY <1>4, <2>1 DEF u
<1> HIDE DEF u, started
<1>7. \/ t = s /\ (s.call[c].master \/ s.call[c].local)
      \/ t = [s EXCEPT !.call = [g EXCEPT ![c] = Sounding(s.call[c])], !.capture = Uac, !.mix = m]
      \/ Uac /\ t = [s EXCEPT !.call = [g EXCEPT ![c] = Silenced(s.call[c])], !.capture = FALSE, !.mix = m]
  BY <1>1, <1>2, <1>5, <1>6
<1> QED BY <1>7, Zenon DEF g, m, Activated

(* It keeps the invariant, whether the audio starts or not.                *)
LEMMA ActivateKeeps ==
  ASSUME NEW s \in Device, Listing(s), NEW c \in Listed(s), s.call[c].chan,
         NEW t \in cpvt_call_activate(s, c)
  PROVE  Preserves(s, t) /\ Listed(t) = Listed(s) /\ t.queue = s.queue
<1>0. c \in CallIds /\ s.call[c] \in Call /\ Uac \in BOOLEAN
  BY ListedTypes, Fields, CallsAssumption
<1>2. \/ t = s
      \/ t = Activated(s, c, Sounding(s.call[c]), Uac)
      \/ Uac /\ t = Activated(s, c, Silenced(s.call[c]), FALSE)
  BY <1>0, ActivateCases
<1>3. ASSUME NEW d \in Listed(s), d # c
      PROVE  /\ OthersYield(s, c)[d].act = s.call[d].act /\ OthersYield(s, c)[d].chan = s.call[d].chan
             /\ ~OthersYield(s, c)[d].master
             /\ Uac => IF s.call[d].chan THEN OthersYield(s, c)[d].fd = "none"
                                         ELSE OthersYield(s, c)[d].fd = s.call[d].fd
  BY <1>0, <1>3, ListedTypes, YieldTypes
<1>4. CASE t = s
  BY <1>4 DEF Preserves
<1>5. CASE t = Activated(s, c, Sounding(s.call[c]), Uac)
  <2> DEFINE y == Sounding(s.call[c])
  <2>1. y \in Call /\ y.idx = s.call[c].idx /\ y.chan /\ y.act /\ y.master
    BY <1>0, SoundingTypes
  <2> HIDE DEF y
  <2>2. /\ SameList(s, t) /\ t.capture = Uac /\ t.mix = Streams(s, c)
        /\ t.call[c] = y /\ \A d \in CallIds \ {c} : t.call[d] = OthersYield(s, c)[d]
    BY <1>0, <1>5, <2>1, ActivatedFields DEF y
  <2>3. t \in Device /\ t.queue = s.queue /\ Listing(t) /\ Listed(t) = Listed(s) /\ (OneIdx(s) => OneIdx(t))
    BY <2>2, SameListKeeps DEF SameList
  <2>4. \A d \in Listed(s) : d = c \/ (/\ t.call[d].act = s.call[d].act /\ t.call[d].chan = s.call[d].chan
                                       /\ ~t.call[d].master)
    BY <1>3, <2>2, ListedTypes
  <2>5. ASSUME Audio(s)
        PROVE  Audio(t)
    <3>1. /\ \A a, b \in Listed(t) : t.call[a].master => t.call[a].act /\ (t.call[b].master => a = b)
          /\ \A a \in Listed(t) : t.call[a].act => t.call[a].chan
      BY <2>1, <2>2, <2>3, <2>4, <2>5 DEF Audio
    <3>2. ASSUME Uac, NEW d \in Listed(s), d # c
          PROVE  t.call[d].fd # "audio"
      <4>1. t.call[d] = OthersYield(s, c)[d]
        BY <2>2, <3>2, ListedTypes
      <4>2. ~s.call[d].chan => s.call[d].fd # "audio"
        BY <2>5, <3>2 DEF Audio
      <4> QED BY <1>3, <3>2, <4>1, <4>2
    <3>3. Uac => /\ t.capture <=> \E a \in Listed(t) : t.call[a].master
                 /\ \A a \in Listed(t) : t.call[a].fd = "audio" => t.call[a].master
      BY <2>1, <2>2, <2>3, <3>2
    <3>4. Mixing => t.mix = {a \in Listed(t) : t.call[a].act}
      BY <2>1, <2>2, <2>3, <2>4, <2>5 DEF Audio, Streams
    <3> QED BY <3>1, <3>3, <3>4 DEF Audio
  <2> QED BY <2>3, <2>5 DEF Preserves
<1>6. CASE Uac /\ t = Activated(s, c, Silenced(s.call[c]), FALSE)
  <2> DEFINE y == Silenced(s.call[c])
  <2>1. y \in Call /\ y.idx = s.call[c].idx /\ ~y.act /\ ~y.master /\ y.fd = "none"
    BY <1>0, SoundingTypes
  <2> HIDE DEF y
  <2>2. /\ SameList(s, t) /\ t.capture = FALSE /\ t.mix = Streams(s, c)
        /\ t.call[c] = y /\ \A d \in CallIds \ {c} : t.call[d] = OthersYield(s, c)[d]
    <3>1. PICK b \in BOOLEAN : b = FALSE
      OBVIOUS
    <3>2. t = Activated(s, c, y, b)
      BY <1>6, <3>1 DEF y
    <3>3. /\ SameList(s, t) /\ t.capture = b /\ t.mix = Streams(s, c)
          /\ t.call[c] = y /\ \A d \in CallIds \ {c} : t.call[d] = OthersYield(s, c)[d]
      BY <1>0, <2>1, <3>2, ActivatedFields
    <3> QED BY <3>1, <3>3
  <2>3. t \in Device /\ t.queue = s.queue /\ Listing(t) /\ Listed(t) = Listed(s) /\ (OneIdx(s) => OneIdx(t))
    BY <2>2, SameListKeeps DEF SameList
  <2>4. \A d \in Listed(s) : d = c \/ (/\ t.call[d].act = s.call[d].act /\ t.call[d].chan = s.call[d].chan
                                       /\ ~t.call[d].master)
    BY <1>3, <2>2, ListedTypes
  <2>5. ASSUME Audio(s)
        PROVE  Audio(t)
    <3>1. /\ \A a, b \in Listed(t) : t.call[a].master => t.call[a].act /\ (t.call[b].master => a = b)
          /\ \A a \in Listed(t) : t.call[a].act => t.call[a].chan
      BY <2>1, <2>2, <2>3, <2>4, <2>5 DEF Audio
    <3>2. ASSUME NEW d \in Listed(s), d # c
          PROVE  t.call[d].fd # "audio"
      <4>1. t.call[d] = OthersYield(s, c)[d]
        BY <2>2, <3>2, ListedTypes
      <4>2. ~s.call[d].chan => s.call[d].fd # "audio"
        BY <1>6, <2>5, <3>2 DEF Audio
      <4> QED BY <1>3, <1>6, <3>2, <4>1, <4>2
    <3>3. Uac => /\ t.capture <=> \E a \in Listed(t) : t.call[a].master
                 /\ \A a \in Listed(t) : t.call[a].fd = "audio" => t.call[a].master
      BY <2>1, <2>2, <2>3, <2>4, <3>2
    <3>4. ~Mixing
      BY <1>6 DEF Mixing
    <3> QED BY <3>1, <3>3, <3>4 DEF Audio
  <2> QED BY <2>3, <2>5 DEF Preserves
<1> QED BY <1>2, <1>4, <1>5, <1>6

-----------------------------------------------------------------------------
(* cpvt_change_state.                                                      *)

(* A command at the head stays there.                                      *)
Waits(s, t) == s.queue # <<>> => t.queue # <<>>

LEMMA HangupWaits ==
  ASSUME NEW s \in Device, NEW of, NEW idx
  PROVE  Waits(s, at_enqueue_hangup(s, of, idx))
<1> DEFINE q(cmds) == IF s.queue = <<>> THEN <<[cmds |-> cmds, of |-> of]>>
                      ELSE <<Head(s.queue), [cmds |-> cmds, of |-> of]>> \o Tail(s.queue)
<1>1. \A cmds : Insert(s, of, cmds) = [s EXCEPT !.queue = q(cmds)]
  BY DEF Insert
<1>2. ASSUME NEW cmds
      PROVE  s.queue # <<>> => q(cmds) # <<>>
  <2> DEFINE x == [cmds |-> cmds, of |-> of]
  <2> HIDE DEF x
  <2>1. ASSUME s.queue # <<>>
        PROVE  <<Head(s.queue), x>> \o Tail(s.queue) # <<>>
    <3>1. Head(s.queue) \in Tasks /\ Tail(s.queue) \in Seq(Tasks)
      BY <2>1, Fields, HeadTailProperties
    <3>2. /\ <<Head(s.queue), x>> \in Seq(Tasks \union {x}) /\ Tail(s.queue) \in Seq(Tasks \union {x})
          /\ Len(<<Head(s.queue), x>>) = 2
      BY <3>1
    <3>3. Len(<<Head(s.queue), x>> \o Tail(s.queue)) = 2 + Len(Tail(s.queue)) /\ Len(Tail(s.queue)) \in Nat
      BY <3>2, ConcatProperties, LenProperties
    <3>4. Len(<<>>) = 0
      OBVIOUS
    <3> QED BY <3>3, <3>4
  <2> QED BY <2>1 DEF x
<1> HIDE DEF q
<1>3. \A f, cmds : /\ [s EXCEPT !.queue = q(cmds)].queue = q(cmds)
                   /\ [[s EXCEPT !.queue = q(cmds)] EXCEPT !.call = f].queue = q(cmds)
  BY DEF Device
<1> DEFINE f == [c \in CallIds |-> IF c \in Listed(s) /\ s.call[c].idx = idx
                                     THEN [s.call[c] EXCEPT !.asked = TRUE] ELSE s.call[c]]
           a == <<"CHLD_1x">>
           b == <<"HUP">>
<1>4. \/ at_enqueue_hangup(s, of, idx) = Insert(s, of, a)
      \/ at_enqueue_hangup(s, of, idx) = [Insert(s, of, b) EXCEPT !.call = f]
  BY DEF at_enqueue_hangup
<1> HIDE DEF f, a, b
<1>5. at_enqueue_hangup(s, of, idx).queue = q(a) \/ at_enqueue_hangup(s, of, idx).queue = q(b)
  <2>1. CASE at_enqueue_hangup(s, of, idx) = Insert(s, of, a)
    BY <1>1, <1>3, <2>1
  <2>2. CASE at_enqueue_hangup(s, of, idx) = [Insert(s, of, b) EXCEPT !.call = f]
    <3>1. Insert(s, of, b) = [s EXCEPT !.queue = q(b)]
      BY <1>1
    <3> QED BY <1>3, <2>2, <3>1
  <2> QED BY <1>4, <2>1, <2>2
<1> QED BY <1>2, <1>5 DEF Waits

(* The flags and the state change first.                                   *)
LEMMA StateAlike ==
  ASSUME NEW s \in Device, NEW c \in CallIds, NEW new \in call_state_t,
         NEW t, t = [UpdateFlags(s, s.call[c].state, new) EXCEPT !.call[c].state = new]
  PROVE  Alike(s, t) /\ t.queue = s.queue /\ t.call[c].chan = s.call[c].chan /\ t \in Device
<1> DEFINE u == UpdateFlags(s, s.call[c].state, new)
           y == [u.call[c] EXCEPT !.state = new]
<1>1. s.call[c].state \in call_state_t
  BY Fields DEF Call
<1>2. Alike(s, u)
  BY <1>1, UpdateFlagsAlike
<1>3. u.queue = s.queue
  BY DEF UpdateFlags, Device
<1> HIDE DEF u
<1>4. u \in Device /\ u.call[c] \in Call
  BY <1>2, Fields, SMTT(30) DEF Alike
<1>5. Twin(u.call[c], y)
  BY <1>4, Twins
<1>6. t = [u EXCEPT !.call = [u.call EXCEPT ![c] = y]]
  BY DEF u
<1> HIDE DEF y
<1>7. Alike(u, t)
  BY <1>4, <1>5, <1>6, OneTwin
<1>8. t.queue = u.queue
  BY <1>4, <1>6 DEF Device
<1>9. Alike(s, t)
  BY <1>2, <1>7, AlikeTwice
<1> QED BY <1>3, <1>8, <1>9 DEF Alike, Twin

(* Then what is done for the call.                                         *)
LEMMA ChangeKeeps ==
  ASSUME NEW s \in Device, Listing(s), NEW c \in Listed(s), NEW new \in call_state_t,
         NEW t \in cpvt_change_state(s, c, new)
  PROVE  Preserves(s, t) /\ Waits(s, t) /\ (new # RELEASED => Listed(t) = Listed(s))
<1>0. c \in CallIds
  BY ListedTypes
<1> DEFINE u == [UpdateFlags(s, s.call[c].state, new) EXCEPT !.call[c].state = new]
<1>1. Alike(s, u) /\ u.queue = s.queue /\ u.call[c].chan = s.call[c].chan /\ u \in Device
  BY <1>0, StateAlike
<1>2. /\ new = s.call[c].state => t = s
      /\ new # s.call[c].state /\ s.call[c].chan => t \in ChangeAttached(u, c, new)
      /\ new # s.call[c].state /\ ~s.call[c].chan => t = ChangeDetached(u, c, new)
  BY DEF cpvt_change_state
<1> HIDE DEF u
<1>3. Preserves(s, u) /\ Listed(u) = Listed(s) /\ Listing(u)
  BY <1>1, AlikePreserves DEF Preserves
<1>4. CASE new = s.call[c].state
  <2>1. t = s
    BY <1>2, <1>4
  <2> QED BY <2>1 DEF Preserves, Waits
<1>5. CASE new # s.call[c].state /\ s.call[c].chan
  <2>0. t \in ChangeAttached(u, c, new) /\ c \in Listed(u) /\ u.call[c].chan
    BY <1>1, <1>2, <1>3, <1>5
  <2>1. CASE new = ONHOLD
    <3>1. t = cpvt_call_disactivate(u, c)
      BY <2>0, <2>1 DEF ChangeAttached, ONHOLD, RELEASED, WAITING
    <3>2. Preserves(u, t) /\ Listed(t) = Listed(u) /\ t.queue = u.queue
      BY <1>1, <1>3, <2>0, <3>1, DisactivateKeeps
    <3> QED BY <1>1, <1>3, <3>2, PreservesTwice DEF Waits
  <2>2. CASE new = RELEASED
    <3> DEFINE v == cpvt_call_disactivate(u, c)
    <3>1. t = cpvt_free(v, c)
      BY <2>0, <2>2 DEF ChangeAttached, ONHOLD, RELEASED, WAITING
    <3>2. Preserves(u, v) /\ Listed(v) = Listed(u) /\ v.queue = u.queue /\ ~v.call[c].act
      BY <1>1, <1>3, <2>0, DisactivateKeeps
    <3> HIDE DEF v
    <3>3. v \in Device /\ Listing(v) /\ c \in Listed(v)
      BY <2>0, <3>2 DEF Preserves
    <3>4. /\ t \in Device /\ Listing(t) /\ Listed(t) = Listed(v) \ {c}
          /\ OneIdx(v) => OneIdx(t)
          /\ Audio(v) => Audio(t)
          /\ v.queue # <<>> => t.queue # <<>>
      BY <3>1, <3>2, <3>3, FreeKeeps
    <3>5. Preserves(v, t)
      BY <3>4 DEF Preserves
    <3> QED BY <1>1, <1>3, <2>2, <3>2, <3>4, <3>5, PreservesTwice DEF Waits
  <2>3. CASE new = WAITING
    <3>1. t = u
      BY <2>0, <2>3 DEF ChangeAttached, ONHOLD, RELEASED, WAITING
    <3> QED BY <1>1, <1>3, <3>1 DEF Waits
  <2>4. CASE new \notin {ONHOLD, RELEASED, WAITING}
    <3>1. t \in cpvt_call_activate(u, c)
      BY <2>0, <2>4 DEF ChangeAttached
    <3>2. Preserves(u, t) /\ Listed(t) = Listed(u) /\ t.queue = u.queue
      BY <1>1, <1>3, <2>0, <3>1, ActivateKeeps
    <3> QED BY <1>1, <1>3, <3>2, PreservesTwice DEF Waits
  <2> QED BY <2>1, <2>2, <2>3, <2>4
<1>6. CASE new # s.call[c].state /\ ~s.call[c].chan
  <2>0. t = ChangeDetached(u, c, new) /\ c \in Listed(u) /\ ~u.call[c].chan
    BY <1>1, <1>2, <1>3, <1>6
  <2>1. CASE new = RELEASED
    <3>1. t = cpvt_free(u, c)
      BY <2>0, <2>1 DEF ChangeDetached, RELEASED, ACTIVE
    <3>2. /\ t \in Device /\ Listing(t) /\ Listed(t) = Listed(u) \ {c}
          /\ OneIdx(u) => OneIdx(t)
          /\ Audio(u) /\ ~u.call[c].act => Audio(t)
          /\ u.queue # <<>> => t.queue # <<>>
      BY <1>1, <1>3, <2>0, <3>1, FreeKeeps
    <3>3. Audio(u) => ~u.call[c].act
      BY <2>0 DEF Audio
    <3>4. Preserves(u, t)
      BY <3>2, <3>3 DEF Preserves
    <3> QED BY <1>1, <1>3, <2>1, <3>2, <3>4, PreservesTwice DEF Waits
  <2>2. CASE new = ACTIVE
    <3>1. t = u
      BY <2>0, <2>2 DEF ChangeDetached, RELEASED, ACTIVE
    <3> QED BY <1>1, <1>3, <3>1 DEF Waits
  <2>3. CASE new \notin {RELEASED, ACTIVE}
    <3>1. t = at_enqueue_hangup(u, Sys, u.call[c].idx)
      BY <2>0, <2>3 DEF ChangeDetached
    <3>2. Alike(u, t) /\ Waits(u, t)
      BY <1>1, <3>1, HangupAlike, HangupWaits
    <3>3. Preserves(u, t) /\ Listed(t) = Listed(u)
      BY <1>1, <1>3, <3>2, AlikePreserves
    <3> QED BY <1>1, <1>3, <3>2, <3>3, PreservesTwice DEF Waits
  <2> QED BY <2>1, <2>2, <2>3
<1> QED BY <1>4, <1>5, <1>6

(* The same for sys_chan.                                                  *)
LEMMA ChangeSysAlike ==
  ASSUME NEW s \in Device, s.sys # "freed", NEW new \in call_state_t
  PROVE  Alike(s, ChangeSys(s, new)) /\ Waits(s, ChangeSys(s, new))
<1> DEFINE v == UpdateFlags(s, s.sys, new)
           u == [v EXCEPT !.sys = new]
<1>1. s.sys \in call_state_t
  BY Fields
<1>2. Alike(s, v) /\ v \in Device
  BY <1>1, UpdateFlagsAlike DEF Alike
<1>3. v.queue = s.queue
  BY DEF UpdateFlags, Device
<1> HIDE DEF v
<1>4. Alike(v, u) /\ u \in Device
  BY <1>2, SysAlike DEF Alike
<1>5. u.queue = v.queue
  BY <1>2 DEF Device
<1>6. ChangeSys(s, new) = IF new = s.sys THEN s
                          ELSE IF new = RELEASED THEN [u EXCEPT !.sys = "freed"]
                          ELSE at_enqueue_hangup(u, Sys, 0)
  BY DEF ChangeSys, v
<1> HIDE DEF u
<1>7. Alike(s, u) /\ u.queue = s.queue
  BY <1>2, <1>3, <1>4, <1>5, AlikeTwice
<1>8. /\ Alike(u, [u EXCEPT !.sys = "freed"])
      /\ [u EXCEPT !.sys = "freed"].queue = u.queue
  BY <1>4, SysAlike DEF Device
<1>9. Alike(u, at_enqueue_hangup(u, Sys, 0)) /\ Waits(u, at_enqueue_hangup(u, Sys, 0))
  BY <1>4, HangupAlike, HangupWaits
<1>10. CASE new = s.sys
  BY <1>6, <1>10, AlikeSelf DEF Waits
<1>11. CASE new # s.sys /\ new = RELEASED
  <2>1. ChangeSys(s, new) = [u EXCEPT !.sys = "freed"]
    BY <1>6, <1>11
  <2> QED BY <1>7, <1>8, <2>1, AlikeTwice DEF Waits
<1>12. CASE new # s.sys /\ new # RELEASED
  <2>1. ChangeSys(s, new) = at_enqueue_hangup(u, Sys, 0)
    BY <1>6, <1>12
  <2> QED BY <1>7, <1>9, <2>1, AlikeTwice DEF Waits
<1> QED BY <1>10, <1>11, <1>12

-----------------------------------------------------------------------------
(* The invariant.  Indices stay unique if there are enough of them and a   *)
(* call that waits is not reported as incoming; the audio stays in order   *)
(* if a call for which no PBX starts does not occur.                       *)

OneReport == ~Rerings /\ MaxCalls <= MaxIdx

Inv(s) ==
  /\ s \in Device /\ Listing(s)
  /\ OneReport => OneIdx(s)
  /\ "pbx" \notin Failures => Audio(s)

(* Steps that keep its parts keep it.                                      *)
LEMMA PreservesInv ==
  ASSUME NEW s, NEW t, Inv(s), Preserves(s, t) \/ Alike(s, t)
  PROVE  Inv(t)
<1>1. CASE Preserves(s, t)
  BY <1>1 DEF Preserves, Inv
<1>2. CASE Alike(s, t)
  <2>1. s \in Device /\ Listing(s)
    BY DEF Inv
  <2>2. Preserves(s, t)
    BY <1>2, <2>1, AlikePreserves
  <2> QED BY <2>2 DEF Preserves, Inv
<1> QED BY <1>1, <1>2

(* A call that is not in the list can be taken.                            *)
LEMMA UnusedCall ==
  ASSUME NEW s, Unused(s) # {}
  PROVE  LeastOf(Unused(s)) \in CallIds /\ LeastOf(Unused(s)) \notin Listed(s)
<1>1. CallIds \in SUBSET Nat
  BY Limits DEF CallIds
<1>2. Unused(s) \in SUBSET Nat
  BY <1>1 DEF Unused
<1>3. LeastOf(Unused(s)) \in Unused(s)
  BY <1>2, Least
<1> QED BY <1>3 DEF Unused

(* start_pbx, of a call with a new index.                                  *)
LEMMA StartPbxKeeps ==
  ASSUME NEW s, Inv(s), Unused(s) # {}, NEW idx \in Nat, NEW st \in call_state_t \ {RELEASED},
         OneReport => \A d \in Listed(s) : s.call[d].idx # idx,
         NEW t \in start_pbx(s, idx, st)
  PROVE  Inv(t)
<1> DEFINE c == LeastOf(Unused(s))
           a == cpvt_alloc(s, c, idx, "in", FALSE)
           Marked(u) == [u EXCEPT !.call[c].need = TRUE, !.call[c].placed = TRUE]
<1>1. \/ \E u \in cpvt_change_state(a, c, st) : t = Marked(u)
      \/ t = at_enqueue_hangup(s, Sys, idx)
      \/ "pbx" \in Failures /\ \E u \in cpvt_change_state(a, c, st) : t = cpvt_free(Marked(u), c)
  BY DEF start_pbx
<1>2. c \in CallIds /\ c \notin Listed(s)
  BY UnusedCall
<1> HIDE DEF c
<1>3. s \in Device /\ Listing(s)
  BY DEF Inv
<1>4. /\ a \in Device /\ Listing(a) /\ Listed(a) = Listed(s) \union {c}
      /\ OneIdx(s) /\ (\A d \in Listed(s) : s.call[d].idx # idx) => OneIdx(a)
      /\ Audio(s) => Audio(a)
  <2>1. PICK local \in BOOLEAN : local = FALSE
    OBVIOUS
  <2>2. "in" \in {"in", "out"} /\ a = cpvt_alloc(s, c, idx, "in", local)
    BY <2>1
  <2> HIDE DEF a
  <2>3. a \in Device /\ Listing(a) /\ Listed(a) = Listed(s) \union {c}
    BY <1>2, <1>3, <2>2, AllocKeeps
  <2>4. OneIdx(s) /\ (\A d \in Listed(s) : s.call[d].idx # idx) => OneIdx(a)
    BY <1>2, <1>3, <2>2, AllocKeeps
  <2>5. Audio(s) => Audio(a)
    BY <1>2, <1>3, <2>2, AllocKeeps
  <2> QED BY <2>3, <2>4, <2>5
<1> HIDE DEF a
<1>5. Inv(a) /\ c \in Listed(a)
  BY <1>4 DEF Inv
<1>6. ASSUME NEW u \in cpvt_change_state(a, c, st)
      PROVE  Inv(Marked(u)) /\ c \in Listed(Marked(u))
  <2>1. Preserves(a, u) /\ Listed(u) = Listed(a)
    BY <1>4, <1>5, ChangeKeeps
  <2>2. Inv(u) /\ u \in Device /\ u.call[c] \in Call
    BY <1>2, <1>5, <2>1, PreservesInv, Fields DEF Inv
  <2> DEFINE y == [u.call[c] EXCEPT !.need = TRUE, !.placed = TRUE]
  <2>3. Twin(u.call[c], y)
    BY <2>2, Twins
  <2>4. Marked(u) = [u EXCEPT !.call = [u.call EXCEPT ![c] = y]]
    BY <1>2, <2>2
  <2> HIDE DEF y
  <2>5. Alike(u, Marked(u))
    BY <1>2, <2>2, <2>3, <2>4, OneTwin
  <2> HIDE DEF Marked
  <2>6. Inv(Marked(u)) /\ Listed(Marked(u)) = Listed(u)
    BY <2>2, <2>5, PreservesInv, AlikeKeeps
  <2> QED BY <1>5, <2>1, <2>6
<1> HIDE DEF Marked
<1>7. CASE \E u \in cpvt_change_state(a, c, st) : t = Marked(u)
  BY <1>6, <1>7
<1>8. CASE t = at_enqueue_hangup(s, Sys, idx)
  BY <1>3, <1>8, HangupAlike, PreservesInv
<1>9. CASE "pbx" \in Failures /\ \E u \in cpvt_change_state(a, c, st) : t = cpvt_free(Marked(u), c)
  <2>1. PICK u \in cpvt_change_state(a, c, st) : t = cpvt_free(Marked(u), c)
    BY <1>9
  <2>2. Inv(Marked(u)) /\ c \in Listed(Marked(u)) /\ Marked(u) \in Device /\ Listing(Marked(u))
    BY <1>6 DEF Inv
  <2>3. t \in Device /\ Listing(t) /\ (OneIdx(Marked(u)) => OneIdx(t))
    BY <2>1, <2>2, FreeKeeps
  <2> QED BY <1>9, <2>2, <2>3 DEF Inv
<1> QED BY <1>1, <1>7, <1>8, <1>9

(* What follows a change of state in handle_clcc.                          *)
LEMMA FollowsKeeps ==
  ASSUME NEW s, Inv(s), NEW found \in SUBSET Listed(s), NEW idx \in Nat, NEW dir,
         NEW st \in call_state_t, NEW enabled,
         st \in {INCOMING, WAITING} =>
           /\ Unused(s) # {}
           /\ OneReport => \A d \in Listed(s) : s.call[d].idx # idx,
         NEW t \in Follows(s, found, idx, dir, st, enabled)
  PROVE  Inv(t)
<1>0. s \in Device
  BY DEF Inv
<1>1. ASSUME NEW r \in BOOLEAN, NEW d \in BOOLEAN, NEW w \in BOOLEAN
      PROVE  /\ Inv(Flags(s, r, d, w)) /\ Listed(Flags(s, r, d, w)) = Listed(s)
             /\ Unused(Flags(s, r, d, w)) = Unused(s)
             /\ Flags(s, r, d, w).call = s.call
  <2>1. Alike(s, Flags(s, r, d, w))
    BY <1>0, FlagsAlike
  <2>2. Inv(Flags(s, r, d, w)) /\ Listed(Flags(s, r, d, w)) = Listed(s)
    BY <1>0, <2>1, PreservesInv, AlikeKeeps
  <2>3. Flags(s, r, d, w).call = s.call
    BY <1>0 DEF Flags, Device
  <2> QED BY <2>2, <2>3 DEF Unused
<1>2. PICK yes \in BOOLEAN, no \in BOOLEAN : yes = TRUE /\ no = FALSE
  OBVIOUS
<1> DEFINE dialled == Flags(s, FALSE, TRUE, FALSE)
           rung == Flags(s, TRUE, FALSE, FALSE)
           held == Flags(s, FALSE, FALSE, TRUE)
           over == Flags(s, FALSE, FALSE, FALSE)
<1>3. /\ Inv(dialled) /\ Inv(rung) /\ Inv(held) /\ Inv(over)
      /\ Listed(dialled) = Listed(s) /\ Listed(rung) = Listed(s) /\ Listed(held) = Listed(s)
      /\ Unused(rung) = Unused(s) /\ Unused(held) = Unused(s)
      /\ rung.call = s.call /\ held.call = s.call
  <2>1. /\ dialled = Flags(s, no, yes, no) /\ rung = Flags(s, yes, no, no)
        /\ held = Flags(s, no, no, yes) /\ over = Flags(s, no, no, no)
    BY <1>2
  <2> QED BY <1>1, <2>1, Zenon
<1>4. /\ st = DIALING => t = dialled
      /\ st = ALERTING =>
           \/ t = dialled
           \/ found # {} /\ t = Insert(dialled, CHOOSE c \in found : TRUE, <<"CHLD_3">>)
      /\ st = INCOMING => t = rung \/ t \in start_pbx(rung, idx, st)
      /\ st = WAITING => t = held \/ t \in start_pbx(held, idx, st)
      /\ st = RELEASED => t = over
      /\ st \notin {DIALING, ALERTING, INCOMING, WAITING, RELEASED} => t = s
  <2> HIDE DEF dialled, rung, held, over
  <2> DEFINE conf == \E c \in found : s.call[c].opts = "conference"
             task == Insert(dialled, CHOOSE c \in found : TRUE, <<"CHLD_3">>)
             a == start_pbx(rung, idx, st)
             b == start_pbx(held, idx, st)
  <2>1. Follows(s, found, idx, dir, st, enabled) =
          CASE st = DIALING -> {dialled}
            [] st = ALERTING -> {IF conf THEN task ELSE dialled}
            [] st = INCOMING -> IF enabled THEN a ELSE {rung}
            [] st = WAITING -> IF enabled /\ dir = "in" THEN b ELSE {held}
            [] st = RELEASED -> {over}
            [] OTHER -> {s}
    BY DEF Follows, dialled, rung, held, over
  <2>2. conf => found # {}
    OBVIOUS
  <2> HIDE DEF conf, task, a, b
  <2>3. /\ st = DIALING => t = dialled
        /\ st = ALERTING => t = dialled \/ (conf /\ t = task)
        /\ st = INCOMING => t = rung \/ t \in a
        /\ st = WAITING => t = held \/ t \in b
        /\ st = RELEASED => t = over
        /\ st \notin {DIALING, ALERTING, INCOMING, WAITING, RELEASED} => t = s
    BY <2>1 DEF DIALING, ALERTING, INCOMING, WAITING, RELEASED
  <2> QED BY <2>2, <2>3 DEF task, a, b
<1> HIDE DEF dialled, rung, held, over
<1>5. CASE st = ALERTING /\ t # dialled
  <2> DEFINE c == CHOOSE c \in found : TRUE
  <2>1. found # {} /\ t = Insert(dialled, c, <<"CHLD_3">>)
    BY <1>4, <1>5
  <2>2. c \in found
    BY <2>1
  <2> HIDE DEF c
  <2>3. c \in Listed(dialled) /\ dialled \in Device /\ c \in CallIds
    BY <1>0, <1>3, <2>2, ListedTypes DEF Inv
  <2>4. Alike(dialled, t)
    BY <2>1, <2>3, TaskKinds, InsertAlike
  <2> QED BY <1>3, <2>4, PreservesInv
<1>6. CASE st = INCOMING /\ t # rung
  <2>1. t \in start_pbx(rung, idx, st) /\ st \in call_state_t \ {RELEASED}
    BY <1>4, <1>6 DEF call_state_t, INCOMING, RELEASED
  <2>2. Unused(rung) # {} /\ (OneReport => \A d \in Listed(rung) : rung.call[d].idx # idx)
    BY <1>3, <1>6
  <2> QED BY <1>3, <2>1, <2>2, StartPbxKeeps
<1>7. CASE st = WAITING /\ t # held
  <2>1. t \in start_pbx(held, idx, st) /\ st \in call_state_t \ {RELEASED}
    BY <1>4, <1>7 DEF call_state_t, WAITING, RELEASED
  <2>2. Unused(held) # {} /\ (OneReport => \A d \in Listed(held) : held.call[d].idx # idx)
    BY <1>3, <1>7
  <2> QED BY <1>3, <2>1, <2>2, StartPbxKeeps
<1> QED BY <1>3, <1>4, <1>5, <1>6, <1>7

-----------------------------------------------------------------------------
(* handle_clcc.                                                            *)

(* The call of an index.                                                   *)
LEMMA FoundByIdx ==
  ASSUME NEW s \in Device, NEW idx
  PROVE  /\ FindByIdx(s, idx) \subseteq Listed(s)
         /\ FindByIdx(s, idx) = {} => \A d \in Listed(s) : s.call[d].idx # idx
<1> DEFINE at == {i \in DOMAIN s.chans : s.call[s.chans[i]].idx = idx}
<1>1. at \in SUBSET Nat
  BY Fields, LenProperties
<1>2. CASE at = {}
  BY <1>2, Zenon DEF FindByIdx, Listed
<1>3. CASE at # {}
  <2>1. LeastOf(at) \in at
    BY <1>1, <1>3, Least
  <2>2. FindByIdx(s, idx) = {s.chans[LeastOf(at)]}
    BY <1>3, Zenon DEF FindByIdx
  <2>3. s.chans[LeastOf(at)] \in Listed(s)
    BY <2>1, Zenon DEF Listed
  <2> QED BY <2>2, <2>3, Zenon
<1> QED BY <1>2, <1>3

(* A bounded set of numbers has a largest one.                             *)
LEMMA Greatest ==
  ASSUME NEW n \in Nat, NEW S \in SUBSET (1 .. n), S # {}
  PROVE  \E i \in S : \A j \in S : j <= i
<1> DEFINE T == {n - x : x \in S}
<1>1. T \in SUBSET Nat /\ T # {}
  OBVIOUS
<1>2. LeastOf(T) \in T /\ \A j \in T : LeastOf(T) <= j
  BY <1>1, Least
<1>3. PICK i \in S : LeastOf(T) = n - i
  BY <1>2
<1>4. ASSUME NEW j \in S
      PROVE  j <= i
  <2>1. n - i <= n - j
    BY <1>2, <1>3
  <2> QED BY <2>1
<1> QED BY <1>4

(* The call that was made last.                                            *)
LEMMA FoundLast ==
  ASSUME NEW s \in Device
  PROVE  FindLastInitialized(s) \subseteq Listed(s)
<1> DEFINE at == {i \in DOMAIN s.chans : s.call[s.chans[i]].state # WAITING}
           l == CHOOSE i \in at : \A j \in at : j <= i
<1>1. Len(s.chans) \in Nat /\ at \in SUBSET (1 .. Len(s.chans))
  BY Fields, LenProperties
<1>2. CASE at = {}
  BY <1>2, Zenon DEF FindLastInitialized
<1>3. CASE at # {}
  <2>1. \E i \in at : \A j \in at : j <= i
    BY <1>1, <1>3, Greatest
  <2>2. l \in at
    BY <2>1, Zenon
  <2>3. FindLastInitialized(s) = {s.chans[l]}
    BY <1>3, Zenon DEF FindLastInitialized
  <2>4. s.chans[l] \in Listed(s)
    BY <2>2, Zenon DEF Listed
  <2> QED BY <2>3, <2>4, Zenon
<1> QED BY <1>2, <1>3

(* The modem gives a call the index by which it knows it.                  *)
LEMMA NumberedKeeps ==
  ASSUME NEW s, Inv(s), NEW c \in Listed(s), NEW idx \in Nat,
         \A d \in Listed(s) : s.call[d].idx # idx,
         NEW t, t = [s EXCEPT !.call[c].idx = idx]
  PROVE  Inv(t) /\ Listed(t) = Listed(s)
<1>0. s \in Device /\ Listing(s) /\ c \in CallIds
  BY ListedTypes DEF Inv
<1> DEFINE y == [s.call[c] EXCEPT !.idx = idx]
           f == [s.call EXCEPT ![c] = y]
<1>1. s.call[c] \in Call
  BY <1>0, Fields
<1>2. /\ y \in Call /\ y.idx = idx /\ y.act = s.call[c].act /\ y.master = s.call[c].master
      /\ y.fd = s.call[c].fd /\ y.chan = s.call[c].chan
  BY <1>1 DEF Call
<1>3. t = [s EXCEPT !.call = f]
  BY <1>0
<1> HIDE DEF y
<1>4. f \in [CallIds -> Call] /\ f[c] = y /\ \A d \in CallIds \ {c} : f[d] = s.call[d]
  BY <1>0, <1>2, Fields
<1> HIDE DEF f
<1>5. /\ t \in Device /\ t.chans = s.chans /\ t.chansno = s.chansno /\ t.buf = s.buf
      /\ t.capture = s.capture /\ t.mix = s.mix /\ t.call = f /\ t.queue = s.queue
  BY <1>0, <1>3, <1>4 DEF Device
<1>6. Listed(t) = Listed(s)
  BY <1>5 DEF Listed
<1>7. Listing(t)
  BY <1>0, <1>5, <1>6 DEF Listing, Owners
<1>8. \A d \in Listed(s) : d = c \/ t.call[d] = s.call[d]
  BY <1>0, <1>4, <1>5, ListedTypes
<1>9. t.call[c] = y
  BY <1>4, <1>5
<1>10. OneIdx(s) => OneIdx(t)
  BY <1>2, <1>6, <1>8, <1>9 DEF OneIdx
<1>11. \A d \in Listed(s) : /\ t.call[d].act = s.call[d].act /\ t.call[d].master = s.call[d].master
                            /\ t.call[d].fd = s.call[d].fd /\ t.call[d].chan = s.call[d].chan
  BY <1>2, <1>8, <1>9
<1>12. Audio(s) => Audio(t)
  BY <1>5, <1>6, <1>11, SMTT(30) DEF Audio
<1> QED BY <1>5, <1>6, <1>7, <1>10, <1>12 DEF Inv

(* A report of a call that is known.                                       *)
LEMMA KnownKeeps ==
  ASSUME NEW s, Inv(s), NEW c \in Listed(s), NEW idx \in Nat, NEW dir, NEW st \in call_state_t,
         NEW mpty, NEW enabled,
         st \in {INCOMING, WAITING} => Unused(s) # {},
         OneReport /\ st \in {INCOMING, WAITING} /\ dir = s.call[c].dir => s.call[c].state = st,
         NEW t \in ClccKnown(s, c, idx, dir, st, mpty, enabled)
  PROVE  Inv(t)
<1>0. s \in Device /\ Listing(s)
  BY DEF Inv
<1>1. \/ t = s
      \/ t = at_enqueue_hangup(s, Sys, idx)
      \/ /\ st # s.call[c].state /\ dir = s.call[c].dir
         /\ \E u \in cpvt_change_state(s, c, st) :
              t \in Follows(u, {c} \intersect Listed(u), idx, dir, st, enabled)
  BY DEF ClccKnown
<1>2. CASE t = s
  BY <1>2
<1>3. CASE t = at_enqueue_hangup(s, Sys, idx)
  BY <1>0, <1>3, HangupAlike, PreservesInv
<1>4. CASE /\ st # s.call[c].state /\ dir = s.call[c].dir
           /\ \E u \in cpvt_change_state(s, c, st) :
                t \in Follows(u, {c} \intersect Listed(u), idx, dir, st, enabled)
  <2>1. PICK u \in cpvt_change_state(s, c, st) :
               t \in Follows(u, {c} \intersect Listed(u), idx, dir, st, enabled)
    BY <1>4
  <2>2. Preserves(s, u)
    BY <1>0, ChangeKeeps
  <2>3. Inv(u) /\ Unused(s) \subseteq Unused(u)
    BY <2>2, PreservesInv DEF Preserves, Unused
  <2>4. st \in {INCOMING, WAITING} =>
          /\ Unused(u) # {}
          /\ OneReport => \A d \in Listed(u) : u.call[d].idx # idx
    BY <1>4, <2>3
  <2>5. {c} \intersect Listed(u) \in SUBSET Listed(u)
    OBVIOUS
  <2> QED BY <2>1, <2>3, <2>4, <2>5, FollowsKeeps
<1> QED BY <1>1, <1>2, <1>3, <1>4

(* A report of a call that is not.                                         *)
LEMMA UnknownKeeps ==
  ASSUME NEW s, Inv(s), NEW idx \in Nat, NEW dir, NEW st \in call_state_t, NEW mpty, NEW enabled,
         st \in {INCOMING, WAITING} => Unused(s) # {},
         \A d \in Listed(s) : s.call[d].idx # idx,
         NEW t \in ClccUnknown(s, idx, dir, st, mpty, enabled)
  PROVE  Inv(t)
<1>0. s \in Device /\ Listing(s)
  BY DEF Inv
<1>1. CASE st \notin {DIALING, ALERTING}
  <2>1. t \in Follows(s, {}, idx, dir, st, enabled)
    BY <1>1 DEF ClccUnknown
  <2>2. {} \in SUBSET Listed(s)
    OBVIOUS
  <2> QED BY <2>1, <2>2, FollowsKeeps
<1>2. CASE st \in {DIALING, ALERTING}
  <2> DEFINE found == IF mpty = "yes" /\ ~Multiparty THEN {} ELSE FindLastInitialized(s)
             c == CHOOSE c \in found : TRUE
             n == [s EXCEPT !.call[c].idx = idx]
  <2>1. \/ t = at_enqueue_hangup(s, Sys, idx)
        \/ found # {} /\ t = n
        \/ found # {} /\ \E u \in cpvt_change_state(n, c, st) :
                           t \in Follows(u, {c}, idx, dir, st, enabled)
    BY <1>2 DEF ClccUnknown
  <2>2. found \subseteq Listed(s)
    BY <1>0, FoundLast
  <2> HIDE DEF found
  <2>3. found # {} => c \in Listed(s)
    BY <2>2
  <2> HIDE DEF c
  <2>4. found # {} => Inv(n) /\ Listed(n) = Listed(s)
    BY <2>3, NumberedKeeps
  <2> HIDE DEF n
  <2>5. CASE t = at_enqueue_hangup(s, Sys, idx)
    BY <1>0, <2>5, HangupAlike, PreservesInv
  <2>6. CASE found # {} /\ t = n
    BY <2>4, <2>6
  <2>7. CASE found # {} /\ \E u \in cpvt_change_state(n, c, st) :
                             t \in Follows(u, {c}, idx, dir, st, enabled)
    <3>1. PICK u \in cpvt_change_state(n, c, st) : t \in Follows(u, {c}, idx, dir, st, enabled)
      BY <2>7
    <3>2. n \in Device /\ Listing(n) /\ c \in Listed(n) /\ Inv(n)
      BY <2>3, <2>4, <2>7 DEF Inv
    <3>3. st # RELEASED /\ st \notin {INCOMING, WAITING}
      BY <1>2 DEF DIALING, ALERTING, RELEASED, INCOMING, WAITING
    <3>4. Preserves(n, u) /\ Listed(u) = Listed(n)
      BY <3>2, <3>3, ChangeKeeps
    <3>5. Inv(u) /\ {c} \in SUBSET Listed(u)
      BY <3>2, <3>4, PreservesInv
    <3> QED BY <3>1, <3>3, <3>5, FollowsKeeps
  <2> QED BY <2>1, <2>5, <2>6, <2>7
<1> QED BY <1>1, <1>2

(* A report that the modem makes.                                          *)
LEMMA ReportKeeps ==
  ASSUME Inv(dev), Report
  PROVE  Inv(dev')
<1>1. PICK idx \in Indices, dir \in {"in", "out"}, st \in Reported, mpty \in Multi, enabled \in Enabled :
        Plausible(dev, idx, dir, st) /\ dev' \in handle_clcc(dev, idx, dir, st, mpty, enabled)
  BY DEF Report, Step
<1>2. idx \in Nat /\ st \in call_state_t
  BY CallsAssumption, Zenon
<1>3. dev \in Device
  BY DEF Inv
<1>4. /\ FindByIdx(dev, idx) \subseteq Listed(dev)
      /\ FindByIdx(dev, idx) = {} => \A d \in Listed(dev) : dev.call[d].idx # idx
  BY <1>3, FoundByIdx
<1>5. st \in {INCOMING, WAITING} => dir = "in" /\ Unused(dev) # {}
  BY <1>1 DEF Plausible
<1>6. CASE FindByIdx(dev, idx) = {}
  <2>1. dev' \in ClccUnknown(dev, idx, dir, st, mpty, enabled)
    BY <1>1, <1>6 DEF handle_clcc
  <2> QED BY <1>2, <1>4, <1>5, <1>6, <2>1, UnknownKeeps
<1>7. CASE FindByIdx(dev, idx) # {}
  <2> DEFINE c == CHOOSE c \in FindByIdx(dev, idx) : TRUE
  <2>1. dev' \in ClccKnown(dev, c, idx, dir, st, mpty, enabled)
    BY <1>1, <1>7 DEF handle_clcc
  <2>2. c \in FindByIdx(dev, idx)
    BY <1>7
  <2> HIDE DEF c
  <2>3. OneReport /\ st \in {INCOMING, WAITING} /\ dir = dev.call[c].dir => dev.call[c].state = st
    BY <1>1, <1>5, <2>2 DEF Plausible, OneReport
  <2> QED BY <1>2, <1>4, <1>5, <2>1, <2>2, <2>3, KnownKeeps
<1> QED BY <1>6, <1>7

-----------------------------------------------------------------------------
(* The callbacks of the channel.                                           *)

(* While there is room for a call, there is an index for it.               *)
LEMMA PseudoIdx ==
  ASSUME NEW s \in Device, Listing(s), NEW c \in CallIds, c \notin Listed(s)
  PROVE  /\ pvt_get_pseudo_call_idx(s) \in Nat
         /\ MaxCalls <= MaxIdx =>
              \A d \in Listed(s) : s.call[d].idx # pvt_get_pseudo_call_idx(s)
<1> DEFINE free == {i \in 1 .. MaxIdx : \A d \in Listed(s) : s.call[d].idx # i}
<1>0. MaxIdx \in Nat
  BY CallsAssumption, Zenon
<1>1. free \in SUBSET Nat
  BY <1>0
<1>2. free # {} => LeastOf(free) \in free
  BY <1>1, Least
<1>3. pvt_get_pseudo_call_idx(s) = IF free = {} THEN 0 ELSE LeastOf(free)
  BY DEF pvt_get_pseudo_call_idx
<1>4. ASSUME MaxCalls <= MaxIdx, free = {}
      PROVE  FALSE
  <2> DEFINE f == [i \in 1 .. MaxIdx |-> CHOOSE d \in Listed(s) : s.call[d].idx = i]
             T == CallIds \ {c}
  <2>1. \A i \in 1 .. MaxIdx : f[i] \in Listed(s) /\ s.call[f[i]].idx = i
    BY <1>4
  <2>2. Listed(s) \subseteq T
    BY ListedTypes
  <2>3. f \in [1 .. MaxIdx -> T]
    BY <2>1, <2>2
  <2>4. IsFiniteSet(T) /\ Cardinality(T) = MaxCalls - 1
    BY Limits, FS_RemoveElement
  <2>5. IsFiniteSet(1 .. MaxIdx) /\ Cardinality(1 .. MaxIdx) = MaxIdx
    BY <1>0, FS_Interval
  <2>6. Cardinality(T) < Cardinality(1 .. MaxIdx)
    BY <1>0, <1>4, <2>4, <2>5, Limits
  <2> HIDE DEF f, T
  <2>7. \E i, j \in 1 .. MaxIdx : i # j /\ f[i] = f[j]
    BY <2>3, <2>4, <2>5, <2>6, FS_PigeonHole
  <2> QED BY <2>1, <2>7
<1>5. pvt_get_pseudo_call_idx(s) \in Nat
  BY <1>1, <1>2, <1>3
<1>6. ASSUME MaxCalls <= MaxIdx, NEW d \in Listed(s)
      PROVE  s.call[d].idx # pvt_get_pseudo_call_idx(s)
  BY <1>2, <1>3, <1>4, <1>6
<1> QED BY <1>5, <1>6

LEMMA RequestKeeps ==
  ASSUME Inv(dev), Request
  PROVE  Inv(dev')
<1> DEFINE c == LeastOf(Unused(dev))
           idx == pvt_get_pseudo_call_idx(dev)
<1>1. PICK local \in Locals : Unused(dev) # {} /\ dev' = cpvt_alloc(dev, c, idx, "out", local)
  BY DEF Request, Step
<1>2. local \in BOOLEAN /\ "out" \in {"in", "out"}
  BY CallsAssumption, Zenon
<1>3. c \in CallIds /\ c \notin Listed(dev)
  BY <1>1, UnusedCall
<1> HIDE DEF c
<1>4. dev \in Device /\ Listing(dev)
  BY DEF Inv
<1>5. idx \in Nat /\ (MaxCalls <= MaxIdx => \A d \in Listed(dev) : dev.call[d].idx # idx)
  BY <1>3, <1>4, PseudoIdx
<1> HIDE DEF idx
<1>6. dev' \in Device /\ Listing(dev')
  BY <1>1, <1>2, <1>3, <1>4, <1>5, AllocKeeps
<1>7. OneIdx(dev) /\ (\A d \in Listed(dev) : dev.call[d].idx # idx) => OneIdx(dev')
  BY <1>1, <1>2, <1>3, <1>4, <1>5, AllocKeeps
<1>8. Audio(dev) => Audio(dev')
  BY <1>1, <1>2, <1>3, <1>4, <1>5, AllocKeeps
<1> QED BY <1>5, <1>6, <1>7, <1>8 DEF Inv, OneReport

LEMMA DialKeeps ==
  ASSUME Inv(dev), NEW c \in CallIds, Dial(c)
  PROVE  Inv(dev')
<1> DEFINE s(opts) == [dev EXCEPT !.call[c].opts = opts]
           y(opts) == [dev.call[c] EXCEPT !.opts = opts]
<1>1. PICK opts \in Options : dev' = at_enqueue_dial(s(opts), c) /\ c \in Listed(dev)
  BY DEF Dial, Step
<1>2. opts \in {"", "holdother", "conference"}
  BY CallsAssumption, Zenon
<1>3. dev \in Device /\ dev.call[c] \in Call
  BY Fields DEF Inv
<1>4. Twin(dev.call[c], y(opts))
  BY <1>2, <1>3, Twins
<1>5. s(opts) = [dev EXCEPT !.call = [dev.call EXCEPT ![c] = y(opts)]]
  BY <1>3
<1> HIDE DEF y
<1>6. Alike(dev, s(opts))
  BY <1>3, <1>4, <1>5, OneTwin
<1> HIDE DEF s
<1>7. s(opts) \in Device /\ c \in Listed(s(opts))
  BY <1>1, <1>3, <1>6, AlikeKeeps DEF Alike
<1>8. Alike(s(opts), dev')
  BY <1>1, <1>7, DialAlike
<1> QED BY <1>6, <1>8, PreservesInv

(* The audio does not depend on the channel of a call that has none.       *)
LEMMA AudioStays ==
  ASSUME NEW s, NEW t, NEW c, Listed(t) = Listed(s), t.capture = s.capture, t.mix = s.mix,
         ~s.call[c].act, Audio(s),
         \A d \in Listed(s) : t.call[d].act = s.call[d].act /\ t.call[d].master = s.call[d].master,
         \A d \in Listed(s) : t.call[d].fd = "audio" => s.call[d].fd = "audio",
         \A d \in Listed(s) : d = c \/ t.call[d].chan = s.call[d].chan
  PROVE  Audio(t)
<1>1. /\ \A a, b \in Listed(t) : t.call[a].master => t.call[a].act /\ (t.call[b].master => a = b)
      /\ \A a \in Listed(t) : t.call[a].act => t.call[a].chan
  BY DEF Audio
<1>2. Uac => /\ t.capture <=> \E a \in Listed(t) : t.call[a].master
             /\ \A a \in Listed(t) : t.call[a].fd = "audio" => t.call[a].master
  BY DEF Audio
<1>3. Mixing => t.mix = {a \in Listed(t) : t.call[a].act}
  BY DEF Audio
<1> QED BY <1>1, <1>2, <1>3 DEF Audio

(* A call without audio loses its channel.                                 *)
Detached(s, c) ==
  [s EXCEPT !.call[c].chan = FALSE, !.call[c].fd = "none", !.call[c].hup = FALSE]

LEMMA DetachKeeps ==
  ASSUME NEW s, Inv(s), NEW c \in Listed(s), ~s.call[c].act,
         NEW t, t = Detached(s, c)
  PROVE  Inv(t)
<1>0. s \in Device /\ Listing(s) /\ c \in CallIds
  BY ListedTypes DEF Inv
<1> DEFINE y == [s.call[c] EXCEPT !.chan = FALSE, !.fd = "none", !.hup = FALSE]
           f == [s.call EXCEPT ![c] = y]
<1>1. s.call[c] \in Call
  BY <1>0, Fields
<1>2. /\ y \in Call /\ y.idx = s.call[c].idx /\ y.act = s.call[c].act
      /\ y.master = s.call[c].master /\ y.fd = "none"
  BY <1>1 DEF Call
<1>3. t = [s EXCEPT !.call = f]
  BY <1>0 DEF Detached
<1> HIDE DEF y
<1>4. f \in [CallIds -> Call] /\ f[c] = y /\ \A d \in CallIds \ {c} : f[d] = s.call[d]
  BY <1>0, <1>2, Fields
<1> HIDE DEF f
<1>5. /\ t \in Device /\ t.chans = s.chans /\ t.chansno = s.chansno /\ t.buf = s.buf
      /\ t.capture = s.capture /\ t.mix = s.mix /\ t.call = f /\ t.queue = s.queue
  BY <1>0, <1>3, <1>4 DEF Device
<1>6. SameList(s, t)
  BY <1>2, <1>4, <1>5 DEF SameList
<1>7. Listing(t) /\ Listed(t) = Listed(s) /\ (OneIdx(s) => OneIdx(t))
  BY <1>0, <1>6, SameListKeeps
<1>8. \A d \in Listed(s) : d = c \/ t.call[d] = s.call[d]
  BY <1>0, <1>4, <1>5, ListedTypes
<1>9. t.call[c] = y
  BY <1>4, <1>5
<1>10. /\ \A d \in Listed(s) : t.call[d].act = s.call[d].act /\ t.call[d].master = s.call[d].master
       /\ \A d \in Listed(s) : t.call[d].fd = "audio" => s.call[d].fd = "audio"
       /\ \A d \in Listed(s) : d = c \/ t.call[d].chan = s.call[d].chan
  BY <1>2, <1>8, <1>9
<1>11. Audio(s) => Audio(t)
  BY <1>5, <1>7, <1>10, AudioStays, SMTT(30)
<1> QED BY <1>5, <1>7, <1>11 DEF Inv

LEMMA HangupKeeps ==
  ASSUME Inv(dev), NEW c \in CallIds, Hangup(c)
  PROVE  Inv(dev')
<1> DEFINE h == at_enqueue_hangup(dev, c, dev.call[c].idx)
           s == IF dev.call[c].need THEN [h EXCEPT !.call[c].need = FALSE] ELSE dev
           v == cpvt_call_disactivate(s, c)
<1>1. /\ c \in Listed(dev)
      /\ dev' = [v EXCEPT !.call[c].chan = FALSE, !.call[c].fd = "none", !.call[c].hup = FALSE]
  BY DEF Hangup, Step
<1>2. dev \in Device
  BY DEF Inv
<1>3. Alike(dev, h) /\ h \in Device
  <2>1. Alike(dev, h)
    BY <1>1, <1>2, HangupAlike
  <2> QED BY <2>1, SMTT(30) DEF Alike
<1> HIDE DEF h
<1>4. Alike(h, [h EXCEPT !.call[c].need = FALSE])
  <2> DEFINE y == [h.call[c] EXCEPT !.need = FALSE]
  <2>1. Twin(h.call[c], y)
    BY <1>3, Fields, Twins
  <2>2. [h EXCEPT !.call[c].need = FALSE] = [h EXCEPT !.call = [h.call EXCEPT ![c] = y]]
    BY <1>3
  <2> HIDE DEF y
  <2> QED BY <1>3, <2>1, <2>2, OneTwin
<1>5. Alike(dev, s)
  BY <1>2, <1>3, <1>4, AlikeTwice, AlikeSelf
<1> HIDE DEF s
<1>6. Inv(s) /\ c \in Listed(s) /\ s \in Device /\ Listing(s)
  BY <1>1, <1>2, <1>5, PreservesInv, AlikeKeeps DEF Inv
<1>7. Preserves(s, v) /\ Listed(v) = Listed(s) /\ ~v.call[c].act
  BY <1>6, DisactivateKeeps
<1> HIDE DEF v
<1>8. Inv(v)
  BY <1>6, <1>7, PreservesInv
<1>9. dev' = Detached(v, c)
  BY <1>1 DEF Detached
<1> QED BY <1>6, <1>7, <1>8, <1>9, DetachKeeps

LEMMA AnswerKeeps ==
  ASSUME Inv(dev), NEW c \in CallIds, Answer(c) \/ Activate(c)
  PROVE  Inv(dev')
<1>1. c \in Listed(dev) /\ dev \in Device
  BY DEF Inv, Answer, Activate
<1>2. dev' = Insert(dev, c, <<"A">>) \/ dev' = Insert(dev, c, <<"CHLD_2x">>)
  BY DEF Answer, Activate, Step
<1>3. Alike(dev, dev')
  BY <1>1, <1>2, TaskKinds, InsertAlike
<1> QED BY <1>3, PreservesInv

LEMMA CaptureLostKeeps ==
  ASSUME Inv(dev), NEW c \in CallIds, CaptureLost(c)
  PROVE  Inv(dev')
<1> DEFINE v == cpvt_call_disactivate(dev, c)
           y == [v.call[c] EXCEPT !.hup = TRUE]
<1>1. c \in Listed(dev) /\ dev' = [v EXCEPT !.call[c].hup = TRUE]
  BY DEF CaptureLost, Step
<1>2. dev \in Device /\ Listing(dev)
  BY DEF Inv
<1>3. Preserves(dev, v)
  BY <1>1, <1>2, DisactivateKeeps
<1> HIDE DEF v
<1>4. Inv(v) /\ v \in Device
  BY <1>3, PreservesInv DEF Preserves
<1>5. Twin(v.call[c], y)
  BY <1>4, Fields, Twins
<1>6. dev' = [v EXCEPT !.call = [v.call EXCEPT ![c] = y]]
  BY <1>1, <1>4
<1> HIDE DEF y
<1>7. Alike(v, dev')
  BY <1>4, <1>5, <1>6, OneTwin
<1> QED BY <1>4, <1>7, PreservesInv

-----------------------------------------------------------------------------
(* The results of commands.                                                *)

(* The owner of the command at the head is sys_chan or a call in the list. *)
LEMMA OwnerIsListed ==
  ASSUME Inv(dev), dev.queue # <<>>
  PROVE  /\ Owner \in Listed(dev) \union {Sys} /\ Owner \in CallIds \union {Sys}
         /\ dev \in Device /\ Listing(dev)
<1>1. dev \in Device /\ Listing(dev)
  BY DEF Inv
<1>2. dev.queue \in Seq(Tasks) /\ Head(dev.queue) = dev.queue[1] /\ 1 \in DOMAIN dev.queue
  BY <1>1, Fields, HeadTailProperties, LenProperties, EmptySeq
<1>3. Owner \in Owners(dev)
  BY <1>2, Zenon DEF Owner, Owners
<1>4. Owner \in Listed(dev) \union {Sys}
  BY <1>1, <1>3 DEF Listing
<1> QED BY <1>1, <1>4, ListedTypes

(* The command, or the task, goes.                                         *)
LEMMA HeadGoes ==
  ASSUME NEW s, Inv(s), s.queue # <<>>
  PROVE  Inv(NextCommand(s)) /\ Inv(NextTask(s))
<1>1. s \in Device
  BY DEF Inv
<1> QED BY <1>1, CommandGoes, TaskGoes, PreservesInv

(* Marks on its owner.                                                     *)
LEMMA MarkKeeps ==
  ASSUME NEW s, Inv(s), NEW c \in CallIds \union {Sys}, NEW b \in BOOLEAN
  PROVE  /\ Inv(SetNeed(s, c, b)) /\ SetNeed(s, c, b).queue = s.queue
         /\ Inv(QueueHangup(s, c)) /\ QueueHangup(s, c).queue = s.queue
<1>1. s \in Device
  BY DEF Inv
<1>2. Alike(s, SetNeed(s, c, b)) /\ Alike(s, QueueHangup(s, c))
  BY <1>1, MarkAlike
<1>3. SetNeed(s, c, b).queue = s.queue /\ QueueHangup(s, c).queue = s.queue
  BY <1>1 DEF SetNeed, QueueHangup, Device
<1> QED BY <1>2, <1>3, PreservesInv

(* The owner of a command changes its state.                               *)
LEMMA OwnerChanges ==
  ASSUME NEW s, Inv(s), NEW c \in Listed(s) \union {Sys}, NEW new \in call_state_t, s.sys # "freed",
         s.queue # <<>>, NEW t \in IF c = Sys THEN {ChangeSys(s, new)} ELSE cpvt_change_state(s, c, new)
  PROVE  Inv(t) /\ t.queue # <<>>
<1>1. s \in Device /\ Listing(s)
  BY DEF Inv
<1>2. CASE c = Sys
  <2>1. t = ChangeSys(s, new)
    BY <1>2
  <2> QED BY <1>1, <2>1, ChangeSysAlike, PreservesInv DEF Waits
<1>3. CASE c # Sys
  <2>1. c \in Listed(s) /\ t \in cpvt_change_state(s, c, new)
    BY <1>3
  <2>2. Preserves(s, t) /\ Waits(s, t)
    BY <1>1, <2>1, ChangeKeeps
  <2> QED BY <2>2, PreservesInv DEF Waits
<1> QED BY <1>2, <1>3

LEMMA ResultOkKeeps ==
  ASSUME Inv(dev), ResultOk
  PROVE  Inv(dev')
<1> DEFINE c == Owner
           s == [dev EXCEPT !.dialing = TRUE]
           D == IF c = Sys THEN {ChangeSys(s, DIALING)} ELSE cpvt_change_state(s, c, DIALING)
<1>1. dev.queue # <<>> /\ dev.sys # "freed"
  BY DEF ResultOk
<1>2. PICK t : /\ dev' = NextCommand(t)
               /\ \/ \E u \in D : t = SetNeed(u, c, TRUE)
                  \/ t = SetNeed(dev, c, TRUE)
                  \/ t = SetNeed(dev, c, FALSE)
                  \/ t = dev
  <2> HIDE DEF D, c
  <2> DEFINE S1 == {SetNeed(u, c, TRUE) : u \in D}
             changed == CASE Cmd = "D" -> S1
                          [] Cmd \in {"A", "CHLD_2x"} -> {SetNeed(dev, c, TRUE)}
                          [] Cmd \in {"HUP", "CHLD_1x"} -> {SetNeed(dev, c, FALSE)}
                          [] OTHER -> {dev}
  <2>1. dev' \in {NextCommand(t) : t \in changed}
    BY DEF ResultOk, Step, D, c
  <2> HIDE DEF S1
  <2>2. \A t \in changed : t \in S1 \/ t = SetNeed(dev, c, TRUE) \/ t = SetNeed(dev, c, FALSE) \/ t = dev
    OBVIOUS
  <2> HIDE DEF changed
  <2>3. PICK t \in changed : dev' = NextCommand(t)
    BY <2>1
  <2> QED BY <2>2, <2>3 DEF S1
<1>3. /\ c \in Listed(dev) \union {Sys} /\ c \in CallIds \union {Sys}
      /\ dev \in Device /\ Listing(dev)
  BY <1>1, OwnerIsListed
<1> HIDE DEF c
<1>4. Alike(dev, s)
  BY <1>3, FlagAlike
<1>5. s.queue = dev.queue /\ s.sys = dev.sys
  BY <1>3 DEF Device
<1> HIDE DEF s
<1>6. Inv(s) /\ c \in Listed(s) \union {Sys}
  BY <1>3, <1>4, PreservesInv, AlikeKeeps
<1>7. DIALING \in call_state_t
  BY DEF call_state_t
<1>8. \A u \in D : Inv(u) /\ u.queue # <<>>
  BY <1>1, <1>5, <1>6, <1>7, OwnerChanges
<1> HIDE DEF D
<1>9. \A u, b : Inv(u) /\ u.queue # <<>> /\ b \in BOOLEAN =>
        Inv(SetNeed(u, c, b)) /\ SetNeed(u, c, b).queue # <<>>
  BY <1>3, MarkKeeps
<1>10. Inv(t) /\ t.queue # <<>>
  <2>1. \A u : Inv(u) /\ u.queue # <<>> => /\ Inv(SetNeed(u, c, TRUE)) /\ SetNeed(u, c, TRUE).queue # <<>>
                                          /\ Inv(SetNeed(u, c, FALSE)) /\ SetNeed(u, c, FALSE).queue # <<>>
    BY <1>9
  <2> QED BY <1>1, <1>2, <1>8, <2>1
<1> QED BY <1>2, <1>10, HeadGoes

LEMMA ResultErrorKeeps ==
  ASSUME Inv(dev), ResultError
  PROVE  Inv(dev')
<1> DEFINE c == Owner
           D == IF c = Sys THEN {ChangeSys(dev, RELEASED)} ELSE cpvt_change_state(dev, c, RELEASED)
<1>1. dev.queue # <<>> /\ dev.sys # "freed"
  BY DEF ResultError
<1>2. PICK t : dev' = NextTask(t) /\ (t \in D \/ t = QueueHangup(dev, c) \/ t = dev)
  <2> HIDE DEF D, c
  <2> DEFINE ends == Cmd = "D" \/ (Cmd = "CHLD_2" /\ c # Sys /\ dev.call[c].opts # ""
                                    /\ dev.call[c].state = INIT)
             changed == CASE Cmd \in {"A", "CHLD_2x", "CHLD_3"} -> {QueueHangup(dev, c)}
                          [] ends -> D
                          [] OTHER -> {dev}
  <2>1. dev' \in {NextTask(t) : t \in changed}
    BY DEF ResultError, Step, D, c
  <2>2. Cmd \in {"A", "CHLD_2x", "CHLD_3"} => ~ends
    OBVIOUS
  <2> HIDE DEF ends
  <2>3. \A t \in changed : t \in D \/ t = QueueHangup(dev, c) \/ t = dev
    BY <2>2
  <2> HIDE DEF changed
  <2>4. PICK t \in changed : dev' = NextTask(t)
    BY <2>1
  <2> QED BY <2>3, <2>4
<1>3. /\ c \in Listed(dev) \union {Sys} /\ c \in CallIds \union {Sys}
      /\ dev \in Device /\ Listing(dev)
  BY <1>1, OwnerIsListed
<1> HIDE DEF c
<1>4. RELEASED \in call_state_t
  BY DEF call_state_t
<1>5. \A u \in D : Inv(u) /\ u.queue # <<>>
  BY <1>1, <1>3, <1>4, OwnerChanges
<1> HIDE DEF D
<1>6. Inv(QueueHangup(dev, c)) /\ QueueHangup(dev, c).queue = dev.queue
  <2>1. PICK b \in BOOLEAN : TRUE
    OBVIOUS
  <2> QED BY <1>3, <2>1, MarkKeeps
<1>7. Inv(t) /\ t.queue # <<>>
  BY <1>1, <1>2, <1>5, <1>6
<1> QED BY <1>2, <1>7, HeadGoes

LEMMA ResultTimeoutKeeps ==
  ASSUME Inv(dev), ResultTimeout
  PROVE  Inv(dev')
<1>1. dev.queue # <<>> /\ dev' = NextTask(dev)
  BY DEF ResultTimeout, Step
<1> QED BY <1>1, HeadGoes

(* The flags are cleared by a reset, and a call that waits sets one.       *)
LEMMA FlagsKeep ==
  ASSUME Inv(dev), Reset \/ CallWaiting
  PROVE  Inv(dev')
<1>1. dev \in Device
  BY DEF Inv
<1>2. dev' = Flags(dev, FALSE, FALSE, FALSE) \/ dev' = [dev EXCEPT !.cwaiting = TRUE]
  BY DEF Reset, CallWaiting, Step
<1>3. Alike(dev, Flags(dev, FALSE, FALSE, FALSE))
  <2>1. PICK no \in BOOLEAN : no = FALSE
    OBVIOUS
  <2>2. Alike(dev, Flags(dev, no, no, no))
    BY <1>1, FlagsAlike
  <2> QED BY <2>1, <2>2
<1>4. Alike(dev, [dev EXCEPT !.cwaiting = TRUE])
  BY <1>1, FlagAlike
<1> QED BY <1>2, <1>3, <1>4, PreservesInv

-----------------------------------------------------------------------------
(* pvt_disconnect.                                                         *)

(* The list is empty afterwards, and the counter of calls is 0.            *)
LEMMA DisconnectKeeps ==
  ASSUME Inv(dev), Disconnect
  PROVE  Inv(dev')
<1> DEFINE in(st) == Cardinality({c \in Listed(dev) : dev.call[c].state = st})
           activated == {c \in Listed(dev) : dev.call[c].act}
           f == [c \in CallIds |-> NoCall]
           k == (dev.chansno + CountValues - Len(dev.chans)) % CountValues
           n == [st \in call_state_t |-> (dev.count[st] + CountValues - in(st)) % CountValues]
           m == IF Mixing THEN dev.mix \ activated ELSE dev.mix
<1>0. dev \in Device /\ Listing(dev) /\ CountValues \in Nat /\ CountValues > 0
  BY Limits DEF Inv
<1>1. dev' = [dev EXCEPT !.ring = FALSE, !.dialing = FALSE, !.cwaiting = FALSE,
                !.chans = <<>>, !.call = f, !.chansno = k, !.count = n, !.mix = m,
                !.queue = <<>>, !.buf = FALSE, !.capture = FALSE]
  BY <1>0 DEF Disconnect, Step, Flags, Device
<1>2. k = 0
  <2>1. dev.chansno = Len(dev.chans) /\ Len(dev.chans) \in Nat
    BY <1>0, Fields, LenProperties DEF Listing
  <2>2. dev.chansno + CountValues - Len(dev.chans) = CountValues * 1 + 0
    BY <1>0, <2>1
  <2> QED BY <1>0, <2>2
<1>3. n \in [call_state_t -> 0 .. CountValues - 1]
  <2>1. ASSUME NEW st \in call_state_t
        PROVE  (dev.count[st] + CountValues - in(st)) % CountValues \in 0 .. CountValues - 1
    <3> DEFINE S == {c \in Listed(dev) : dev.call[c].state = st}
    <3>1. S \subseteq CallIds
      BY <1>0, ListedTypes
    <3>2. IsFiniteSet(S)
      BY <3>1, Limits, FS_Subset
    <3>3. Cardinality(S) \in Nat
      BY <3>2, FS_CardinalityType
    <3> HIDE DEF S
    <3>4. dev.count[st] \in Int
      BY <1>0, Fields
    <3>5. (dev.count[st] + CountValues - Cardinality(S)) % CountValues \in 0 .. CountValues - 1
      BY <1>0, <3>3, <3>4
    <3> QED BY <3>5 DEF S
  <2> QED BY <2>1
<1>4. f \in [CallIds -> Call]
  BY DEF NoCall, Call, call_state_t, RELEASED
<1>5. m \in SUBSET CallIds /\ (Audio(dev) /\ Mixing => m = {})
  BY <1>0, Fields DEF Audio
<1> HIDE DEF f, k, n, m
<1>6. /\ dev' \in Device /\ dev'.chans = <<>> /\ dev'.chansno = k /\ dev'.queue = <<>>
      /\ ~dev'.buf /\ ~dev'.capture /\ dev'.mix = m
  <2>1. <<>> \in Seq(CallIds) /\ <<>> \in Seq(Tasks) /\ k \in 0 .. CountValues - 1
    BY <1>0, <1>2
  <2> QED BY <1>0, <1>1, <1>3, <1>4, <1>5, <2>1 DEF Device
<1>7. Listed(dev') = {} /\ Owners(dev') = {}
  BY <1>6 DEF Listed, Owners
<1>8. Listing(dev') /\ OneIdx(dev')
  BY <1>2, <1>6, <1>7 DEF Listing, OneIdx
<1>9. Audio(dev) => Audio(dev')
  BY <1>5, <1>6, <1>7 DEF Audio
<1> QED BY <1>6, <1>8, <1>9 DEF Inv

-----------------------------------------------------------------------------
(* The theorems.                                                           *)

(* A connected device begins without calls.                                *)
LEMMA InitInv == Init => Inv(dev)
<1> SUFFICES ASSUME Init PROVE Inv(dev)
  OBVIOUS
<1> DEFINE f == [c \in CallIds |-> NoCall]
           n == [st \in call_state_t |-> 0]
<1>0. CountValues \in Nat /\ CountValues > 0
  BY Limits
<1>1. f \in [CallIds -> Call]
  BY DEF NoCall, Call, call_state_t, RELEASED
<1>2. n \in [call_state_t -> 0 .. CountValues - 1] /\ 0 \in 0 .. CountValues - 1
  BY <1>0
<1>3. dev = [chans |-> <<>>, call |-> f, chansno |-> 0, count |-> n,
             ring |-> FALSE, dialing |-> FALSE, cwaiting |-> FALSE, buf |-> FALSE,
             capture |-> FALSE, mix |-> {}, queue |-> <<>>, sys |-> RELEASED]
  BY DEF Init
<1> HIDE DEF f, n
<1>4. /\ dev \in Device /\ dev.chans = <<>> /\ dev.chansno = 0 /\ dev.queue = <<>>
      /\ ~dev.buf /\ ~dev.capture /\ dev.mix = {}
  <2>1. <<>> \in Seq(CallIds) /\ <<>> \in Seq(Tasks) /\ RELEASED \in call_state_t \union {"freed"}
    BY DEF call_state_t
  <2> QED BY <1>1, <1>2, <1>3, <2>1 DEF Device
<1>5. Listed(dev) = {} /\ Owners(dev) = {}
  BY <1>4 DEF Listed, Owners
<1> QED BY <1>4, <1>5 DEF Inv, Listing, OneIdx, Audio

(* Every step keeps the invariant.                                         *)
LEMMA NextInv == Inv(dev) /\ [Next]_vars => Inv(dev')
<1> SUFFICES ASSUME Inv(dev), [Next]_vars PROVE Inv(dev')
  OBVIOUS
<1>1. CASE Channel
  <2>1. CASE Request
    BY <2>1, RequestKeeps
  <2>2. ASSUME NEW c \in CallIds, Dial(c) \/ Hangup(c) \/ Answer(c) \/ Activate(c) \/ CaptureLost(c)
        PROVE  Inv(dev')
    BY <2>2, DialKeeps, HangupKeeps, AnswerKeeps, CaptureLostKeeps
  <2> QED BY <1>1, <2>1, <2>2 DEF Channel
<1>2. CASE Modem
  BY <1>2, ReportKeeps, FlagsKeep, ResultOkKeeps, ResultErrorKeeps, ResultTimeoutKeeps DEF Modem
<1>3. CASE Disconnect
  BY <1>3, DisconnectKeeps
<1>4. CASE UNCHANGED vars
  BY <1>4 DEF vars
<1> QED BY <1>1, <1>2, <1>3, <1>4 DEF Next

CallsInv == Inv(dev)

(* Whatever channels, modem and disconnection do in whatever order, the    *)
(* list, the indices and the audio of a device stay as Inv says.           *)
THEOREM CallsInductive == Spec => []CallsInv
<1>1. Init => CallsInv
  BY InitInv DEF CallsInv
<1>2. CallsInv /\ [Next]_vars => CallsInv'
  BY NextInv DEF CallsInv
<1> QED BY <1>1, <1>2, PTL DEF Spec

(* The record of the device has its type, chansno is the number of calls,  *)
(* and silence_buf, write_buf and the timer are there exactly while the    *)
(* device has calls: cpvt_alloc makes them with the first call and         *)
(* cpvt_free releases them with the last, in whatever order calls come and *)
(* go.  Every task of the queue belongs to a call that is still in the     *)
(* list, or to sys_chan: no command outlives its struct cpvt.              *)
THEOREM ListIsTrue ==
  Spec => [](/\ TypeOK /\ BuffersWhileCalls
             /\ dev.chansno = Len(dev.chans)
             /\ Owners(dev) \subseteq Listed(dev) \union {Sys})
<1>1. CallsInv => /\ TypeOK /\ BuffersWhileCalls
                  /\ dev.chansno = Len(dev.chans)
                  /\ Owners(dev) \subseteq Listed(dev) \union {Sys}
  BY DEF CallsInv, Inv, Listing, TypeOK, BuffersWhileCalls
<1> QED BY <1>1, CallsInductive, PTL

(* Two calls never have the same index, though one side invents indices    *)
(* (pvt_get_pseudo_call_idx) and the other reports them: if there are as   *)
(* many indices as calls, and a call that waits is not reported again as   *)
(* incoming.                                                               *)
THEOREM EveryIdxIsOne ==
  ASSUME MaxCalls <= MaxIdx, ~Rerings
  PROVE  Spec => []UniqueIdx
<1>1. CallsInv => UniqueIdx
  BY DEF CallsInv, Inv, OneReport, OneIdx, UniqueIdx
<1> QED BY <1>1, CallsInductive, PTL

(* The configuration stays.                                                *)
Configured == config = [uac |-> Uac, multiparty |-> Multiparty]

LEMMA ConfiguredAlways == Spec => []Configured
<1>1. Init => Configured
  BY DEF Init, Configured
<1>2. Configured /\ [Next]_vars => Configured'
  BY DEF Next, vars, Configured
<1> QED BY <1>1, <1>2, PTL DEF Spec

(* Call waiting, hold, release and failing capture move the sound source   *)
(* from call to call: there is one at most, ALSA captures exactly while    *)
(* there is one and no other channel polls it, and the mixer has exactly   *)
(* the streams of activated calls (cpvt_call_activate, _disactivate).  A   *)
(* call for which no PBX starts is freed with its audio on, so this is     *)
(* for devices where that does not occur.                                  *)
THEOREM OneSoundSource ==
  ASSUME "pbx" \notin Failures
  PROVE  Spec => []AudioFollowsCalls
<1>1. ASSUME CallsInv, Configured
      PROVE  AudioFollowsCalls
  <2>0. config.uac = Uac /\ config.multiparty = Multiparty
    BY <1>1 DEF Configured
  <2>1. Audio(dev)
    BY <1>1 DEF CallsInv, Inv
  <2>2. Masters # {} <=> \E c \in Listed(dev) : dev.call[c].master
    BY DEF Masters
  <2>3. OneMaster
    BY <2>1 DEF Audio, OneMaster
  <2>4. MasterHasAudio
    BY <2>0, <2>1, <2>2 DEF Audio, MasterHasAudio
  <2>5. MixedIsActivated
    BY <2>0, <2>1 DEF Audio, MixedIsActivated, Mixing
  <2> QED BY <2>3, <2>4, <2>5 DEF AudioFollowsCalls
<1> QED BY <1>1, CallsInductive, ConfiguredAlways, PTL

-----------------------------------------------------------------------------
(* The counters of states, the dialling flag and the dial commands.        *)

In(s, st) == {c \in Listed(s) : s.call[c].state = st}

(* Every state is counted.                                                 *)
Tally(s) == \A st \in call_state_t : s.count[st] = Cardinality(In(s, st))

(* While the device counts as dialling, a call is about to be answered.    *)
Outgoing == {INIT, DIALING, ALERTING}
Calling(s) == s.dialing => \E c \in Listed(s) : s.call[c].state \in Outgoing

(* The owners of dial commands are calls that were placed, with one each.  *)
Dials(q) == {i \in DOMAIN q : q[i].cmds \in {<<"D">>, <<"CHLD_2", "D">>}}
Diallers(q) == {q[i].of : i \in Dials(q)}
Twice(q) == {c \in CallIds : \E i, j \in Dials(q) : i # j /\ q[i].of = c /\ q[j].of = c}
Dialled(s) ==
  /\ Sys \notin Diallers(s.queue) /\ Twice(s.queue) = {}
  /\ \A c \in CallIds : c \in Diallers(s.queue) => s.call[c].placed

(* The dial commands of r are among those of q.                            *)
Fewer(q, r) == Diallers(r) \subseteq Diallers(q) /\ Twice(r) \subseteq Twice(q)

LEMMA FewerBy ==
  ASSUME NEW q, NEW r, NEW m \in [Dials(r) -> Dials(q)],
         \A i, j \in Dials(r) : m[i] = m[j] => i = j,
         \A i \in Dials(r) : r[i].of = q[m[i]].of
  PROVE  Fewer(q, r)
<1>1. ASSUME NEW c \in Diallers(r)
      PROVE  c \in Diallers(q)
  <2>1. PICK i \in Dials(r) : r[i].of = c
    BY DEF Diallers
  <2>2. m[i] \in Dials(q) /\ q[m[i]].of = c
    BY <2>1
  <2> QED BY <2>2 DEF Diallers
<1>2. ASSUME NEW c \in Twice(r)
      PROVE  c \in Twice(q)
  <2>1. PICK i, j \in Dials(r) : i # j /\ r[i].of = c /\ r[j].of = c
    BY DEF Twice
  <2>2. /\ m[i] \in Dials(q) /\ m[j] \in Dials(q) /\ m[i] # m[j]
        /\ q[m[i]].of = c /\ q[m[j]].of = c
    BY <2>1
  <2> QED BY <2>2 DEF Twice
<1> QED BY <1>1, <1>2 DEF Fewer

(* A task comes behind the head: where the others are.                     *)
Shifted(q, t, r, p, m) ==
  /\ p \in DOMAIN r /\ m \in [DOMAIN r \ {p} -> DOMAIN q]
  /\ r[p] = t
  /\ \A i \in DOMAIN r \ {p} : r[i] = q[m[i]]
  /\ \A i, j \in DOMAIN r \ {p} : m[i] = m[j] => i = j

LEMMA Behind ==
  ASSUME NEW q \in Seq(Tasks), NEW t \in Tasks, NEW r,
         r = IF q = <<>> THEN <<t>> ELSE <<Head(q), t>> \o Tail(q)
  PROVE  \E p, m : Shifted(q, t, r, p, m)
<1>1. CASE q = <<>>
  <2>1. r = <<t>> /\ DOMAIN r = {1} /\ r[1] = t
    BY <1>1
  <2> DEFINE m == [i \in {} |-> i]
  <2>2. m \in [DOMAIN r \ {1} -> DOMAIN q]
    BY <2>1
  <2>3. DOMAIN r \ {1} = {}
    BY <2>1
  <2> HIDE DEF m
  <2>4. Shifted(q, t, r, 1, m)
    BY <2>1, <2>2, <2>3 DEF Shifted
  <2> QED BY <2>4
<1>2. CASE q # <<>>
  <2>1. /\ Head(q) \in Tasks /\ Tail(q) \in Seq(Tasks) /\ Head(q) = q[1] /\ 1 \in DOMAIN q
        /\ Len(q) \in Nat /\ Len(q) > 0 /\ DOMAIN q = 1 .. Len(q)
        /\ Len(Tail(q)) = Len(q) - 1 /\ \A i \in 1 .. Len(q) - 1 : Tail(q)[i] = q[i + 1]
    BY <1>2, HeadTailProperties, LenProperties, EmptySeq
  <2>2. <<Head(q), t>> \in Seq(Tasks) /\ Len(<<Head(q), t>>) = 2
    BY <2>1
  <2>3. /\ r \in Seq(Tasks) /\ Len(r) = Len(q) + 1
        /\ \A i \in 1 .. Len(r) : r[i] = IF i <= 2 THEN <<Head(q), t>>[i] ELSE Tail(q)[i - 2]
    BY <1>2, <2>1, <2>2, ConcatProperties
  <2>4. DOMAIN r = 1 .. Len(q) + 1
    BY <2>3, LenProperties
  <2> DEFINE m == [i \in DOMAIN r \ {2} |-> IF i = 1 THEN 1 ELSE i - 1]
  <2>5. 2 \in DOMAIN r /\ r[2] = t
    BY <2>1, <2>3, <2>4
  <2>6. m \in [DOMAIN r \ {2} -> DOMAIN q]
    BY <2>1, <2>4
  <2>7. ASSUME NEW i \in DOMAIN r \ {2}
        PROVE  r[i] = q[m[i]]
    <3>1. CASE i = 1
      BY <2>1, <2>3, <2>4, <3>1
    <3>2. CASE i # 1
      <4>1. i - 2 \in 1 .. Len(q) - 1 /\ i - 2 + 1 = i - 1 /\ ~(i <= 2) /\ i \in 1 .. Len(r)
        BY <2>1, <2>3, <2>4, <3>2
      <4> QED BY <2>1, <2>3, <3>2, <4>1
    <3> QED BY <3>1, <3>2
  <2>8. \A i, j \in DOMAIN r \ {2} : m[i] = m[j] => i = j
    BY <2>4
  <2> HIDE DEF m
  <2>9. Shifted(q, t, r, 2, m)
    BY <2>5, <2>6, <2>7, <2>8 DEF Shifted
  <2> QED BY <2>9
<1> QED BY <1>1, <1>2

(* A dial command of a call that has none, or another command.             *)
LEMMA Grows ==
  ASSUME NEW q, NEW t, NEW r, \E p, m : Shifted(q, t, r, p, m)
  PROVE  /\ t.cmds \notin {<<"D">>, <<"CHLD_2", "D">>} => Fewer(q, r)
         /\ t.of \notin Diallers(q) =>
              Diallers(r) \subseteq Diallers(q) \union {t.of} /\ Twice(r) \subseteq Twice(q)
<1>1. PICK p, m : Shifted(q, t, r, p, m)
  OBVIOUS
<1>2. /\ p \in DOMAIN r /\ m \in [DOMAIN r \ {p} -> DOMAIN q] /\ r[p] = t
      /\ \A i \in DOMAIN r \ {p} : r[i] = q[m[i]]
      /\ \A i, j \in DOMAIN r \ {p} : m[i] = m[j] => i = j
  BY <1>1 DEF Shifted
<1>3. \A i \in Dials(r) \ {p} : m[i] \in Dials(q)
  BY <1>2 DEF Dials
<1>4. ASSUME t.cmds \notin {<<"D">>, <<"CHLD_2", "D">>}
      PROVE  Fewer(q, r)
  <2>1. p \notin Dials(r) /\ Dials(r) \subseteq DOMAIN r \ {p}
    BY <1>2, <1>4 DEF Dials
  <2> DEFINE n == [i \in Dials(r) |-> m[i]]
  <2>2. n \in [Dials(r) -> Dials(q)]
    BY <1>3, <2>1
  <2>3. \A i, j \in Dials(r) : n[i] = n[j] => i = j
    BY <1>2, <2>1
  <2>4. \A i \in Dials(r) : r[i].of = q[n[i]].of
    BY <1>2, <2>1
  <2> HIDE DEF n
  <2> QED BY <2>2, <2>3, <2>4, FewerBy
<1>5. ASSUME t.of \notin Diallers(q)
      PROVE  Diallers(r) \subseteq Diallers(q) \union {t.of} /\ Twice(r) \subseteq Twice(q)
  <2>1. ASSUME NEW i \in Dials(r)
        PROVE  \/ i = p /\ r[i].of = t.of
               \/ i # p /\ m[i] \in Dials(q) /\ r[i].of = q[m[i]].of /\ r[i].of \in Diallers(q)
    <3>1. CASE i = p
      BY <1>2, <3>1
    <3>2. CASE i # p
      <4>1. m[i] \in Dials(q) /\ r[i].of = q[m[i]].of
        BY <1>2, <1>3, <3>2 DEF Dials
      <4> QED BY <3>2, <4>1 DEF Diallers
    <3> QED BY <3>1, <3>2
  <2>2. Diallers(r) \subseteq Diallers(q) \union {t.of}
    BY <2>1 DEF Diallers
  <2>3. ASSUME NEW c \in Twice(r)
        PROVE  c \in Twice(q)
    <3>1. PICK i, j \in Dials(r) : i # j /\ r[i].of = c /\ r[j].of = c
      BY DEF Twice
    <3>2. i # p /\ j # p
      BY <1>5, <2>1, <3>1
    <3>3. m[i] # m[j]
      BY <1>2, <3>1, <3>2 DEF Dials
    <3>4. m[i] \in Dials(q) /\ m[j] \in Dials(q) /\ q[m[i]].of = c /\ q[m[j]].of = c
      BY <2>1, <3>1, <3>2
    <3> QED BY <3>3, <3>4 DEF Twice
  <2> QED BY <2>2, <2>3
<1> QED BY <1>4, <1>5

(* The head goes, or its first command; no task comes.                     *)
LEMMA Shrinks ==
  ASSUME NEW q \in Seq(Tasks), q # <<>>
  PROVE  Fewer(q, Tail(q))
<1>1. /\ Len(q) \in Nat /\ DOMAIN q = 1 .. Len(q)
      /\ DOMAIN Tail(q) = 1 .. Len(q) - 1
      /\ \A i \in 1 .. Len(q) - 1 : Tail(q)[i] = q[i + 1]
  BY HeadTailProperties, LenProperties, EmptySeq
<1> DEFINE r == Tail(q)
           m == [i \in Dials(r) |-> i + 1]
<1>2. ASSUME NEW i \in Dials(r)
      PROVE  i \in Int /\ i + 1 \in Dials(q) /\ r[i] = q[i + 1]
  <2>1. i \in 1 .. Len(q) - 1 /\ i + 1 \in DOMAIN q /\ r[i] = q[i + 1]
    BY <1>1 DEF Dials
  <2> QED BY <2>1 DEF Dials
<1> HIDE DEF r
<1>3. m \in [Dials(r) -> Dials(q)] /\ (\A i, j \in Dials(r) : m[i] = m[j] => i = j)
  BY <1>2
<1>4. \A i \in Dials(r) : r[i].of = q[m[i]].of
  BY <1>2
<1> HIDE DEF m
<1>5. Fewer(q, r)
  BY <1>3, <1>4, FewerBy
<1> QED BY <1>5 DEF r

(* The tasks of a call pass to sys_chan.                                   *)
LEMMA Relinked ==
  ASSUME NEW q \in Seq(Tasks), NEW c \in CallIds, NEW w,
         w = [i \in DOMAIN q |-> IF q[i].of = c THEN [q[i] EXCEPT !.of = Sys] ELSE q[i]]
  PROVE  /\ DOMAIN w = DOMAIN q /\ Dials(w) = Dials(q)
         /\ \A i \in DOMAIN q : /\ w[i].cmds = q[i].cmds
                                /\ w[i].of = IF q[i].of = c THEN Sys ELSE q[i].of
         /\ c \notin Diallers(q) => Fewer(q, w)
<1>1. \A i \in DOMAIN q : q[i] \in Tasks
  BY ElementOfSeq, LenProperties
<1>2. \A x \in Tasks : [x EXCEPT !.of = Sys].of = Sys /\ [x EXCEPT !.of = Sys].cmds = x.cmds
  BY DEF Tasks
<1>3. DOMAIN w = DOMAIN q
  OBVIOUS
<1>4. \A i \in DOMAIN q : /\ w[i].cmds = q[i].cmds
                          /\ w[i].of = IF q[i].of = c THEN Sys ELSE q[i].of
  BY <1>1, <1>2
<1>5. Dials(w) = Dials(q)
  BY <1>3, <1>4 DEF Dials
<1>6. ASSUME c \notin Diallers(q)
      PROVE  Fewer(q, w)
  <2> DEFINE m == [i \in Dials(w) |-> i]
  <2>1. m \in [Dials(w) -> Dials(q)] /\ \A i, j \in Dials(w) : m[i] = m[j] => i = j
    BY <1>5
  <2>2. \A i \in Dials(w) : q[i].of # c
    BY <1>5, <1>6 DEF Diallers
  <2>3. \A i \in Dials(w) : w[i].of = q[m[i]].of
    BY <1>4, <1>5, <2>2 DEF Dials
  <2> HIDE DEF m
  <2> QED BY <2>1, <2>3, FewerBy
<1> QED BY <1>3, <1>4, <1>5, <1>6

(* The calls in a state are at most as many as there are calls.            *)
LEMMA InTypes ==
  ASSUME NEW s \in Device, NEW st
  PROVE  /\ In(s, st) \subseteq CallIds /\ IsFiniteSet(In(s, st))
         /\ Cardinality(In(s, st)) \in Nat /\ Cardinality(In(s, st)) <= MaxCalls
<1>1. In(s, st) \subseteq CallIds
  BY ListedTypes DEF In
<1> QED BY <1>1, Limits, FS_Subset, FS_CardinalityType

(* The counters do not wrap below the number of calls.                     *)
LEMMA NoWrap ==
  ASSUME NEW n \in Nat, n <= MaxCalls
  PROVE  /\ n > 0 => Dec(n) = n - 1
         /\ n < MaxCalls => Inc(n) = n + 1
<1>1. MaxCalls \in Nat /\ CountValues \in Nat /\ CountValues > MaxCalls
  BY Limits
<1>2. n < MaxCalls => Inc(n) = n + 1
  <2>1. n < MaxCalls => n + 1 \in 0 .. CountValues - 1
    BY <1>1
  <2> QED BY <1>1, <2>1 DEF Inc
<1>3. ASSUME n > 0
      PROVE  Dec(n) = n - 1
  <2>1. n + CountValues - 1 = CountValues * 1 + (n - 1) /\ n - 1 \in 0 .. CountValues - 1
    BY <1>1, <1>3
  <2> QED BY <1>1, <2>1 DEF Dec
<1> QED BY <1>2, <1>3

(* A call comes to a state, or leaves it.                                  *)
LEMMA OneIn ==
  ASSUME NEW s \in Device, NEW st \in call_state_t, Tally(s), NEW c \in CallIds, NEW t \in Device
  PROVE  /\ c \notin In(s, st) /\ In(t, st) = In(s, st) \union {c} =>
              Inc(s.count[st]) = Cardinality(In(t, st))
         /\ c \in In(s, st) /\ In(t, st) = In(s, st) \ {c} =>
              Dec(s.count[st]) = Cardinality(In(t, st))
<1> DEFINE S == In(s, st)
           T == In(t, st)
<1>1. /\ IsFiniteSet(S) /\ Cardinality(S) \in Nat /\ Cardinality(S) <= MaxCalls
      /\ IsFiniteSet(T) /\ Cardinality(T) \in Nat /\ Cardinality(T) <= MaxCalls
  BY InTypes
<1>2. s.count[st] = Cardinality(S)
  BY DEF Tally
<1> HIDE DEF S, T
<1>3. MaxCalls \in Nat
  BY Limits
<1>4. ASSUME c \notin S, T = S \union {c}
      PROVE  Inc(s.count[st]) = Cardinality(T)
  <2>1. Cardinality(T) = Cardinality(S) + 1
    BY <1>1, <1>4, FS_AddElement
  <2>2. Cardinality(S) < MaxCalls
    BY <1>1, <1>3, <2>1
  <2> QED BY <1>1, <1>2, <2>1, <2>2, NoWrap
<1>5. ASSUME c \in S, T = S \ {c}
      PROVE  Dec(s.count[st]) = Cardinality(T)
  <2>1. Cardinality(T) = Cardinality(S) - 1
    BY <1>1, <1>5, FS_RemoveElement
  <2>2. Cardinality(S) > 0
    BY <1>1, <2>1
  <2> QED BY <1>1, <1>2, <2>1, <2>2, NoWrap
<1> QED BY <1>4, <1>5 DEF S, T

LEMMA OneLess ==
  ASSUME NEW s \in Device, NEW st \in call_state_t, Tally(s), NEW c \in CallIds, NEW t \in Device,
         c \in In(s, st), In(t, st) = In(s, st) \ {c}
  PROVE  Dec(s.count[st]) = Cardinality(In(t, st))
BY OneIn

(* A call of the list goes from one state to another,                      *)
Counted(s, t, old, new) ==
  \A st \in call_state_t :
    t.count[st] = IF st = new THEN Inc(s.count[st])
                  ELSE IF st = old THEN Dec(s.count[st]) ELSE s.count[st]

LEMMA Recount ==
  ASSUME NEW s \in Device, NEW t \in Device, Tally(s), NEW c \in Listed(s),
         NEW new \in call_state_t, new # s.call[c].state,
         Listed(t) = Listed(s), t.call[c].state = new,
         \A d \in CallIds \ {c} : t.call[d].state = s.call[d].state,
         Counted(s, t, s.call[c].state, new)
  PROVE  Tally(t)
<1>0. c \in CallIds /\ Listed(s) \subseteq CallIds
  BY ListedTypes
<1>1. ASSUME NEW st \in call_state_t
      PROVE  t.count[st] = Cardinality(In(t, st))
  <2>1. CASE st = new
    <3>1. c \notin In(s, st) /\ In(t, st) = In(s, st) \union {c}
      BY <1>0, <2>1 DEF In
    <3>2. Inc(s.count[st]) = Cardinality(In(t, st))
      BY <1>0, <3>1, OneIn
    <3> QED BY <2>1, <3>2 DEF Counted
  <2>2. CASE st # new /\ st = s.call[c].state
    <3>1. c \in In(s, st) /\ In(t, st) = In(s, st) \ {c}
      BY <1>0, <2>2 DEF In
    <3>2. Dec(s.count[st]) = Cardinality(In(t, st))
      BY <1>0, <3>1, OneLess
    <3> QED BY <2>2, <3>2 DEF Counted
  <2>3. CASE st # new /\ st # s.call[c].state
    <3>1. In(t, st) = In(s, st)
      BY <1>0, <2>3 DEF In
    <3> QED BY <2>3, <3>1 DEF Tally, Counted
  <2> QED BY <2>1, <2>2, <2>3
<1> QED BY <1>1 DEF Tally

(* is taken from the list,                                                 *)
LEMMA CountOff ==
  ASSUME NEW s \in Device, NEW t \in Device, Tally(s), NEW c \in Listed(s),
         Listed(t) = Listed(s) \ {c},
         \A d \in CallIds \ {c} : t.call[d].state = s.call[d].state,
         \A st \in call_state_t :
           t.count[st] = IF st = s.call[c].state THEN Dec(s.count[st]) ELSE s.count[st]
  PROVE  Tally(t)
<1>0. c \in CallIds /\ Listed(s) \subseteq CallIds
  BY ListedTypes
<1>1. ASSUME NEW st \in call_state_t
      PROVE  t.count[st] = Cardinality(In(t, st))
  <2>1. CASE st = s.call[c].state
    <3>1. c \in In(s, st) /\ In(t, st) = In(s, st) \ {c}
      BY <1>0, <2>1 DEF In
    <3>2. Dec(s.count[st]) = Cardinality(In(t, st))
      BY <1>0, <3>1, OneLess
    <3> QED BY <2>1, <3>2
  <2>2. CASE st # s.call[c].state
    <3>1. In(t, st) = In(s, st)
      BY <1>0, <2>2 DEF In
    <3> QED BY <2>2, <3>1 DEF Tally
  <2> QED BY <2>1, <2>2
<1> QED BY <1>1 DEF Tally

(* or comes to it.                                                         *)
LEMMA CountOn ==
  ASSUME NEW s \in Device, NEW t \in Device, Tally(s), NEW c \in CallIds, c \notin Listed(s),
         Listed(t) = Listed(s) \union {c}, t.call[c].state = INIT,
         \A d \in CallIds \ {c} : t.call[d].state = s.call[d].state,
         \A st \in call_state_t :
           t.count[st] = IF st = INIT THEN Inc(s.count[st]) ELSE s.count[st]
  PROVE  Tally(t)
<1>0. Listed(s) \subseteq CallIds
  BY ListedTypes
<1>1. ASSUME NEW st \in call_state_t
      PROVE  t.count[st] = Cardinality(In(t, st))
  <2>1. CASE st = INIT
    <3>1. c \notin In(s, st) /\ In(t, st) = In(s, st) \union {c}
      BY <1>0, <2>1 DEF In
    <3>2. Inc(s.count[st]) = Cardinality(In(t, st))
      BY <1>0, <3>1, OneIn
    <3> QED BY <2>1, <3>2
  <2>2. CASE st # INIT
    <3>1. In(t, st) = In(s, st)
      BY <1>0, <2>2 DEF In
    <3> QED BY <2>2, <3>1 DEF Tally
  <2> QED BY <2>1, <2>2
<1> QED BY <1>1 DEF Tally

-----------------------------------------------------------------------------
(* Steps that the counters, the flag and the dial commands do not depend   *)
(* on.                                                                     *)

Quiet(s, t) ==
  /\ t \in Device /\ t.chans = s.chans /\ t.count = s.count
  /\ t.dialing => s.dialing
  /\ \A c \in CallIds : /\ t.call[c].state = s.call[c].state
                        /\ s.call[c].placed => t.call[c].placed
  /\ Fewer(s.queue, t.queue)

LEMMA QuietKeeps ==
  ASSUME NEW s \in Device, NEW t, Quiet(s, t)
  PROVE  /\ Tally(s) => Tally(t)
         /\ Calling(s) => Calling(t)
         /\ Dialled(s) => Dialled(t)
         /\ Listed(t) = Listed(s)
<1>1. Listed(t) = Listed(s) /\ Listed(s) \subseteq CallIds
  BY ListedTypes DEF Quiet, Listed
<1>2. \A st : In(t, st) = In(s, st)
  BY <1>1 DEF Quiet, In
<1>3. Tally(s) => Tally(t)
  BY <1>2 DEF Quiet, Tally
<1>4. Calling(s) => Calling(t)
  BY <1>1 DEF Quiet, Calling
<1>5. Dialled(s) => Dialled(t)
  BY DEF Quiet, Dialled, Fewer
<1> QED BY <1>1, <1>3, <1>4, <1>5

LEMMA QuietTwice ==
  ASSUME NEW s, NEW t, NEW u, Quiet(s, t), Quiet(t, u)
  PROVE  Quiet(s, u)
<1>1. Fewer(s.queue, u.queue)
  BY DEF Quiet, Fewer
<1> QED BY <1>1 DEF Quiet

LEMMA QuietSelf ==
  ASSUME NEW s \in Device
  PROVE  Quiet(s, s)
BY DEF Quiet, Fewer

(* Calls change, or the queue does.                                        *)
LEMMA CallsChange ==
  ASSUME NEW s \in Device, NEW f \in [CallIds -> Call], NEW t, t = [s EXCEPT !.call = f]
  PROVE  /\ t \in Device /\ t.chans = s.chans /\ t.chansno = s.chansno /\ t.count = s.count
         /\ t.dialing = s.dialing /\ t.queue = s.queue /\ t.call = f /\ t.sys = s.sys
BY DEF Device

LEMMA QueueChanges ==
  ASSUME NEW s \in Device, NEW q \in Seq(Tasks), NEW t, t = [s EXCEPT !.queue = q]
  PROVE  /\ t \in Device /\ t.chans = s.chans /\ t.chansno = s.chansno /\ t.count = s.count
         /\ t.dialing = s.dialing /\ t.queue = q /\ t.call = s.call /\ t.sys = s.sys
BY DEF Device

(* A call changes that keeps its state.                                    *)
LEMMA OneQuiet ==
  ASSUME NEW s \in Device, NEW c \in CallIds, NEW y \in Call, y.state = s.call[c].state,
         s.call[c].placed => y.placed,
         NEW t, t = [s EXCEPT !.call = [s.call EXCEPT ![c] = y]]
  PROVE  /\ Quiet(s, t) /\ t.queue = s.queue /\ t.call[c] = y
         /\ \A d \in CallIds \ {c} : t.call[d] = s.call[d]
<1> DEFINE f == [s.call EXCEPT ![c] = y]
<1>1. f \in [CallIds -> Call] /\ f[c] = y /\ \A d \in CallIds \ {c} : f[d] = s.call[d]
  BY Fields
<1>2. t = [s EXCEPT !.call = f]
  OBVIOUS
<1> HIDE DEF f
<1>3. /\ t \in Device /\ t.chans = s.chans /\ t.chansno = s.chansno /\ t.count = s.count
      /\ t.dialing = s.dialing /\ t.queue = s.queue /\ t.call = f
  BY <1>1, <1>2 DEF Device
<1>4. \A d \in CallIds : /\ t.call[d].state = s.call[d].state
                         /\ s.call[d].placed => t.call[d].placed
  BY <1>1, <1>3
<1> QED BY <1>1, <1>3, <1>4 DEF Quiet, Fewer

LEMMA FlagsQuiet ==
  ASSUME NEW s \in Device, NEW ring \in BOOLEAN, NEW dialing \in BOOLEAN, NEW cwaiting \in BOOLEAN,
         NEW t, t = Flags(s, ring, dialing, cwaiting)
  PROVE  /\ t \in Device /\ t.chans = s.chans /\ t.count = s.count /\ t.call = s.call
         /\ t.queue = s.queue /\ t.dialing = dialing /\ t.chansno = s.chansno
         /\ (dialing => s.dialing) => Quiet(s, t)
<1>1. /\ t \in Device /\ t.chans = s.chans /\ t.count = s.count /\ t.call = s.call
      /\ t.queue = s.queue /\ t.dialing = dialing /\ t.chansno = s.chansno
  BY DEF Flags, Device
<1> QED BY <1>1 DEF Quiet, Fewer

(* at_queue_insert.                                                        *)
LEMMA InsertFields ==
  ASSUME NEW s \in Device, NEW of \in CallIds \union {Sys}, NEW cmds,
         [cmds |-> cmds, of |-> of] \in Tasks, NEW t, t = Insert(s, of, cmds)
  PROVE  /\ t \in Device /\ t.chans = s.chans /\ t.chansno = s.chansno /\ t.count = s.count
         /\ t.dialing = s.dialing /\ t.call = s.call
         /\ cmds \notin {<<"D">>, <<"CHLD_2", "D">>} => Quiet(s, t)
         /\ of \notin Diallers(s.queue) =>
              /\ Diallers(t.queue) \subseteq Diallers(s.queue) \union {of}
              /\ Twice(t.queue) \subseteq Twice(s.queue)
         /\ \A i \in DOMAIN t.queue :
              \/ t.queue[i] = [cmds |-> cmds, of |-> of]
              \/ \E j \in DOMAIN s.queue : t.queue[i] = s.queue[j]
<1> DEFINE x == [cmds |-> cmds, of |-> of]
           q == IF s.queue = <<>> THEN <<x>> ELSE <<Head(s.queue), x>> \o Tail(s.queue)
<1>1. t = [s EXCEPT !.queue = q]
  BY DEF Insert
<1>2. x.of = of /\ x.cmds = cmds /\ x \in Tasks
  OBVIOUS
<1> HIDE DEF x
<1>3. /\ q \in Seq(Tasks)
      /\ \A i \in DOMAIN q : q[i] = x \/ \E j \in DOMAIN s.queue : q[i] = s.queue[j]
  BY <1>2, Fields, BehindHead
<1>4. s.queue \in Seq(Tasks)
  BY Fields
<1>5. /\ x.cmds \notin {<<"D">>, <<"CHLD_2", "D">>} => Fewer(s.queue, q)
      /\ x.of \notin Diallers(s.queue) =>
            Diallers(q) \subseteq Diallers(s.queue) \union {x.of} /\ Twice(q) \subseteq Twice(s.queue)
  <2>1. \E p, m : Shifted(s.queue, x, q, p, m)
    BY <1>2, <1>4, Behind
  <2> HIDE DEF q
  <2> QED BY <2>1, Grows
<1> HIDE DEF q
<1>6. /\ t \in Device /\ t.chans = s.chans /\ t.chansno = s.chansno /\ t.count = s.count
      /\ t.dialing = s.dialing /\ t.queue = q /\ t.call = s.call
  BY <1>1, <1>3, QueueChanges
<1>7. cmds \notin {<<"D">>, <<"CHLD_2", "D">>} => Quiet(s, t)
  BY <1>2, <1>5, <1>6 DEF Quiet
<1>8. of \notin Diallers(s.queue) =>
        /\ Diallers(t.queue) \subseteq Diallers(s.queue) \union {of}
        /\ Twice(t.queue) \subseteq Twice(s.queue)
  BY <1>2, <1>5, <1>6
<1>9. \A i \in DOMAIN t.queue : t.queue[i] = x \/ \E j \in DOMAIN s.queue : t.queue[i] = s.queue[j]
  BY <1>3, <1>6
<1> QED BY <1>6, <1>7, <1>8, <1>9 DEF x

(* at_enqueue_hangup.                                                      *)
LEMMA HangupFields ==
  ASSUME NEW s \in Device, NEW of \in CallIds \union {Sys}, NEW idx,
         NEW t, t = at_enqueue_hangup(s, of, idx)
  PROVE  /\ Quiet(s, t) /\ t.chansno = s.chansno
         /\ \A c \in CallIds : t.call[c] = s.call[c] \/ t.call[c] = [s.call[c] EXCEPT !.asked = TRUE]
         /\ s.chansno <= 1 =>
              \A c \in Listed(s) : s.call[c].idx = idx => t.call[c] = [s.call[c] EXCEPT !.asked = TRUE]
         /\ \A i \in DOMAIN t.queue :
              \/ t.queue[i].of = of /\ t.queue[i].cmds \in {<<"HUP">>, <<"CHLD_1x">>}
              \/ \E j \in DOMAIN s.queue : t.queue[i] = s.queue[j]
<1> DEFINE f == [c \in CallIds |-> IF c \in Listed(s) /\ s.call[c].idx = idx
                                     THEN [s.call[c] EXCEPT !.asked = TRUE] ELSE s.call[c]]
           u == Insert(s, of, <<"HUP">>)
           v == Insert(s, of, <<"CHLD_1x">>)
           w == [u EXCEPT !.call = f]
<1>1. /\ t = v \/ t = w
      /\ ~(s.chansno > 1) => t = w
  BY DEF at_enqueue_hangup
<1>2. <<"HUP">> \notin {<<"D">>, <<"CHLD_2", "D">>} /\ <<"CHLD_1x">> \notin {<<"D">>, <<"CHLD_2", "D">>}
  OBVIOUS
<1>3. [cmds |-> <<"HUP">>, of |-> of] \in Tasks /\ [cmds |-> <<"CHLD_1x">>, of |-> of] \in Tasks
  BY TaskKinds
<1> DEFINE Comes(x, cmds) == \A i \in DOMAIN x.queue :
              \/ x.queue[i] = [cmds |-> cmds, of |-> of]
              \/ \E j \in DOMAIN s.queue : x.queue[i] = s.queue[j]
<1>4. /\ u \in Device /\ u.call = s.call /\ u.chansno = s.chansno /\ Quiet(s, u)
      /\ Comes(u, <<"HUP">>)
  BY <1>2, <1>3, InsertFields
<1>5. /\ v \in Device /\ v.call = s.call /\ v.chansno = s.chansno /\ Quiet(s, v)
      /\ Comes(v, <<"CHLD_1x">>)
  BY <1>2, <1>3, InsertFields
<1>6. \A c \in CallIds : /\ f[c] \in Call /\ f[c].state = s.call[c].state
                         /\ s.call[c].placed => f[c].placed
                         /\ f[c] = s.call[c] \/ f[c] = [s.call[c] EXCEPT !.asked = TRUE]
  <2>1. \A x \in Call : /\ [x EXCEPT !.asked = TRUE] \in Call
                        /\ [x EXCEPT !.asked = TRUE].state = x.state
                        /\ [x EXCEPT !.asked = TRUE].placed = x.placed
    BY DEF Call
  <2>2. \A c \in CallIds : s.call[c] \in Call
    BY Fields
  <2>3. \A c \in CallIds : f[c] = s.call[c] \/ f[c] = [s.call[c] EXCEPT !.asked = TRUE]
    OBVIOUS
  <2> HIDE DEF f
  <2> QED BY <2>1, <2>2, <2>3
<1>7. \A c \in Listed(s) : s.call[c].idx = idx => f[c] = [s.call[c] EXCEPT !.asked = TRUE]
  BY ListedTypes
<1>8. f \in [CallIds -> Call]
  BY <1>6
<1> HIDE DEF f, u, v
<1>9. /\ w \in Device /\ w.chans = u.chans /\ w.chansno = u.chansno /\ w.count = u.count
      /\ w.dialing = u.dialing /\ w.queue = u.queue /\ w.call = f
  BY <1>4, <1>8, CallsChange
<1> HIDE DEF w
<1>10. Quiet(s, w)
  BY <1>4, <1>6, <1>9 DEF Quiet
<1>11. Comes(w, <<"HUP">>)
  BY <1>4, <1>9
<1>12. ASSUME NEW x, NEW cmds \in {<<"HUP">>, <<"CHLD_1x">>}, Comes(x, cmds)
       PROVE  \A i \in DOMAIN x.queue :
                \/ x.queue[i].of = of /\ x.queue[i].cmds \in {<<"HUP">>, <<"CHLD_1x">>}
                \/ \E j \in DOMAIN s.queue : x.queue[i] = s.queue[j]
  BY <1>12
<1> HIDE DEF Comes
<1>13. \A i \in DOMAIN t.queue :
         \/ t.queue[i].of = of /\ t.queue[i].cmds \in {<<"HUP">>, <<"CHLD_1x">>}
         \/ \E j \in DOMAIN s.queue : t.queue[i] = s.queue[j]
  BY <1>1, <1>5, <1>11, <1>12
<1>14. Quiet(s, t) /\ t.chansno = s.chansno
  BY <1>1, <1>4, <1>5, <1>9, <1>10
<1>15. \A c \in CallIds : t.call[c] = s.call[c] \/ t.call[c] = [s.call[c] EXCEPT !.asked = TRUE]
  BY <1>1, <1>5, <1>6, <1>9
<1>16. s.chansno <= 1 =>
         \A c \in Listed(s) : s.call[c].idx = idx => t.call[c] = [s.call[c] EXCEPT !.asked = TRUE]
  <2>1. s.chansno <= 1 => ~(s.chansno > 1)
    BY Fields
  <2> QED BY <1>1, <1>7, <1>9, <2>1
<1> QED BY <1>13, <1>14, <1>15, <1>16

(* The head, or its first command, goes.                                   *)
LEMMA HeadQuiet ==
  ASSUME NEW s \in Device, s.queue # <<>>
  PROVE  /\ Quiet(s, NextTask(s)) /\ NextTask(s).queue = Tail(s.queue) /\ NextTask(s).call = s.call
         /\ Quiet(s, NextCommand(s)) /\ NextCommand(s).call = s.call
         /\ \A i \in DOMAIN NextCommand(s).queue :
              \/ NextCommand(s).queue[i].cmds = <<"D">>
              \/ \E j \in DOMAIN s.queue : NextCommand(s).queue[i] = s.queue[j]
<1> DEFINE q == s.queue
           h == Head(q)
<1>1. /\ q \in Seq(Tasks) /\ h \in Tasks /\ Tail(q) \in Seq(Tasks) /\ Len(q) \in Nat
      /\ DOMAIN q = 1 .. Len(q) /\ h = q[1] /\ Len(q) > 0
      /\ Len(Tail(q)) = Len(q) - 1 /\ DOMAIN Tail(q) = 1 .. Len(q) - 1
      /\ \A i \in 1 .. Len(q) - 1 : Tail(q)[i] = q[i + 1]
  BY Fields, HeadTailProperties, LenProperties, EmptySeq
<1>2. NextTask(s) = [s EXCEPT !.queue = Tail(q)]
  BY DEF NextTask
<1>3. Quiet(s, NextTask(s)) /\ NextTask(s).queue = Tail(q) /\ NextTask(s).call = s.call
  <2>1. Fewer(q, Tail(q))
    BY <1>1, Shrinks
  <2> DEFINE t == NextTask(s)
  <2>2. /\ t \in Device /\ t.chans = s.chans /\ t.chansno = s.chansno /\ t.count = s.count
        /\ t.dialing = s.dialing /\ t.queue = Tail(q) /\ t.call = s.call
    <3>1. PICK w \in Seq(Tasks) : w = Tail(q)
      BY <1>1
    <3>2. t = [s EXCEPT !.queue = w]
      BY <1>2, <3>1
    <3> HIDE DEF t
    <3>3. /\ t \in Device /\ t.chans = s.chans /\ t.chansno = s.chansno /\ t.count = s.count
          /\ t.dialing = s.dialing /\ t.queue = w /\ t.call = s.call
      BY <3>2, QueueChanges
    <3> QED BY <3>1, <3>3
  <2> QED BY <2>1, <2>2 DEF Quiet
<1>4. \A i \in DOMAIN Tail(q) : \E j \in DOMAIN q : Tail(q)[i] = q[j]
  <2>1. \A i \in DOMAIN Tail(q) : i + 1 \in DOMAIN q /\ Tail(q)[i] = q[i + 1]
    BY <1>1
  <2> QED BY <2>1
<1>5. CASE Len(h.cmds) = 1
  <2>1. NextCommand(s) = NextTask(s)
    BY <1>5 DEF NextCommand, NextTask
  <2> QED BY <1>3, <1>4, <2>1
<1>6. CASE Len(h.cmds) # 1
  <2>1. h.cmds = <<"CHLD_2", "D">> /\ h.of \in CallIds \union {Sys}
    BY <1>1, <1>6 DEF Tasks
  <2>2. Tail(h.cmds) = <<"D">>
    <3>1. Tail(<<"CHLD_2", "D">>) = <<"D">>
      OBVIOUS
    <3> QED BY <2>1, <3>1, Zenon
  <2> DEFINE g == [h EXCEPT !.cmds = Tail(h.cmds)]
             r == <<g>> \o Tail(q)
             t == NextCommand(s)
  <2>3. g \in Tasks /\ g.of = h.of /\ g.cmds = <<"D">>
    BY <1>1, <2>1, <2>2 DEF Tasks
  <2>4. t = [s EXCEPT !.queue = r]
    BY <1>6 DEF NextCommand
  <2> HIDE DEF g
  <2>5. <<g>> \in Seq(Tasks) /\ Len(<<g>>) = 1
    BY <2>3
  <2>6. /\ r \in Seq(Tasks) /\ Len(r) = Len(q) /\ DOMAIN r = 1 .. Len(q)
        /\ \A i \in 1 .. Len(q) : r[i] = IF i <= 1 THEN <<g>>[i] ELSE Tail(q)[i - 1]
    BY <1>1, <2>5, ConcatProperties, LenProperties
  <2> HIDE DEF r, t
  <2>7. ASSUME NEW i \in DOMAIN q
        PROVE  (i = 1 /\ r[i] = g) \/ (i # 1 /\ r[i] = q[i])
    <3>1. CASE i = 1
      BY <1>1, <2>6, <3>1
    <3>2. CASE i # 1
      <4>1. i - 1 \in 1 .. Len(q) - 1 /\ i - 1 + 1 = i /\ ~(i <= 1) /\ i \in 1 .. Len(q)
        BY <1>1, <3>2
      <4> QED BY <1>1, <2>6, <3>2, <4>1
    <3> QED BY <3>1, <3>2
  <2>8. Fewer(q, r)
    <3> DEFINE m == [i \in Dials(r) |-> i]
    <3>0. 1 \in DOMAIN q /\ q[1].cmds = <<"CHLD_2", "D">> /\ DOMAIN r = DOMAIN q
      BY <1>1, <2>1, <2>6
    <3>1. DOMAIN r = DOMAIN q /\ 1 \in Dials(q)
      BY <3>0, Zenon DEF Dials
    <3>2. \A i \in Dials(r) : i \in Dials(q) /\ r[i].of = q[i].of
      BY <1>1, <2>3, <2>7, <3>1 DEF Dials
    <3>3. m \in [Dials(r) -> Dials(q)] /\ \A i, j \in Dials(r) : m[i] = m[j] => i = j
      BY <3>2
    <3>4. \A i \in Dials(r) : r[i].of = q[m[i]].of
      BY <3>2
    <3> HIDE DEF m
    <3> QED BY <3>3, <3>4, FewerBy
  <2>9. /\ t \in Device /\ t.chans = s.chans /\ t.chansno = s.chansno /\ t.count = s.count
        /\ t.dialing = s.dialing /\ t.queue = r /\ t.call = s.call
    BY <2>4, <2>6, QueueChanges
  <2>10. Quiet(s, t)
    BY <2>8, <2>9 DEF Quiet
  <2>11. \A i \in DOMAIN t.queue : t.queue[i].cmds = <<"D">> \/ \E j \in DOMAIN q : t.queue[i] = q[j]
    BY <1>1, <2>3, <2>6, <2>7, <2>9
  <2> QED BY <1>3, <2>9, <2>10, <2>11 DEF t
<1> QED BY <1>5, <1>6

(* cpvt_call_disactivate and cpvt_call_activate.                           *)
LEMMA DisactivateQuiet ==
  ASSUME NEW s \in Device, NEW c \in CallIds, NEW t, t = cpvt_call_disactivate(s, c)
  PROVE  /\ Quiet(s, t) /\ t.queue = s.queue /\ t.chansno = s.chansno /\ ~t.call[c].act
         /\ t.call[c] = s.call[c] \/ t.call[c] = Muted(s.call[c])
         /\ \A d \in CallIds \ {c} : t.call[d] = s.call[d]
<1>1. CASE ~s.call[c].act
  <2>1. t = s
    BY <1>1 DEF cpvt_call_disactivate
  <2> QED BY <1>1, <2>1, QuietSelf
<1>2. CASE s.call[c].act
  <2>1. t \in Device /\ t.chans = s.chans /\ t.queue = s.queue /\ t.chansno = s.chansno
    BY <1>2, DisactivateFields
  <2>2. t.call[c] = Muted(s.call[c]) /\ \A d \in CallIds \ {c} : t.call[d] = s.call[d]
    BY <1>2, DisactivateFields
  <2>3. t.count = s.count /\ t.dialing = s.dialing
    <3> DEFINE e == IF Uac THEN "none" ELSE s.call[c].fd
               b == s.capture /\ ~StopsAudio(s, c)
               m == mixb_detach(s, c)
    <3>1. t = [s EXCEPT !.capture = b, !.mix = m, !.call[c].fd = e,
                        !.call[c].act = FALSE, !.call[c].master = FALSE]
      BY <1>2 DEF cpvt_call_disactivate
    <3> HIDE DEF e, b, m
    <3> QED BY <3>1 DEF Device
  <2>4. s.call[c] \in Call
    BY Fields
  <2>5. /\ t.call[c].state = s.call[c].state /\ t.call[c].placed = s.call[c].placed
        /\ ~t.call[c].act
    BY <2>2, <2>4 DEF Muted, Call
  <2>6. \A d \in CallIds : /\ t.call[d].state = s.call[d].state
                           /\ s.call[d].placed => t.call[d].placed
    BY <2>2, <2>5
  <2> QED BY <2>1, <2>2, <2>3, <2>5, <2>6 DEF Quiet, Fewer
<1> QED BY <1>1, <1>2

LEMMA Yielded ==
  ASSUME NEW s \in Device, NEW c \in CallIds, NEW d \in CallIds,
         NEW x, x = s.call[d], NEW y, y = OthersYield(s, c)[d]
  PROVE  /\ y.state = x.state /\ y.placed = x.placed /\ y.act = x.act /\ y.chan = x.chan
         /\ y.local = x.local /\ y.hup = x.hup /\ y.need = x.need /\ y.asked = x.asked
         /\ y.master => x.master
<1> DEFINE e == IF ~x.chan THEN x.fd ELSE IF Uac THEN "none" ELSE IF x.act THEN "pipe" ELSE x.fd
<1>1. x \in Call
  BY Fields
<1>2. y = IF d = c \/ d \notin Listed(s) THEN x ELSE [x EXCEPT !.master = FALSE, !.fd = e]
  BY DEF OthersYield
<1> HIDE DEF e
<1>3. CASE d = c \/ d \notin Listed(s)
  BY <1>2, <1>3
<1>4. CASE ~(d = c \/ d \notin Listed(s))
  BY <1>1, <1>2, <1>4 DEF Call
<1> QED BY <1>3, <1>4

LEMMA ActivateQuiet ==
  ASSUME NEW s \in Device, NEW c \in CallIds, NEW t \in cpvt_call_activate(s, c)
  PROVE  Quiet(s, t) /\ t.queue = s.queue /\ t.chansno = s.chansno
<1>1. ASSUME NEW y \in Call, NEW b \in BOOLEAN, t = Activated(s, c, y, b), y.idx = s.call[c].idx,
             y.state = s.call[c].state, y.placed = s.call[c].placed
      PROVE  Quiet(s, t) /\ t.queue = s.queue /\ t.chansno = s.chansno
  <2>1. SameList(s, t) /\ t.call[c] = y /\ \A d \in CallIds \ {c} : t.call[d] = OthersYield(s, c)[d]
    BY <1>1, ActivatedFields
  <2>2. t.count = s.count /\ t.dialing = s.dialing
    <3> DEFINE f == [OthersYield(s, c) EXCEPT ![c] = y]
               m == Streams(s, c)
    <3>1. t = [s EXCEPT !.call = f, !.capture = b, !.mix = m]
      BY <1>1 DEF Activated
    <3> HIDE DEF f, m
    <3> QED BY <3>1 DEF Device
  <2>3. ASSUME NEW d \in CallIds
        PROVE  t.call[d].state = s.call[d].state /\ t.call[d].placed = s.call[d].placed
    <3>1. CASE d = c
      BY <1>1, <2>1, <3>1
    <3>2. CASE d # c
      <4>1. /\ OthersYield(s, c)[d].state = s.call[d].state
            /\ OthersYield(s, c)[d].placed = s.call[d].placed
        BY Yielded
      <4> QED BY <2>1, <3>2, <4>1
    <3> QED BY <3>1, <3>2
  <2> QED BY <2>1, <2>2, <2>3 DEF Quiet, Fewer, SameList
<1>2. s.call[c] \in Call
  BY Fields
<1>3. \A x \in Call : /\ Sounding(x).state = x.state /\ Sounding(x).placed = x.placed
                      /\ Silenced(x).state = x.state /\ Silenced(x).placed = x.placed
  BY DEF Sounding, Silenced, Call
<1>4. /\ Sounding(s.call[c]) \in Call /\ Sounding(s.call[c]).idx = s.call[c].idx
      /\ Silenced(s.call[c]) \in Call /\ Silenced(s.call[c]).idx = s.call[c].idx
  BY <1>2, SoundingTypes
<1>5. Uac \in BOOLEAN /\ FALSE \in BOOLEAN
  BY CallsAssumption, Zenon
<1>6. CASE t = s
  BY <1>6, QuietSelf
<1>7. CASE t = Activated(s, c, Sounding(s.call[c]), Uac)
  BY <1>1, <1>2, <1>3, <1>4, <1>5, <1>7
<1>8. CASE t = Activated(s, c, Silenced(s.call[c]), FALSE)
  <2>1. PICK no \in BOOLEAN : no = FALSE
    OBVIOUS
  <2> QED BY <1>1, <1>2, <1>3, <1>4, <1>8, <2>1
<1> QED BY <1>6, <1>7, <1>8, ActivateCases

(* cpvt_alloc and cpvt_free.                                               *)
LEMMA AllocTracked ==
  ASSUME NEW s \in Device, Listing(s), NEW c \in CallIds, c \notin Listed(s),
         NEW idx \in Nat, NEW dir \in {"in", "out"},
         NEW local \in BOOLEAN, NEW t, t = cpvt_alloc(s, c, idx, dir, local)
  PROVE  /\ t.queue = s.queue /\ t.call[c] = Fresh(idx, dir, local)
         /\ \A d \in CallIds \ {c} : t.call[d] = s.call[d]
         /\ Tally(s) => Tally(t)
         /\ t.dialing = s.dialing
         /\ Calling(s) => Calling(t)
         /\ Dialled(s) => Dialled(t)
<1>1. t \in Device /\ Listed(t) = Listed(s) \union {c}
  BY AllocKeeps
<1>2. t.queue = s.queue
  BY AllocFields
<1>3. t.call[c] = Fresh(idx, dir, local) /\ \A d \in CallIds \ {c} : t.call[d] = s.call[d]
  BY AllocFields
<1>4. t.dialing = s.dialing /\ t.count = [s.count EXCEPT ![INIT] = Inc(s.count[INIT])]
  <2> DEFINE x == [s.call EXCEPT ![c] = Fresh(idx, dir, local)]
             q == Append(s.chans, c)
             m == IF s.chansno = 0 /\ Mixing THEN {} ELSE s.mix
             n == [s.count EXCEPT ![INIT] = Inc(s.count[INIT])]
             k == Inc(s.chansno)
  <2>1. t = [s EXCEPT !.chans = q, !.call = x, !.buf = TRUE, !.mix = m, !.chansno = k, !.count = n]
    BY DEF cpvt_alloc, Fresh
  <2> HIDE DEF x, q, m, n, k
  <2>2. t.dialing = s.dialing /\ t.count = n
    BY <2>1 DEF Device
  <2> QED BY <2>2 DEF n
<1>5. t.call[c].state = INIT
  BY <1>3, FreshTypes
<1>6. \A st \in call_state_t : t.count[st] = IF st = INIT THEN Inc(s.count[st]) ELSE s.count[st]
  BY <1>4, Fields
<1>7. \A d \in CallIds \ {c} : t.call[d].state = s.call[d].state
  BY <1>3
<1>8. Tally(s) => Tally(t)
  BY <1>1, <1>5, <1>6, <1>7, CountOn
<1>9. Calling(s) => Calling(t)
  BY <1>1, <1>4, <1>7, ListedTypes DEF Calling
<1>10. Dialled(s) => Dialled(t)
  <2>1. c \notin Owners(s)
    <3>1. c # Sys
      BY Limits DEF CallIds, Sys
    <3> QED BY <3>1 DEF Listing
  <2>2. Diallers(s.queue) \subseteq Owners(s)
    BY DEF Diallers, Dials, Owners
  <2> QED BY <1>2, <1>3, <2>1, <2>2 DEF Dialled
<1> QED BY <1>2, <1>3, <1>4, <1>8, <1>9, <1>10

LEMMA FreeTracked ==
  ASSUME NEW s \in Device, Listing(s), NEW c \in Listed(s), NEW t, t = cpvt_free(s, c)
  PROVE  /\ t \in Device /\ Listed(t) = Listed(s) \ {c}
         /\ t.call[c] = NoCall /\ \A d \in CallIds \ {c} : t.call[d] = s.call[d]
         /\ t.dialing = s.dialing
         /\ DOMAIN t.queue = DOMAIN s.queue /\ Dials(t.queue) = Dials(s.queue)
         /\ \A i \in DOMAIN s.queue :
              /\ t.queue[i].cmds = s.queue[i].cmds
              /\ t.queue[i].of = IF s.queue[i].of = c THEN Sys ELSE s.queue[i].of
         /\ c \notin Diallers(s.queue) => Fewer(s.queue, t.queue)
         /\ Tally(s) => Tally(t)
<1>0. c \in CallIds
  BY ListedTypes
<1>1. t \in Device /\ Listed(t) = Listed(s) \ {c}
  BY FreeKeeps
<1>2. \A d \in CallIds \ {c} : t.call[d] = s.call[d]
  BY FreeFields
<1> DEFINE q == Unlinked(s.chans, c)
           k == Dec(s.chansno)
           n == [s.count EXCEPT ![s.call[c].state] = Dec(s.count[s.call[c].state])]
           d == [s EXCEPT !.chans = q, !.chansno = k, !.count = n]
           w == [i \in DOMAIN d.queue |->
                   IF d.queue[i].of = c THEN [d.queue[i] EXCEPT !.of = Sys] ELSE d.queue[i]]
           r == [d EXCEPT !.queue = w]
<1>3. decrease_chan_counters(s, c) = d
  BY DEF decrease_chan_counters
<1> HIDE DEF q, k, n
<1>4. d.dialing = s.dialing /\ d.count = n /\ d.queue = s.queue /\ d.call = s.call
  BY DEF Device
<1>5. relink_to_sys_chan(d, c) = r
  BY DEF relink_to_sys_chan
<1>6. DOMAIN d = DOMAIN s /\ "queue" \in DOMAIN s /\ "call" \in DOMAIN s /\ "buf" \in DOMAIN s
  BY DEF Device
<1> HIDE DEF d, w
<1>7. /\ r.dialing = s.dialing /\ r.count = n /\ r.queue = w /\ r.call = s.call /\ DOMAIN r = DOMAIN s
  BY <1>4, <1>6
<1> DEFINE f == [r.call EXCEPT ![c] = NoCall]
           b == r.buf /\ r.chansno # 0
<1>8. t = [r EXCEPT !.call = f, !.buf = b]
  BY <1>3, <1>5 DEF cpvt_free
<1> HIDE DEF r, b
<1>9. t.dialing = s.dialing /\ t.count = n /\ t.queue = w /\ t.call = f
  BY <1>6, <1>7, <1>8
<1>10. t.call[c] = NoCall
  BY <1>0, <1>7, <1>9, Fields
<1>11. /\ DOMAIN w = DOMAIN s.queue /\ Dials(w) = Dials(s.queue)
       /\ \A i \in DOMAIN s.queue : /\ w[i].cmds = s.queue[i].cmds
                                    /\ w[i].of = IF s.queue[i].of = c THEN Sys ELSE s.queue[i].of
       /\ c \notin Diallers(s.queue) => Fewer(s.queue, w)
  <2>1. w = [i \in DOMAIN s.queue |->
               IF s.queue[i].of = c THEN [s.queue[i] EXCEPT !.of = Sys] ELSE s.queue[i]]
    BY <1>4 DEF w
  <2>2. s.queue \in Seq(Tasks)
    BY Fields
  <2> QED BY <1>0, <2>1, <2>2, Relinked
<1>12. s.call[c].state \in call_state_t
  BY <1>0, Fields DEF Call
<1>13. \A st \in call_state_t :
         t.count[st] = IF st = s.call[c].state THEN Dec(s.count[st]) ELSE s.count[st]
  BY <1>9, <1>12, Fields DEF n
<1>14. \A x \in CallIds \ {c} : t.call[x].state = s.call[x].state
  BY <1>2
<1>15. Tally(s) => Tally(t)
  BY <1>1, <1>13, <1>14, CountOff
<1> QED BY <1>1, <1>2, <1>9, <1>10, <1>11, <1>15

(* A call without dial commands goes, or one whose dial command goes, too. *)
LEMMA FreeDialled ==
  ASSUME NEW s \in Device, Listing(s), Dialled(s), NEW c \in Listed(s), NEW t, t = cpvt_free(s, c)
  PROVE  /\ c \notin Diallers(s.queue) => Dialled(t)
         /\ 1 \in Dials(s.queue) /\ s.queue[1].of = c => Dialled(NextTask(t))
<1>0. c \in CallIds /\ s.queue \in Seq(Tasks) /\ c # Sys
  <2>1. c \in CallIds /\ s.queue \in Seq(Tasks)
    BY ListedTypes, Fields
  <2> QED BY <2>1, Limits DEF CallIds, Sys
<1>1. /\ t \in Device /\ \A d \in CallIds \ {c} : t.call[d] = s.call[d]
      /\ DOMAIN t.queue = DOMAIN s.queue /\ Dials(t.queue) = Dials(s.queue)
      /\ c \notin Diallers(s.queue) => Fewer(s.queue, t.queue)
  BY FreeTracked
<1>2. \A i \in DOMAIN s.queue :
        t.queue[i].of = IF s.queue[i].of = c THEN Sys ELSE s.queue[i].of
  BY FreeTracked
<1>3. ASSUME c \notin Diallers(s.queue)
      PROVE  Dialled(t)
  BY <1>1, <1>3 DEF Dialled, Fewer
<1>4. ASSUME 1 \in Dials(s.queue), s.queue[1].of = c
      PROVE  Dialled(NextTask(t))
  <2> DEFINE q == s.queue
             r == t.queue
  <2>1. 1 \in DOMAIN q /\ q # <<>>
    BY <1>4 DEF Dials
  <2>2. /\ r \in Seq(Tasks) /\ r # <<>> /\ Len(r) = Len(q) /\ Len(q) \in Nat
    BY <1>0, <1>1, <2>1, Fields, LenProperties, EmptySeq
  <2>3. /\ DOMAIN Tail(r) = 1 .. Len(q) - 1 /\ \A i \in 1 .. Len(q) - 1 : Tail(r)[i] = r[i + 1]
        /\ DOMAIN q = 1 .. Len(q)
    BY <1>0, <2>1, <2>2, HeadTailProperties, LenProperties
  <2>4. NextTask(t).queue = Tail(r) /\ NextTask(t).call = t.call
    BY <1>1, <2>2, HeadQuiet
  <2>5. Fewer(r, Tail(r))
    BY <2>2, Shrinks
  <2>6. ASSUME NEW i \in Dials(Tail(r))
        PROVE  Tail(r)[i].of # c /\ Tail(r)[i].of \in Diallers(q) /\ i + 1 \in Dials(q)
               /\ Tail(r)[i].of = q[i + 1].of /\ i \in Int
    <3>1. i \in 1 .. Len(q) - 1 /\ i + 1 \in DOMAIN q /\ Tail(r)[i] = r[i + 1] /\ i + 1 # 1
      BY <2>3 DEF Dials
    <3>2. i + 1 \in Dials(r)
      BY <1>1, <3>1 DEF Dials
    <3>3. i + 1 \in Dials(q)
      BY <1>1, <3>2
    <3>4. q[i + 1].of # c
      BY <1>0, <1>4, <3>1, <3>3 DEF Dialled, Twice
    <3>5. Tail(r)[i].of = q[i + 1].of
      BY <1>2, <3>1, <3>4
    <3>6. q[i + 1].of \in Diallers(q)
      BY <3>3, Zenon DEF Diallers
    <3>7. Tail(r)[i].of # c /\ Tail(r)[i].of \in Diallers(q)
      BY <3>4, <3>5, <3>6
    <3>8. i \in Int
      BY <2>2, <3>1
    <3> QED BY <3>3, <3>5, <3>7, <3>8
  <2>7. Sys \notin Diallers(Tail(r)) /\ c \notin Diallers(Tail(r)) /\ Diallers(Tail(r)) \subseteq Diallers(q)
    BY <2>6 DEF Diallers, Dialled
  <2>8. Twice(Tail(r)) = {}
    <3>1. SUFFICES ASSUME NEW a \in Twice(Tail(r)) PROVE FALSE
      OBVIOUS
    <3>2. PICK i, j \in Dials(Tail(r)) : i # j /\ Tail(r)[i].of = a /\ Tail(r)[j].of = a
      BY <3>1 DEF Twice
    <3>3. i + 1 \in Dials(q) /\ q[i + 1].of = a /\ i \in Int
      BY <2>6, <3>2
    <3>4. j + 1 \in Dials(q) /\ q[j + 1].of = a /\ j \in Int
      BY <2>6, <3>2
    <3>5. i + 1 # j + 1 /\ a \in CallIds
      BY <3>1, <3>2, <3>3, <3>4 DEF Twice
    <3> QED BY <3>3, <3>4, <3>5 DEF Dialled, Twice
  <2>9. \A d \in CallIds : d \in Diallers(Tail(r)) => t.call[d].placed
    BY <1>1, <2>7 DEF Dialled
  <2> QED BY <2>4, <2>7, <2>8, <2>9 DEF Dialled
<1> QED BY <1>3, <1>4

-----------------------------------------------------------------------------
(* cpvt_change_state.                                                      *)

(* The counters, the flag and the state change first.                      *)
Restated(s, c, new) == [UpdateFlags(s, s.call[c].state, new) EXCEPT !.call[c].state = new]

LEMMA StateFields ==
  ASSUME NEW s \in Device, NEW c \in CallIds, NEW new \in call_state_t, new # s.call[c].state,
         NEW t, t = Restated(s, c, new)
  PROVE  /\ t \in Device /\ t.chans = s.chans /\ t.chansno = s.chansno /\ t.queue = s.queue
         /\ t.dialing <=> s.dialing /\ ~(new \in {ACTIVE, RELEASED} /\ s.call[c].state \in Outgoing)
         /\ t.call[c] = [s.call[c] EXCEPT !.state = new]
         /\ \A d \in CallIds \ {c} : t.call[d] = s.call[d]
         /\ Counted(s, t, s.call[c].state, new)
<1> DEFINE old == s.call[c].state
           n == [s.count EXCEPT ![old] = Dec(@), ![new] = Inc(@)]
           ends == new \in {ACTIVE, RELEASED}
           e == s.dialing /\ ~(ends /\ old \in {INIT, DIALING, ALERTING})
           r == s.ring /\ ~(ends /\ old = INCOMING)
           w == s.cwaiting /\ ~(ends /\ old = WAITING)
           f == [s.call EXCEPT ![c] = [s.call[c] EXCEPT !.state = new]]
<1>0. old \in call_state_t /\ s.call[c] \in Call
  BY Fields DEF Call
<1>1. n \in [call_state_t -> 0 .. CountValues - 1]
  BY <1>0, Fields, CountRange
<1>2. \A st \in call_state_t : n[st] = IF st = new THEN Inc(s.count[st])
                                       ELSE IF st = old THEN Dec(s.count[st]) ELSE s.count[st]
  BY <1>0, Fields
<1>3. e \in BOOLEAN /\ r \in BOOLEAN /\ w \in BOOLEAN
  BY Fields
<1>4. [s.call[c] EXCEPT !.state = new] \in Call
  BY <1>0 DEF Call
<1>5. /\ f \in [CallIds -> Call] /\ f[c] = [s.call[c] EXCEPT !.state = new]
      /\ \A d \in CallIds \ {c} : f[d] = s.call[d]
  BY <1>4, Fields
<1> DEFINE u == [s EXCEPT !.count = n, !.dialing = e, !.ring = r, !.cwaiting = w]
<1>6. UpdateFlags(s, old, new) = u
  BY DEF UpdateFlags
<1>7. e <=> s.dialing /\ ~(new \in {ACTIVE, RELEASED} /\ old \in Outgoing)
  BY DEF Outgoing
<1> HIDE DEF n, e, r, w
<1>8. /\ u \in Device /\ u.chans = s.chans /\ u.chansno = s.chansno /\ u.queue = s.queue
      /\ u.dialing = e /\ u.count = n /\ u.call = s.call
  BY <1>1, <1>3 DEF Device
<1>9. t = [u EXCEPT !.call[c].state = new]
  BY <1>6 DEF Restated
<1> HIDE DEF u
<1>10. t = [u EXCEPT !.call = f]
  BY <1>8, <1>9
<1> HIDE DEF f
<1>11. /\ t \in Device /\ t.chans = u.chans /\ t.chansno = u.chansno /\ t.count = u.count
       /\ t.dialing = u.dialing /\ t.queue = u.queue /\ t.call = f
  BY <1>5, <1>8, <1>10 DEF Device
<1>12. t \in Device /\ t.chans = s.chans /\ t.chansno = s.chansno /\ t.queue = s.queue
  BY <1>8, <1>11
<1>13. t.dialing <=> s.dialing /\ ~(new \in {ACTIVE, RELEASED} /\ s.call[c].state \in Outgoing)
  BY <1>7, <1>8, <1>11
<1>14. t.call[c] = [s.call[c] EXCEPT !.state = new] /\ \A d \in CallIds \ {c} : t.call[d] = s.call[d]
  BY <1>5, <1>11
<1>15. Counted(s, t, s.call[c].state, new)
  BY <1>2, <1>8, <1>11 DEF Counted
<1> QED BY <1>12, <1>13, <1>14, <1>15

(* The flag goes with the last call it stands for, if the call ends or is  *)
(* answered; what else takes a call from dialling has to clear it.         *)
Answers(s, c, new) == new \in {ACTIVE, RELEASED} \union Outgoing \/ s.call[c].state \notin Outgoing

LEMMA StateTracked ==
  ASSUME NEW s \in Device, NEW c \in Listed(s), NEW new \in call_state_t, new # s.call[c].state,
         NEW t, t = Restated(s, c, new)
  PROVE  /\ Listed(t) = Listed(s)
         /\ Tally(s) => Tally(t)
         /\ t.dialing => s.dialing
         /\ Calling(s) /\ Answers(s, c, new) => Calling(t)
         /\ Dialled(s) => Dialled(t)
         /\ t.call[c].state = new
<1>0. c \in CallIds /\ Listed(s) \subseteq CallIds /\ s.call[c] \in Call
  BY ListedTypes, Fields
<1>1. /\ t \in Device /\ t.chans = s.chans /\ t.queue = s.queue
      /\ t.dialing <=> s.dialing /\ ~(new \in {ACTIVE, RELEASED} /\ s.call[c].state \in Outgoing)
      /\ t.call[c] = [s.call[c] EXCEPT !.state = new]
      /\ \A d \in CallIds \ {c} : t.call[d] = s.call[d]
  BY <1>0, StateFields
<1>2. Counted(s, t, s.call[c].state, new)
  BY <1>0, StateFields
<1>3. t.call[c].state = new /\ t.call[c].placed = s.call[c].placed
  BY <1>0, <1>1 DEF Call
<1>4. Listed(t) = Listed(s)
  BY <1>1 DEF Listed
<1>5. \A d \in CallIds \ {c} : t.call[d].state = s.call[d].state
  BY <1>1
<1>6. Tally(s) => Tally(t)
  BY <1>1, <1>2, <1>3, <1>4, <1>5, Recount
<1>7. ASSUME Calling(s), Answers(s, c, new), t.dialing
      PROVE  \E d \in Listed(t) : t.call[d].state \in Outgoing
  <2>1. PICK d \in Listed(s) : s.call[d].state \in Outgoing
    BY <1>1, <1>7 DEF Calling
  <2>2. CASE d # c
    BY <1>0, <1>4, <1>5, <2>1, <2>2
  <2>3. CASE d = c
    <3>1. new \in Outgoing
      BY <1>1, <1>7, <2>1, <2>3 DEF Answers
    <3> QED BY <1>3, <1>4, <3>1
  <2> QED BY <2>2, <2>3
<1>8. Dialled(s) => Dialled(t)
  BY <1>1, <1>3 DEF Dialled
<1> QED BY <1>1, <1>3, <1>4, <1>6, <1>7, <1>8 DEF Calling

(* A call that is not dialled goes.                                        *)
LEMMA FreeCalling ==
  ASSUME NEW s \in Device, Listing(s), NEW c \in Listed(s), s.call[c].state \notin Outgoing,
         Calling(s), NEW t, t = cpvt_free(s, c)
  PROVE  Calling(t)
<1>1. /\ Listed(t) = Listed(s) \ {c} /\ t.dialing = s.dialing
      /\ \A d \in CallIds \ {c} : t.call[d] = s.call[d]
  BY FreeTracked
<1>2. SUFFICES ASSUME t.dialing PROVE \E d \in Listed(t) : t.call[d].state \in Outgoing
  BY DEF Calling
<1>3. PICK d \in Listed(s) : s.call[d].state \in Outgoing
  BY <1>1, <1>2 DEF Calling
<1>4. d \in Listed(t) /\ d \in CallIds \ {c}
  BY <1>1, <1>3, ListedTypes
<1> QED BY <1>1, <1>3, <1>4

(* What a change of state keeps.                                           *)
Changed(s, c, new, t) ==
  /\ Tally(s) => Tally(t)
  /\ t.dialing => s.dialing
  /\ Calling(s) /\ Answers(s, c, new) => Calling(t)
  /\ Dialled(s) /\ (new # RELEASED \/ c \notin Diallers(s.queue)) => Dialled(t)
  /\ Dialled(s) /\ new = RELEASED /\ 1 \in Dials(s.queue) /\ s.queue[1].of = c => Dialled(NextTask(t))
  /\ new # RELEASED => c \in Listed(t) /\ t.call[c].state = new /\ Fewer(s.queue, t.queue)

LEMMA ChangeTracked ==
  ASSUME NEW s \in Device, Listing(s), NEW c \in Listed(s), NEW new \in call_state_t,
         NEW t \in cpvt_change_state(s, c, new)
  PROVE  Changed(s, c, new, t)
<1>0. c \in CallIds
  BY ListedTypes
<1> DEFINE u == Restated(s, c, new)
<1>1. /\ new = s.call[c].state => t = s
      /\ new # s.call[c].state /\ s.call[c].chan => t \in ChangeAttached(u, c, new)
      /\ new # s.call[c].state /\ ~s.call[c].chan => t = ChangeDetached(u, c, new)
  BY DEF cpvt_change_state, Restated
<1> HIDE DEF u
<1>2. CASE new = s.call[c].state
  <2>1. t = s
    BY <1>1, <1>2
  <2>2. ASSUME 1 \in Dials(s.queue), Dialled(s)
        PROVE  Dialled(NextTask(s))
    <3>1. s.queue # <<>>
      BY <2>2 DEF Dials
    <3>2. Quiet(s, NextTask(s))
      BY <3>1, HeadQuiet
    <3> QED BY <2>2, <3>2, QuietKeeps
  <2> QED BY <1>2, <2>1, <2>2 DEF Changed, Fewer
<1>3. CASE new # s.call[c].state
  <2>0. Alike(s, u) /\ u.queue = s.queue /\ u.call[c].chan = s.call[c].chan /\ u \in Device
    <3> USE DEF u, Restated
    <3> QED BY <1>0, StateAlike
  <2>1. u \in Device /\ u.queue = s.queue
    BY <2>0
  <2>2. /\ Listed(u) = Listed(s)
        /\ Tally(s) => Tally(u)
        /\ u.dialing => s.dialing
        /\ Calling(s) /\ Answers(s, c, new) => Calling(u)
        /\ Dialled(s) => Dialled(u)
        /\ u.call[c].state = new
    BY <1>3, StateTracked DEF u
  <2>3. Listing(u)
    BY <2>0, AlikeKeeps
  <2>4. ASSUME NEW v, Quiet(u, v), v = t, new # RELEASED
        PROVE  Changed(s, c, new, t)
    <3>1. /\ Tally(u) => Tally(t)
          /\ Calling(u) => Calling(t)
          /\ Dialled(u) => Dialled(t)
          /\ Listed(t) = Listed(u)
      BY <2>1, <2>4, QuietKeeps
    <3>2. (t.dialing => u.dialing) /\ t.call[c].state = u.call[c].state /\ Fewer(s.queue, t.queue)
      BY <1>0, <2>1, <2>4 DEF Quiet
    <3> QED BY <2>2, <2>4, <3>1, <3>2 DEF Changed
  <2>5. ASSUME NEW v, Quiet(u, v), v.queue = u.queue, Listing(v), t = cpvt_free(v, c), new = RELEASED
        PROVE  Changed(s, c, new, t)
    <3>1. /\ Tally(u) => Tally(v)
          /\ Calling(u) => Calling(v)
          /\ Dialled(u) => Dialled(v)
          /\ Listed(v) = Listed(u)
      BY <2>1, <2>5, QuietKeeps
    <3>2. v \in Device /\ c \in Listed(v) /\ (v.dialing => u.dialing) /\ v.call[c].state = new
      BY <1>0, <2>2, <2>5, <3>1 DEF Quiet
    <3>3. v.call[c].state \notin Outgoing
      BY <2>5, <3>2 DEF Outgoing, RELEASED, INIT, DIALING, ALERTING
    <3>4. (Tally(v) => Tally(t)) /\ t.dialing = v.dialing
      BY <2>5, <3>2, FreeTracked
    <3>5. Calling(v) => Calling(t)
      BY <2>5, <3>2, <3>3, FreeCalling
    <3>6. Dialled(v) => /\ c \notin Diallers(v.queue) => Dialled(t)
                        /\ 1 \in Dials(v.queue) /\ v.queue[1].of = c => Dialled(NextTask(t))
      BY <2>5, <3>2, FreeDialled
    <3>7. v.queue = s.queue
      BY <2>1, <2>5
    <3> QED BY <2>2, <2>5, <3>1, <3>2, <3>4, <3>5, <3>6, <3>7 DEF Changed
  <2>6. CASE s.call[c].chan
    <3>0. t \in ChangeAttached(u, c, new)
      BY <1>1, <1>3, <2>6
    <3>1. CASE new = ONHOLD
      <4>1. t = cpvt_call_disactivate(u, c) /\ new # RELEASED
        BY <3>0, <3>1 DEF ChangeAttached, ONHOLD, RELEASED, WAITING
      <4> QED BY <1>0, <2>1, <2>4, <4>1, DisactivateQuiet
    <3>2. CASE new = RELEASED
      <4> DEFINE v == cpvt_call_disactivate(u, c)
      <4>1. t = cpvt_free(v, c)
        BY <3>0, <3>2 DEF ChangeAttached, ONHOLD, RELEASED, WAITING
      <4>2. Quiet(u, v) /\ v.queue = u.queue
        BY <1>0, <2>1, DisactivateQuiet
      <4>3. Listing(v)
        BY <2>1, <2>2, <2>3, DisactivateKeeps DEF Preserves
      <4> HIDE DEF v
      <4> QED BY <2>5, <3>2, <4>1, <4>2, <4>3
    <3>3. CASE new = WAITING
      <4>1. t = u /\ new # RELEASED
        BY <3>0, <3>3 DEF ChangeAttached, ONHOLD, RELEASED, WAITING
      <4> QED BY <2>1, <2>4, <4>1, QuietSelf
    <3>4. CASE new \notin {ONHOLD, RELEASED, WAITING}
      <4>1. t \in cpvt_call_activate(u, c)
        BY <3>0, <3>4 DEF ChangeAttached
      <4> QED BY <1>0, <2>1, <2>4, <3>4, <4>1, ActivateQuiet
    <3> QED BY <3>1, <3>2, <3>3, <3>4
  <2>7. CASE ~s.call[c].chan
    <3>0. t = ChangeDetached(u, c, new)
      BY <1>1, <1>3, <2>7
    <3>1. CASE new = RELEASED
      <4>1. t = cpvt_free(u, c)
        BY <3>0, <3>1 DEF ChangeDetached, RELEASED, ACTIVE
      <4> QED BY <2>1, <2>3, <2>5, <3>1, <4>1, QuietSelf
    <3>2. CASE new = ACTIVE
      <4>1. t = u /\ new # RELEASED
        BY <3>0, <3>2 DEF ChangeDetached, RELEASED, ACTIVE
      <4> QED BY <2>1, <2>4, <4>1, QuietSelf
    <3>3. CASE new \notin {RELEASED, ACTIVE}
      <4>1. t = at_enqueue_hangup(u, Sys, u.call[c].idx)
        BY <3>0, <3>3 DEF ChangeDetached
      <4>2. Quiet(u, t)
        BY <2>1, <4>1, HangupFields
      <4> QED BY <2>4, <3>3, <4>2
    <3> QED BY <3>1, <3>2, <3>3
  <2> QED BY <2>6, <2>7
<1> QED BY <1>2, <1>3

-----------------------------------------------------------------------------
(* Reports.                                                                *)

Kept(s) == Tally(s) /\ Calling(s) /\ Dialled(s)

LEMMA QuietKept ==
  ASSUME NEW s \in Device, NEW t, Quiet(s, t), Kept(s)
  PROVE  Kept(t)
BY QuietKeeps DEF Kept

(* start_pbx, when the device does not count as dialling.                  *)
LEMMA StartPbxTracked ==
  ASSUME NEW s, Inv(s), Kept(s), ~s.dialing, Unused(s) # {}, NEW idx \in Nat,
         NEW st \in call_state_t \ {RELEASED}, NEW t \in start_pbx(s, idx, st)
  PROVE  Kept(t)
<1> DEFINE c == LeastOf(Unused(s))
           a == cpvt_alloc(s, c, idx, "in", FALSE)
           Marked(u) == [u EXCEPT !.call[c].need = TRUE, !.call[c].placed = TRUE]
<1>1. \/ \E u \in cpvt_change_state(a, c, st) : t = Marked(u)
      \/ t = at_enqueue_hangup(s, Sys, idx)
      \/ \E u \in cpvt_change_state(a, c, st) : t = cpvt_free(Marked(u), c)
  BY DEF start_pbx
<1>2. c \in CallIds /\ c \notin Listed(s) /\ c # Sys
  <2>1. c \in CallIds /\ c \notin Listed(s)
    BY UnusedCall
  <2> HIDE DEF c
  <2> QED BY <2>1, Limits DEF CallIds, Sys
<1> HIDE DEF c
<1>3. s \in Device /\ Listing(s)
  BY DEF Inv
<1>4. /\ a \in Device /\ Listing(a) /\ Listed(a) = Listed(s) \union {c}
      /\ Tally(a) /\ ~a.dialing /\ Dialled(a) /\ a.queue = s.queue
  <2>1. PICK local \in BOOLEAN : local = FALSE
    OBVIOUS
  <2>2. "in" \in {"in", "out"} /\ a = cpvt_alloc(s, c, idx, "in", local)
    BY <2>1
  <2> HIDE DEF a
  <2>3. a \in Device /\ Listing(a) /\ Listed(a) = Listed(s) \union {c}
    BY <1>2, <1>3, <2>2, AllocKeeps
  <2>4. a.queue = s.queue /\ a.dialing = s.dialing
    BY <1>2, <1>3, <2>2, AllocTracked
  <2>5. (Tally(s) => Tally(a)) /\ (Dialled(s) => Dialled(a))
    BY <1>2, <1>3, <2>2, AllocTracked
  <2> QED BY <2>3, <2>4, <2>5 DEF Kept
<1> HIDE DEF a
<1>5. c \notin Diallers(s.queue)
  <2>1. Diallers(s.queue) \subseteq Owners(s)
    BY DEF Diallers, Dials, Owners
  <2> QED BY <1>2, <1>3, <2>1 DEF Listing
<1>6. ASSUME NEW u \in cpvt_change_state(a, c, st)
      PROVE  /\ Marked(u) \in Device /\ Listing(Marked(u)) /\ c \in Listed(Marked(u))
             /\ Kept(Marked(u)) /\ ~Marked(u).dialing /\ c \notin Diallers(Marked(u).queue)
  <2>1. c \in Listed(a) /\ st \in call_state_t /\ st # RELEASED
    BY <1>4
  <2>2. u \in Device /\ Listing(u)
    BY <1>4, <2>1, ChangeKeeps DEF Preserves
  <2>3. Changed(a, c, st, u)
    BY <1>4, <2>1, ChangeTracked
  <2>4. Kept(u) /\ ~u.dialing /\ Fewer(a.queue, u.queue) /\ c \in Listed(u)
    BY <1>4, <2>1, <2>3 DEF Changed, Kept, Calling
  <2> DEFINE y == [u.call[c] EXCEPT !.need = TRUE, !.placed = TRUE]
  <2>5. u.call[c] \in Call
    BY <1>2, <2>2, Fields
  <2>6. y \in Call /\ y.state = u.call[c].state /\ y.placed /\ Twin(u.call[c], y)
    BY <2>5, Twins DEF Call
  <2>7. Marked(u) = [u EXCEPT !.call = [u.call EXCEPT ![c] = y]]
    BY <1>2, <2>2
  <2> HIDE DEF y
  <2>8. Alike(u, Marked(u))
    BY <1>2, <2>2, <2>6, <2>7, OneTwin
  <2>9. Quiet(u, Marked(u)) /\ Marked(u).queue = u.queue
    BY <1>2, <2>2, <2>6, <2>7, OneQuiet
  <2> HIDE DEF Marked
  <2>10. Marked(u) \in Device /\ Listing(Marked(u)) /\ Listed(Marked(u)) = Listed(u)
    BY <2>2, <2>8, AlikeKeeps DEF Alike
  <2>11. Kept(Marked(u)) /\ ~Marked(u).dialing
    BY <2>2, <2>4, <2>9, QuietKept DEF Quiet
  <2>12. c \notin Diallers(Marked(u).queue)
    BY <1>4, <1>5, <2>4, <2>9 DEF Fewer
  <2> QED BY <2>4, <2>10, <2>11, <2>12
<1> HIDE DEF Marked
<1>7. CASE \E u \in cpvt_change_state(a, c, st) : t = Marked(u)
  BY <1>6, <1>7
<1>8. CASE t = at_enqueue_hangup(s, Sys, idx)
  <2>1. Quiet(s, t)
    BY <1>3, <1>8, HangupFields
  <2> QED BY <1>3, <2>1, QuietKept
<1>9. CASE \E u \in cpvt_change_state(a, c, st) : t = cpvt_free(Marked(u), c)
  <2>1. PICK u \in cpvt_change_state(a, c, st) : t = cpvt_free(Marked(u), c)
    BY <1>9
  <2> DEFINE v == Marked(u)
  <2>2. /\ v \in Device /\ Listing(v) /\ c \in Listed(v)
        /\ Kept(v) /\ ~v.dialing /\ c \notin Diallers(v.queue)
    BY <1>6
  <2>3. t = cpvt_free(v, c)
    BY <2>1
  <2> HIDE DEF v
  <2>4. (Tally(v) => Tally(t)) /\ t.dialing = v.dialing
    BY <2>2, <2>3, FreeTracked
  <2>5. Dialled(t)
    BY <2>2, <2>3, FreeDialled DEF Kept
  <2> QED BY <2>2, <2>4, <2>5 DEF Kept, Calling
<1> QED BY <1>1, <1>7, <1>8, <1>9

(* What Follows does, by the state that was reported.                      *)
After(s, found, idx, st, t) ==
  /\ st \in {DIALING, ALERTING} =>
       \/ t = Flags(s, FALSE, TRUE, FALSE)
       \/ \E c \in found : t = Insert(Flags(s, FALSE, TRUE, FALSE), c, <<"CHLD_3">>)
  /\ st = INCOMING =>
       \/ t = Flags(s, TRUE, FALSE, FALSE)
       \/ t \in start_pbx(Flags(s, TRUE, FALSE, FALSE), idx, st)
  /\ st = WAITING =>
       \/ t = Flags(s, FALSE, FALSE, TRUE)
       \/ t \in start_pbx(Flags(s, FALSE, FALSE, TRUE), idx, st)
  /\ st = RELEASED => t = Flags(s, FALSE, FALSE, FALSE)
  /\ st \notin {DIALING, ALERTING, INCOMING, WAITING, RELEASED} => t = s

LEMMA FollowsCases ==
  ASSUME NEW s, NEW found, NEW idx, NEW dir, NEW st, NEW enabled,
         NEW t \in Follows(s, found, idx, dir, st, enabled)
  PROVE  After(s, found, idx, st, t)
<1> DEFINE dialled == Flags(s, FALSE, TRUE, FALSE)
           rung == Flags(s, TRUE, FALSE, FALSE)
           held == Flags(s, FALSE, FALSE, TRUE)
           over == Flags(s, FALSE, FALSE, FALSE)
           conf == \E c \in found : s.call[c].opts = "conference"
           task == Insert(dialled, CHOOSE c \in found : TRUE, <<"CHLD_3">>)
           a == start_pbx(rung, idx, st)
           b == start_pbx(held, idx, st)
<1>1. Follows(s, found, idx, dir, st, enabled) =
        CASE st = DIALING -> {dialled}
          [] st = ALERTING -> {IF conf THEN task ELSE dialled}
          [] st = INCOMING -> IF enabled THEN a ELSE {rung}
          [] st = WAITING -> IF enabled /\ dir = "in" THEN b ELSE {held}
          [] st = RELEASED -> {over}
          [] OTHER -> {s}
  BY DEF Follows
<1>2. conf => \E c \in found : task = Insert(dialled, c, <<"CHLD_3">>)
  OBVIOUS
<1> HIDE DEF dialled, rung, held, over, conf, task, a, b
<1>3. /\ st \in {DIALING, ALERTING} => t = dialled \/ (conf /\ t = task)
      /\ st = INCOMING => t = rung \/ t \in a
      /\ st = WAITING => t = held \/ t \in b
      /\ st = RELEASED => t = over
      /\ st \notin {DIALING, ALERTING, INCOMING, WAITING, RELEASED} => t = s
  BY <1>1 DEF DIALING, ALERTING, INCOMING, WAITING, RELEASED
<1>4. st \in {DIALING, ALERTING} => t = dialled \/ \E c \in found : t = Insert(dialled, c, <<"CHLD_3">>)
  BY <1>2, <1>3
<1> QED BY <1>3, <1>4 DEF After, dialled, rung, held, over, a, b

(* What follows a change of state in handle_clcc.                          *)
LEMMA FollowsTracked ==
  ASSUME NEW s, Inv(s), Tally(s), Dialled(s), NEW found \in SUBSET Listed(s), NEW idx \in Nat,
         NEW dir, NEW st \in call_state_t, NEW enabled,
         st \in {INCOMING, WAITING} => Unused(s) # {},
         st \in {DIALING, ALERTING} => \E c \in Listed(s) : s.call[c].state \in Outgoing,
         st \notin {DIALING, ALERTING, INCOMING, WAITING, RELEASED} => Calling(s),
         NEW t \in Follows(s, found, idx, dir, st, enabled)
  PROVE  Kept(t)
<1>0. s \in Device
  BY DEF Inv
<1> DEFINE dialled == Flags(s, FALSE, TRUE, FALSE)
           rung == Flags(s, TRUE, FALSE, FALSE)
           held == Flags(s, FALSE, FALSE, TRUE)
           over == Flags(s, FALSE, FALSE, FALSE)
<1>1. /\ st \in {DIALING, ALERTING} =>
           t = dialled \/ \E c \in found : t = Insert(dialled, c, <<"CHLD_3">>)
      /\ st = INCOMING => t = rung \/ t \in start_pbx(rung, idx, st)
      /\ st = WAITING => t = held \/ t \in start_pbx(held, idx, st)
      /\ st = RELEASED => t = over
      /\ st \notin {DIALING, ALERTING, INCOMING, WAITING, RELEASED} => t = s
  <2>1. After(s, found, idx, st, t)
    BY FollowsCases
  <2> QED BY <2>1 DEF After
<1>2. found \subseteq CallIds
  BY <1>0, ListedTypes
<1>3. ASSUME NEW r \in BOOLEAN, NEW e \in BOOLEAN, NEW w \in BOOLEAN, NEW u, u = Flags(s, r, e, w)
      PROVE  /\ Inv(u) /\ u \in Device /\ Listed(u) = Listed(s) /\ Unused(u) = Unused(s)
             /\ Tally(u) /\ Dialled(u) /\ u.dialing = e /\ u.call = s.call
  <2>1. Alike(s, u)
    BY <1>0, <1>3, FlagsAlike
  <2>2. Inv(u) /\ Listed(u) = Listed(s)
    BY <1>0, <2>1, PreservesInv, AlikeKeeps
  <2>3. /\ u \in Device /\ u.chans = s.chans /\ u.count = s.count /\ u.call = s.call
        /\ u.queue = s.queue /\ u.dialing = e
    BY <1>0, <1>3 DEF Flags, Device
  <2>4. Tally(u) /\ Dialled(u)
    BY <2>2, <2>3 DEF Tally, Dialled, In
  <2> QED BY <2>2, <2>3, <2>4 DEF Unused
<1>4. PICK yes \in BOOLEAN, no \in BOOLEAN : yes = TRUE /\ no = FALSE
  OBVIOUS
<1>5. /\ dialled = Flags(s, no, yes, no) /\ rung = Flags(s, yes, no, no)
      /\ held = Flags(s, no, no, yes) /\ over = Flags(s, no, no, no)
  BY <1>4
<1> HIDE DEF dialled, rung, held, over
<1>6. CASE st \in {DIALING, ALERTING}
  <2>1. /\ dialled \in Device /\ Tally(dialled) /\ Dialled(dialled) /\ Listed(dialled) = Listed(s)
        /\ dialled.call = s.call
    BY <1>3, <1>5
  <2>2. Kept(dialled)
    BY <1>6, <2>1 DEF Kept, Calling
  <2>3. CASE t = dialled
    BY <2>2, <2>3
  <2>4. ASSUME NEW c \in found, t = Insert(dialled, c, <<"CHLD_3">>)
        PROVE  Kept(t)
    <3>1. <<"CHLD_3">> \notin {<<"D">>, <<"CHLD_2", "D">>} /\ c \in CallIds \union {Sys}
      BY <1>2
    <3>2. [cmds |-> <<"CHLD_3">>, of |-> c] \in Tasks
      BY <3>1, TaskKinds
    <3>3. Quiet(dialled, t)
      BY <2>1, <2>4, <3>1, <3>2, InsertFields
    <3> QED BY <2>1, <2>2, <3>3, QuietKept
  <2> QED BY <1>1, <1>6, <2>3, <2>4
<1>7. ASSUME NEW u \in {rung, held, over}
      PROVE  Inv(u) /\ Kept(u) /\ ~u.dialing /\ Unused(u) = Unused(s)
  <2>1. Inv(u) /\ Tally(u) /\ Dialled(u) /\ u.dialing = no /\ Unused(u) = Unused(s)
    BY <1>3, <1>5, <1>7
  <2> QED BY <1>4, <2>1 DEF Kept, Calling
<1>8. CASE st = INCOMING
  <2>1. st \in call_state_t \ {RELEASED} /\ Unused(rung) # {}
    BY <1>7, <1>8 DEF call_state_t, INCOMING, RELEASED
  <2>2. Inv(rung) /\ Kept(rung) /\ ~rung.dialing
    BY <1>7
  <2> QED BY <1>1, <1>8, <2>1, <2>2, StartPbxTracked
<1>9. CASE st = WAITING
  <2>1. st \in call_state_t \ {RELEASED} /\ Unused(held) # {}
    BY <1>7, <1>9 DEF call_state_t, WAITING, RELEASED
  <2>2. Inv(held) /\ Kept(held) /\ ~held.dialing
    BY <1>7
  <2> QED BY <1>1, <1>9, <2>1, <2>2, StartPbxTracked
<1>10. CASE st = RELEASED
  BY <1>1, <1>7, <1>10
<1>11. CASE st \notin {DIALING, ALERTING, INCOMING, WAITING, RELEASED}
  BY <1>1, <1>11 DEF Kept
<1> QED BY <1>6, <1>8, <1>9, <1>10, <1>11

(* A report of a call that is known: the modem does not report the release *)
(* of a call whose ATD it has not answered, nor that a dialled call is     *)
(* held.                                                                   *)
LEMMA KnownTracked ==
  ASSUME NEW s, Inv(s), Kept(s), NEW c \in Listed(s), NEW idx \in Nat, NEW dir,
         NEW st \in call_state_t, NEW mpty, NEW enabled,
         st \in {INCOMING, WAITING} => Unused(s) # {},
         st = RELEASED => c \notin Diallers(s.queue),
         st = ONHOLD => s.call[c].state \in {ACTIVE, ONHOLD},
         NEW t \in ClccKnown(s, c, idx, dir, st, mpty, enabled)
  PROVE  Kept(t)
<1>0. s \in Device /\ Listing(s)
  BY DEF Inv
<1>1. \/ t = s
      \/ t = at_enqueue_hangup(s, Sys, idx)
      \/ \E u \in cpvt_change_state(s, c, st) :
           t \in Follows(u, {c} \intersect Listed(u), idx, dir, st, enabled)
  BY DEF ClccKnown
<1>2. CASE t = s
  BY <1>2
<1>3. CASE t = at_enqueue_hangup(s, Sys, idx)
  <2>1. Quiet(s, t)
    BY <1>0, <1>3, HangupFields
  <2> QED BY <1>0, <2>1, QuietKept
<1>4. CASE \E u \in cpvt_change_state(s, c, st) :
             t \in Follows(u, {c} \intersect Listed(u), idx, dir, st, enabled)
  <2>1. PICK u \in cpvt_change_state(s, c, st) :
               t \in Follows(u, {c} \intersect Listed(u), idx, dir, st, enabled)
    BY <1>4
  <2>2. Preserves(s, u)
    BY <1>0, ChangeKeeps
  <2>3. Inv(u) /\ Unused(s) \subseteq Unused(u)
    BY <2>2, PreservesInv DEF Preserves, Unused
  <2>4. Changed(s, c, st, u)
    BY <1>0, ChangeTracked
  <2>5. Tally(u) /\ Dialled(u)
    BY <2>4 DEF Changed, Kept
  <2>6. st \in {INCOMING, WAITING} => Unused(u) # {}
    BY <2>3
  <2>7. st \in {DIALING, ALERTING} => \E d \in Listed(u) : u.call[d].state \in Outgoing
    BY <2>4 DEF Changed, Outgoing, DIALING, ALERTING, RELEASED
  <2>8. ASSUME st \notin {DIALING, ALERTING, INCOMING, WAITING, RELEASED}
        PROVE  Calling(u)
    <3>1. Answers(s, c, st)
      <4>1. CASE st = ONHOLD
        BY <4>1 DEF Answers, Outgoing, INIT, DIALING, ALERTING, ACTIVE, ONHOLD
      <4>2. CASE st # ONHOLD
        BY <2>8, <4>2 DEF Answers, Outgoing, call_state_t
      <4> QED BY <4>1, <4>2
    <3> QED BY <2>4, <3>1 DEF Changed, Kept
  <2>9. {c} \intersect Listed(u) \in SUBSET Listed(u)
    OBVIOUS
  <2> QED BY <2>1, <2>3, <2>5, <2>6, <2>7, <2>8, <2>9, FollowsTracked
<1> QED BY <1>1, <1>2, <1>3, <1>4

(* A report of a call that is not.                                         *)
LEMMA UnknownTracked ==
  ASSUME NEW s, Inv(s), Kept(s), NEW idx \in Nat, NEW dir, NEW st \in call_state_t, NEW mpty,
         NEW enabled, st \in {INCOMING, WAITING} => Unused(s) # {},
         \A d \in Listed(s) : s.call[d].idx # idx,
         NEW t \in ClccUnknown(s, idx, dir, st, mpty, enabled)
  PROVE  Kept(t)
<1>0. s \in Device /\ Listing(s)
  BY DEF Inv
<1>1. CASE st \notin {DIALING, ALERTING}
  <2>1. t \in Follows(s, {}, idx, dir, st, enabled)
    BY <1>1 DEF ClccUnknown
  <2>2. {} \in SUBSET Listed(s) /\ Tally(s) /\ Dialled(s) /\ Calling(s)
    BY DEF Kept
  <2> QED BY <1>1, <2>1, <2>2, FollowsTracked
<1>2. CASE st \in {DIALING, ALERTING}
  <2> DEFINE found == IF mpty = "yes" /\ ~Multiparty THEN {} ELSE FindLastInitialized(s)
             c == CHOOSE c \in found : TRUE
             y == [s.call[c] EXCEPT !.idx = idx]
             n == [s EXCEPT !.call[c].idx = idx]
  <2>1. \/ t = at_enqueue_hangup(s, Sys, idx)
        \/ found # {} /\ t = n
        \/ found # {} /\ \E u \in cpvt_change_state(n, c, st) :
                           t \in Follows(u, {c}, idx, dir, st, enabled)
    BY <1>2 DEF ClccUnknown
  <2>2. found \subseteq Listed(s)
    BY <1>0, FoundLast
  <2> HIDE DEF found
  <2>3. found # {} => c \in Listed(s) /\ c \in CallIds
    BY <1>0, <2>2, ListedTypes
  <2> HIDE DEF c
  <2>4. found # {} => Inv(n) /\ Listed(n) = Listed(s)
    BY <2>3, NumberedKeeps
  <2>5. ASSUME found # {}
        PROVE  Kept(n)
    <3>1. s.call[c] \in Call /\ c \in CallIds
      BY <1>0, <2>3, <2>5, Fields
    <3>2. y \in Call /\ y.state = s.call[c].state /\ y.placed = s.call[c].placed
      BY <3>1 DEF Call
    <3>3. n = [s EXCEPT !.call = [s.call EXCEPT ![c] = y]]
      BY <3>1
    <3> HIDE DEF y, n
    <3>4. Quiet(s, n)
      BY <1>0, <3>1, <3>2, <3>3, OneQuiet
    <3> QED BY <1>0, <3>4, QuietKept
  <2> HIDE DEF n
  <2>6. CASE t = at_enqueue_hangup(s, Sys, idx)
    <3>1. Quiet(s, t)
      BY <1>0, <2>6, HangupFields
    <3> QED BY <1>0, <3>1, QuietKept
  <2>7. CASE found # {} /\ t = n
    BY <2>5, <2>7
  <2>8. CASE found # {} /\ \E u \in cpvt_change_state(n, c, st) :
                             t \in Follows(u, {c}, idx, dir, st, enabled)
    <3>1. PICK u \in cpvt_change_state(n, c, st) : t \in Follows(u, {c}, idx, dir, st, enabled)
      BY <2>8
    <3>2. n \in Device /\ Listing(n) /\ c \in Listed(n) /\ Inv(n) /\ Kept(n)
      BY <2>3, <2>4, <2>5, <2>8 DEF Inv
    <3>3. st # RELEASED /\ st \notin {INCOMING, WAITING} /\ st \in Outgoing
      BY <1>2 DEF Outgoing, DIALING, ALERTING, RELEASED, INCOMING, WAITING
    <3>4. Preserves(n, u) /\ Listed(u) = Listed(n)
      BY <3>2, <3>3, ChangeKeeps
    <3>5. Inv(u) /\ {c} \in SUBSET Listed(u)
      BY <3>2, <3>4, PreservesInv
    <3>6. Changed(n, c, st, u)
      BY <3>2, ChangeTracked
    <3>7. Tally(u) /\ Dialled(u) /\ \E d \in Listed(u) : u.call[d].state \in Outgoing
      BY <3>2, <3>3, <3>6 DEF Changed, Kept
    <3> QED BY <1>2, <3>1, <3>3, <3>5, <3>7, FollowsTracked
  <2> QED BY <2>1, <2>6, <2>7, <2>8
<1> QED BY <1>1, <1>2

(* DialPending is about the dial commands.                                 *)
LEMMA Pending ==
  ASSUME NEW s \in Device, NEW c \in Diallers(s.queue)
  PROVE  DialPending(s, c)
<1>1. PICK i \in Dials(s.queue) : s.queue[i].of = c
  BY DEF Diallers
<1>2. i \in DOMAIN s.queue /\ s.queue[i].cmds \in {<<"D">>, <<"CHLD_2", "D">>}
  BY DEF Dials
<1>3. <<"D">>[Len(<<"D">>)] = "D"
  OBVIOUS
<1>4. <<"CHLD_2", "D">>[Len(<<"CHLD_2", "D">>)] = "D"
  OBVIOUS
<1>5. s.queue[i].cmds[Len(s.queue[i].cmds)] = "D"
  <2>1. CASE s.queue[i].cmds = <<"D">>
    BY <1>3, <2>1, Zenon
  <2>2. CASE s.queue[i].cmds = <<"CHLD_2", "D">>
    BY <1>4, <2>2, Zenon
  <2> QED BY <1>2, <2>1, <2>2
<1> QED BY <1>1, <1>2, <1>5 DEF DialPending

LEMMA ReportTracked ==
  ASSUME ~LateReleases, Inv(dev), Kept(dev), Report
  PROVE  Kept(dev')
<1>1. PICK idx \in Indices, dir \in {"in", "out"}, st \in Reported, mpty \in Multi, enabled \in Enabled :
        Plausible(dev, idx, dir, st) /\ dev' \in handle_clcc(dev, idx, dir, st, mpty, enabled)
  BY DEF Report, Step
<1>2. idx \in Nat /\ st \in call_state_t
  BY CallsAssumption, Zenon
<1>3. dev \in Device
  BY DEF Inv
<1>4. /\ FindByIdx(dev, idx) \subseteq Listed(dev)
      /\ FindByIdx(dev, idx) = {} => \A d \in Listed(dev) : dev.call[d].idx # idx
  BY <1>3, FoundByIdx
<1>5. st \in {INCOMING, WAITING} => dir = "in" /\ Unused(dev) # {}
  BY <1>1 DEF Plausible
<1>6. CASE FindByIdx(dev, idx) = {}
  <2>1. dev' \in ClccUnknown(dev, idx, dir, st, mpty, enabled)
    BY <1>1, <1>6 DEF handle_clcc
  <2> QED BY <1>2, <1>4, <1>5, <1>6, <2>1, UnknownTracked
<1>7. CASE FindByIdx(dev, idx) # {}
  <2> DEFINE c == CHOOSE c \in FindByIdx(dev, idx) : TRUE
  <2>1. dev' \in ClccKnown(dev, c, idx, dir, st, mpty, enabled)
    BY <1>1, <1>7 DEF handle_clcc
  <2>2. c \in FindByIdx(dev, idx)
    BY <1>7
  <2> HIDE DEF c
  <2>3. st = RELEASED => ~DialPending(dev, c)
    BY <1>1, <2>2 DEF Plausible
  <2>4. st = RELEASED => c \notin Diallers(dev.queue)
    BY <1>3, <2>3, Pending
  <2>5. st = ONHOLD => dev.call[c].state \in {ACTIVE, ONHOLD}
    BY <1>1, <2>2 DEF Plausible
  <2> QED BY <1>2, <1>4, <1>5, <2>1, <2>2, <2>4, <2>5, KnownTracked
<1> QED BY <1>6, <1>7

-----------------------------------------------------------------------------
(* The callbacks of channels.                                              *)

LEMMA RequestTracked ==
  ASSUME Inv(dev), Kept(dev), Request
  PROVE  Kept(dev')
<1> DEFINE c == LeastOf(Unused(dev))
           idx == pvt_get_pseudo_call_idx(dev)
<1>1. PICK local \in Locals : Unused(dev) # {} /\ dev' = cpvt_alloc(dev, c, idx, "out", local)
  BY DEF Request, Step
<1>2. local \in BOOLEAN /\ "out" \in {"in", "out"}
  BY CallsAssumption, Zenon
<1>3. c \in CallIds /\ c \notin Listed(dev)
  BY <1>1, UnusedCall
<1> HIDE DEF c
<1>4. dev \in Device /\ Listing(dev)
  BY DEF Inv
<1>5. idx \in Nat
  BY <1>3, <1>4, PseudoIdx
<1> HIDE DEF idx
<1>6. (Tally(dev) => Tally(dev')) /\ (Calling(dev) => Calling(dev')) /\ (Dialled(dev) => Dialled(dev'))
  BY <1>1, <1>2, <1>3, <1>4, <1>5, AllocTracked
<1> QED BY <1>6 DEF Kept

(* A call that is dialled has no dial command yet, and is placed.          *)
LEMMA DialTracked ==
  ASSUME Inv(dev), Kept(dev), NEW c \in CallIds, Dial(c)
  PROVE  Kept(dev')
<1> DEFINE s(opts) == [dev EXCEPT !.call[c].opts = opts]
           y(opts) == [dev.call[c] EXCEPT !.opts = opts]
<1>1. PICK opts \in Options : dev' = at_enqueue_dial(s(opts), c)
  BY DEF Dial, Step
<1>2. opts \in {"", "holdother", "conference"} /\ c # Sys /\ ~dev.call[c].placed
  <2>1. opts \in {"", "holdother", "conference"}
    BY CallsAssumption, Zenon
  <2>2. c # Sys
    BY Limits DEF CallIds, Sys
  <2> QED BY <2>1, <2>2 DEF Dial
<1>3. dev \in Device /\ dev.call[c] \in Call
  BY Fields DEF Inv
<1>4. /\ y(opts) \in Call /\ y(opts).state = dev.call[c].state
      /\ dev.call[c].placed => y(opts).placed
  BY <1>2, <1>3 DEF Call
<1>5. s(opts) = [dev EXCEPT !.call = [dev.call EXCEPT ![c] = y(opts)]]
  BY <1>3
<1> HIDE DEF y
<1>6. Quiet(dev, s(opts)) /\ s(opts).queue = dev.queue
  BY <1>3, <1>4, <1>5, OneQuiet
<1> DEFINE u == s(opts)
           cmds == IF u.count[ACTIVE] > 0 /\ u.call[c].opts # "" THEN <<"CHLD_2", "D">> ELSE <<"D">>
           i == Insert(u, c, cmds)
           z == [i.call[c] EXCEPT !.need = TRUE, !.placed = TRUE]
<1>7. dev' = [i EXCEPT !.call[c].need = TRUE, !.call[c].placed = TRUE]
  BY <1>1 DEF at_enqueue_dial
<1> HIDE DEF s
<1>8. u \in Device /\ Kept(u) /\ u.queue = dev.queue
  BY <1>3, <1>6, QuietKept DEF Quiet
<1>9. cmds \in {<<"D">>, <<"CHLD_2", "D">>}
  OBVIOUS
<1> HIDE DEF u, cmds
<1>10. [cmds |-> cmds, of |-> c] \in Tasks
  BY <1>9, TaskKinds
<1>11. c \notin Diallers(u.queue)
  BY <1>2, <1>8 DEF Kept, Dialled
<1>12. /\ i \in Device /\ i.chans = u.chans /\ i.chansno = u.chansno /\ i.count = u.count
       /\ i.dialing = u.dialing /\ i.call = u.call
       /\ c \notin Diallers(u.queue) =>
            /\ Diallers(i.queue) \subseteq Diallers(u.queue) \union {c}
            /\ Twice(i.queue) \subseteq Twice(u.queue)
  BY <1>8, <1>10, InsertFields
<1> HIDE DEF i
<1>13. i \in Device /\ i.call[c] \in Call
  BY <1>12, Fields
<1>14. z \in Call /\ z.state = i.call[c].state /\ z.placed /\ (i.call[c].placed => z.placed)
  BY <1>13 DEF Call
<1>15. dev' = [i EXCEPT !.call = [i.call EXCEPT ![c] = z]]
  BY <1>7, <1>12
<1> HIDE DEF z
<1>16. /\ Quiet(i, dev') /\ dev'.queue = i.queue /\ dev'.call[c] = z
       /\ \A d \in CallIds \ {c} : dev'.call[d] = i.call[d]
  BY <1>13, <1>14, <1>15, OneQuiet
<1>17. Listed(i) = Listed(u) /\ \A st : In(i, st) = In(u, st)
  BY <1>12 DEF Listed, In
<1>18. Tally(i) /\ Calling(i)
  BY <1>8, <1>12, <1>17 DEF Kept, Tally, Calling
<1>19. Tally(dev') /\ Calling(dev')
  BY <1>12, <1>16, <1>18, QuietKeeps
<1>20. Dialled(dev')
  <2>1. Sys \notin Diallers(dev'.queue) /\ Twice(dev'.queue) = {}
    <3>1. Sys \notin Diallers(u.queue) /\ Twice(u.queue) = {}
      BY <1>8 DEF Kept, Dialled
    <3>2. /\ Diallers(dev'.queue) \subseteq Diallers(u.queue) \union {c}
          /\ Twice(dev'.queue) \subseteq Twice(u.queue)
      BY <1>11, <1>12, <1>16
    <3> QED BY <1>2, <3>1, <3>2
  <2>2. ASSUME NEW d \in CallIds, d \in Diallers(dev'.queue)
        PROVE  dev'.call[d].placed
    <3>1. d = c \/ d \in Diallers(u.queue)
      BY <1>11, <1>12, <1>16, <2>2
    <3>2. CASE d = c
      BY <1>14, <1>16, <3>2
    <3>3. CASE d # c
      BY <1>8, <1>12, <1>16, <3>1, <3>3 DEF Kept, Dialled
    <3> QED BY <3>2, <3>3
  <2> QED BY <2>1, <2>2 DEF Dialled
<1> QED BY <1>19, <1>20 DEF Kept

LEMMA DetachQuiet ==
  ASSUME NEW s \in Device, NEW c \in CallIds, NEW t, t = Detached(s, c)
  PROVE  Quiet(s, t)
<1> DEFINE y == [s.call[c] EXCEPT !.chan = FALSE, !.fd = "none", !.hup = FALSE]
<1>1. s.call[c] \in Call
  BY Fields
<1>2. y \in Call /\ y.state = s.call[c].state /\ (s.call[c].placed => y.placed)
  BY <1>1 DEF Call
<1>3. t = [s EXCEPT !.call = [s.call EXCEPT ![c] = y]]
  BY DEF Detached
<1> HIDE DEF y
<1> QED BY <1>2, <1>3, OneQuiet

(* Marks on a call.                                                        *)
LEMMA NeedQuiet ==
  ASSUME NEW s \in Device, NEW c \in CallIds, NEW b \in BOOLEAN,
         NEW t, t = [s EXCEPT !.call[c].need = b]
  PROVE  Quiet(s, t) /\ t.queue = s.queue
<1> DEFINE y == [s.call[c] EXCEPT !.need = b]
<1>1. s.call[c] \in Call
  BY Fields
<1>2. y \in Call /\ y.state = s.call[c].state /\ (s.call[c].placed => y.placed)
  BY <1>1 DEF Call
<1>3. t = [s EXCEPT !.call = [s.call EXCEPT ![c] = y]]
  OBVIOUS
<1> HIDE DEF y
<1> QED BY <1>2, <1>3, OneQuiet

LEMMA HupQuiet ==
  ASSUME NEW s \in Device, NEW c \in CallIds, NEW b \in BOOLEAN,
         NEW t, t = [s EXCEPT !.call[c].hup = b]
  PROVE  Quiet(s, t) /\ t.queue = s.queue
<1> DEFINE y == [s.call[c] EXCEPT !.hup = b]
<1>1. s.call[c] \in Call
  BY Fields
<1>2. y \in Call /\ y.state = s.call[c].state /\ (s.call[c].placed => y.placed)
  BY <1>1 DEF Call
<1>3. t = [s EXCEPT !.call = [s.call EXCEPT ![c] = y]]
  OBVIOUS
<1> HIDE DEF y
<1> QED BY <1>2, <1>3, OneQuiet

LEMMA HangupTracked ==
  ASSUME Inv(dev), Kept(dev), NEW c \in CallIds, Hangup(c)
  PROVE  Kept(dev')
<1> DEFINE h == at_enqueue_hangup(dev, c, dev.call[c].idx)
           g == [h EXCEPT !.call[c].need = FALSE]
           s == IF dev.call[c].need THEN g ELSE dev
           v == cpvt_call_disactivate(s, c)
<1>1. dev' = Detached(v, c)
  BY DEF Hangup, Step, Detached
<1>2. dev \in Device
  BY DEF Inv
<1>3. Quiet(dev, h)
  BY <1>2, HangupFields
<1> HIDE DEF h
<1>4. h \in Device /\ Kept(h)
  BY <1>2, <1>3, QuietKept DEF Quiet
<1>5. Quiet(h, g)
  <2>1. PICK b \in BOOLEAN : b = FALSE
    OBVIOUS
  <2>2. g = [h EXCEPT !.call[c].need = b]
    BY <2>1
  <2> HIDE DEF g
  <2> QED BY <1>4, <2>2, NeedQuiet
<1> HIDE DEF g
<1>6. g \in Device /\ Kept(g)
  BY <1>4, <1>5, QuietKept DEF Quiet
<1>7. s \in Device /\ Kept(s)
  BY <1>2, <1>6
<1> HIDE DEF s
<1>8. Quiet(s, v)
  BY <1>7, DisactivateQuiet
<1> HIDE DEF v
<1>9. v \in Device /\ Kept(v)
  BY <1>7, <1>8, QuietKept DEF Quiet
<1>10. Quiet(v, dev')
  BY <1>1, <1>9, DetachQuiet
<1> QED BY <1>9, <1>10, QuietKept

LEMMA AnswerTracked ==
  ASSUME Inv(dev), Kept(dev), NEW c \in CallIds, Answer(c) \/ Activate(c)
  PROVE  Kept(dev')
<1>1. dev \in Device
  BY DEF Inv
<1>2. PICK cmds \in {<<"A">>, <<"CHLD_2x">>} : dev' = Insert(dev, c, cmds)
  BY DEF Answer, Activate, Step
<1>3. cmds \notin {<<"D">>, <<"CHLD_2", "D">>}
  OBVIOUS
<1>4. [cmds |-> cmds, of |-> c] \in Tasks
  BY TaskKinds
<1>5. Quiet(dev, dev')
  BY <1>1, <1>2, <1>3, <1>4, InsertFields
<1> QED BY <1>1, <1>5, QuietKept

LEMMA CaptureLostTracked ==
  ASSUME Inv(dev), Kept(dev), NEW c \in CallIds, CaptureLost(c)
  PROVE  Kept(dev')
<1> DEFINE v == cpvt_call_disactivate(dev, c)
<1>1. dev' = [v EXCEPT !.call[c].hup = TRUE]
  BY DEF CaptureLost, Step
<1>2. dev \in Device
  BY DEF Inv
<1>3. Quiet(dev, v)
  BY <1>2, DisactivateQuiet
<1> HIDE DEF v
<1>4. v \in Device /\ Kept(v)
  BY <1>2, <1>3, QuietKept DEF Quiet
<1>5. Quiet(v, dev')
  <2>1. PICK b \in BOOLEAN : b = TRUE
    OBVIOUS
  <2>2. dev' = [v EXCEPT !.call[c].hup = b]
    BY <1>1, <2>1
  <2> QED BY <1>4, <2>2, HupQuiet
<1> QED BY <1>4, <1>5, QuietKept

-----------------------------------------------------------------------------
(* The results of commands, and the end of the session.                    *)

(* Marks on the owner of a command.                                        *)
LEMMA MarkQuiet ==
  ASSUME NEW s \in Device, NEW c \in CallIds \union {Sys}, NEW b \in BOOLEAN
  PROVE  Quiet(s, SetNeed(s, c, b)) /\ Quiet(s, QueueHangup(s, c))
<1>1. CASE c = Sys
  BY <1>1, QuietSelf DEF SetNeed, QueueHangup
<1>2. CASE c \in CallIds /\ c # Sys
  <2>1. Quiet(s, SetNeed(s, c, b))
    <3>1. SetNeed(s, c, b) = [s EXCEPT !.call[c].need = b]
      BY <1>2 DEF SetNeed
    <3> QED BY <1>2, <3>1, NeedQuiet
  <2>2. Quiet(s, QueueHangup(s, c))
    <3>1. PICK t : t = QueueHangup(s, c)
      OBVIOUS
    <3>2. PICK yes \in BOOLEAN : yes = TRUE
      OBVIOUS
    <3>3. t = s \/ t = [s EXCEPT !.call[c].hup = yes]
      BY <1>2, <3>1, <3>2 DEF QueueHangup
    <3>4. Quiet(s, t)
      BY <1>2, <3>3, HupQuiet, QuietSelf
    <3> QED BY <3>1, <3>4
  <2> QED BY <2>1, <2>2
<1> QED BY <1>1, <1>2

(* A dial command at the head belongs to a call in the list.               *)
LEMMA DialOwner ==
  ASSUME Inv(dev), Dialled(dev), dev.queue # <<>>, Cmd \in {"D", "CHLD_2"}
  PROVE  /\ Owner \in Listed(dev) /\ Owner # Sys
         /\ 1 \in Dials(dev.queue) /\ dev.queue[1].of = Owner
<1>1. dev \in Device /\ Owner \in Listed(dev) \union {Sys}
  BY OwnerIsListed
<1>2. dev.queue \in Seq(Tasks) /\ Head(dev.queue) = dev.queue[1] /\ 1 \in DOMAIN dev.queue
  BY <1>1, Fields, HeadTailProperties, LenProperties, EmptySeq
<1>3. dev.queue[1].cmds \in {<<"D">>, <<"CHLD_2", "D">>, <<"A">>, <<"CHLD_2x">>, <<"CHLD_3">>,
                             <<"HUP">>, <<"CHLD_1x">>}
  <2>1. dev.queue[1] \in Tasks
    BY <1>2, ElementOfSeq
  <2> QED BY <2>1 DEF Tasks
<1>4. Head(dev.queue[1].cmds) \in {"D", "CHLD_2"}
  BY <1>2 DEF Cmd
<1>5. dev.queue[1].cmds \in {<<"D">>, <<"CHLD_2", "D">>}
  BY <1>3, <1>4
<1>6. 1 \in Dials(dev.queue)
  BY <1>2, <1>5 DEF Dials
<1>7. dev.queue[1].of = Owner
  BY <1>2 DEF Owner
<1>8. Owner \in Diallers(dev.queue)
  BY <1>6, <1>7 DEF Diallers
<1> QED BY <1>1, <1>6, <1>7, <1>8 DEF Dialled

(* The OK of a dial command: the call it belongs to is dialled.            *)
LEMMA DialOkTracked ==
  ASSUME Inv(dev), Kept(dev), dev.queue # <<>>, dev.sys # "freed", Cmd = "D",
         NEW s, s = [dev EXCEPT !.dialing = TRUE],
         NEW u \in IF Owner = Sys THEN {ChangeSys(s, DIALING)} ELSE cpvt_change_state(s, Owner, DIALING)
  PROVE  Kept(u) /\ u \in Device /\ u.queue # <<>>
<1>1. Owner \in Listed(dev) /\ Owner # Sys /\ dev \in Device
  BY DialOwner DEF Kept, Inv
<1>2. Alike(dev, s)
  BY <1>1, FlagAlike
<1>3. s \in Device /\ s.queue = dev.queue /\ s.call = dev.call /\ s.count = dev.count /\ s.sys = dev.sys
  BY <1>1 DEF Device
<1>4. Inv(s) /\ Listed(s) = Listed(dev) /\ Listing(s)
  BY <1>1, <1>2, PreservesInv, AlikeKeeps DEF Inv
<1>5. Tally(s) /\ Dialled(s)
  <2>1. \A st : In(s, st) = In(dev, st)
    BY <1>3, <1>4 DEF In
  <2> QED BY <1>3, <2>1 DEF Kept, Tally, Dialled
<1>6. DIALING \in call_state_t /\ DIALING # RELEASED /\ DIALING \in Outgoing
  BY DEF call_state_t, DIALING, RELEASED, Outgoing
<1>7. u \in cpvt_change_state(s, Owner, DIALING) /\ Owner \in Listed(s)
  BY <1>1, <1>4
<1>8. Changed(s, Owner, DIALING, u)
  BY <1>3, <1>4, <1>6, <1>7, ChangeTracked
<1>9. Tally(u) /\ Dialled(u) /\ Owner \in Listed(u) /\ u.call[Owner].state = DIALING
  BY <1>5, <1>6, <1>8 DEF Changed
<1>10. Calling(u)
  BY <1>6, <1>9 DEF Calling
<1>11. u \in Device /\ u.queue # <<>>
  <2>1. Inv(u) /\ u.queue # <<>>
    BY <1>3, <1>4, <1>6, <1>7, OwnerChanges
  <2> QED BY <2>1 DEF Inv
<1> QED BY <1>9, <1>10, <1>11 DEF Kept

LEMMA ResultOkTracked ==
  ASSUME Inv(dev), Kept(dev), ResultOk
  PROVE  Kept(dev')
<1> DEFINE c == Owner
           s == [dev EXCEPT !.dialing = TRUE]
           D == IF c = Sys THEN {ChangeSys(s, DIALING)} ELSE cpvt_change_state(s, c, DIALING)
<1>1. dev.queue # <<>> /\ dev.sys # "freed"
  BY DEF ResultOk
<1>2. PICK t : /\ dev' = NextCommand(t)
               /\ \/ Cmd = "D" /\ \E u \in D : t = SetNeed(u, c, TRUE)
                  \/ t = SetNeed(dev, c, TRUE)
                  \/ t = SetNeed(dev, c, FALSE)
                  \/ t = dev
  <2> HIDE DEF D, c
  <2> DEFINE S1 == {SetNeed(u, c, TRUE) : u \in D}
             changed == CASE Cmd = "D" -> S1
                          [] Cmd \in {"A", "CHLD_2x"} -> {SetNeed(dev, c, TRUE)}
                          [] Cmd \in {"HUP", "CHLD_1x"} -> {SetNeed(dev, c, FALSE)}
                          [] OTHER -> {dev}
  <2>1. dev' \in {NextCommand(t) : t \in changed}
    BY DEF ResultOk, Step, D, c
  <2> HIDE DEF S1
  <2>2. \A t \in changed : \/ Cmd = "D" /\ t \in S1
                           \/ t = SetNeed(dev, c, TRUE) \/ t = SetNeed(dev, c, FALSE) \/ t = dev
    OBVIOUS
  <2> HIDE DEF changed
  <2>3. PICK t \in changed : dev' = NextCommand(t)
    BY <2>1
  <2> QED BY <2>2, <2>3 DEF S1
<1>3. c \in CallIds \union {Sys} /\ dev \in Device
  BY <1>1, OwnerIsListed
<1>4. Cmd = "D" => \A u \in D : Kept(u) /\ u \in Device /\ u.queue # <<>>
  <2>1. PICK r : r = s
    OBVIOUS
  <2> HIDE DEF s
  <2> QED BY <1>1, <2>1, DialOkTracked DEF s
<1> HIDE DEF D, c
<1>5. \A u, b : Kept(u) /\ u \in Device /\ b \in BOOLEAN => Kept(SetNeed(u, c, b)) /\ SetNeed(u, c, b) \in Device
  <2>1. ASSUME NEW u, NEW b, Kept(u), u \in Device, b \in BOOLEAN
        PROVE  Kept(SetNeed(u, c, b)) /\ SetNeed(u, c, b) \in Device
    <3>1. Quiet(u, SetNeed(u, c, b))
      BY <1>3, <2>1, MarkQuiet
    <3> QED BY <2>1, <3>1, QuietKept DEF Quiet
  <2> QED BY <2>1
<1>6. \A u \in Device, b \in BOOLEAN : SetNeed(u, c, b).queue = u.queue
  BY DEF SetNeed, Device
<1>7. \A u : Kept(u) /\ u \in Device /\ u.queue # <<>> =>
        /\ Kept(SetNeed(u, c, TRUE)) /\ SetNeed(u, c, TRUE) \in Device /\ SetNeed(u, c, TRUE).queue # <<>>
        /\ Kept(SetNeed(u, c, FALSE)) /\ SetNeed(u, c, FALSE) \in Device /\ SetNeed(u, c, FALSE).queue # <<>>
  BY <1>5, <1>6
<1>8. Kept(t) /\ t \in Device /\ t.queue # <<>>
  BY <1>1, <1>2, <1>3, <1>4, <1>7
<1>9. Quiet(t, NextCommand(t))
  BY <1>8, HeadQuiet
<1> QED BY <1>2, <1>8, <1>9, QuietKept

(* The error of a dial command: its call goes, and then the command.       *)
LEMMA DialErrorTracked ==
  ASSUME Inv(dev), Kept(dev), dev.queue # <<>>, dev.sys # "freed", Cmd \in {"D", "CHLD_2"},
         NEW u \in IF Owner = Sys THEN {ChangeSys(dev, RELEASED)} ELSE cpvt_change_state(dev, Owner, RELEASED)
  PROVE  Kept(NextTask(u))
<1>1. /\ Owner \in Listed(dev) /\ Owner # Sys
      /\ 1 \in Dials(dev.queue) /\ dev.queue[1].of = Owner
  BY DialOwner DEF Kept
<1>2. dev \in Device /\ Listing(dev) /\ RELEASED \in call_state_t
  BY DEF Inv, call_state_t
<1>3. u \in cpvt_change_state(dev, Owner, RELEASED)
  BY <1>1
<1>4. Changed(dev, Owner, RELEASED, u)
  BY <1>1, <1>2, <1>3, ChangeTracked
<1>5. Tally(u) /\ Calling(u) /\ Dialled(NextTask(u))
  BY <1>1, <1>4 DEF Changed, Kept, Answers
<1>6. u \in Device /\ u.queue # <<>>
  <2>1. Inv(u) /\ u.queue # <<>>
    BY <1>1, <1>2, <1>3, OwnerChanges
  <2> QED BY <2>1 DEF Inv
<1>7. Quiet(u, NextTask(u))
  BY <1>6, HeadQuiet
<1>8. Tally(NextTask(u)) /\ Calling(NextTask(u))
  BY <1>5, <1>6, <1>7, QuietKeeps
<1> QED BY <1>5, <1>8 DEF Kept

LEMMA ResultErrorTracked ==
  ASSUME Inv(dev), Kept(dev), ResultError
  PROVE  Kept(dev')
<1> DEFINE c == Owner
           D == IF c = Sys THEN {ChangeSys(dev, RELEASED)} ELSE cpvt_change_state(dev, c, RELEASED)
<1>1. dev.queue # <<>> /\ dev.sys # "freed"
  BY DEF ResultError
<1>2. PICK t : /\ dev' = NextTask(t)
               /\ (Cmd \in {"D", "CHLD_2"} /\ t \in D) \/ t = QueueHangup(dev, c) \/ t = dev
  <2> HIDE DEF D, c
  <2> DEFINE ends == Cmd = "D" \/ (Cmd = "CHLD_2" /\ c # Sys /\ dev.call[c].opts # ""
                                    /\ dev.call[c].state = INIT)
             changed == CASE Cmd \in {"A", "CHLD_2x", "CHLD_3"} -> {QueueHangup(dev, c)}
                          [] ends -> D
                          [] OTHER -> {dev}
  <2>1. dev' \in {NextTask(t) : t \in changed}
    BY DEF ResultError, Step, D, c
  <2>2. ends => Cmd \in {"D", "CHLD_2"}
    OBVIOUS
  <2>3. Cmd \in {"A", "CHLD_2x", "CHLD_3"} => ~ends
    OBVIOUS
  <2> HIDE DEF ends
  <2>4. \A t \in changed : (ends /\ t \in D) \/ t = QueueHangup(dev, c) \/ t = dev
    BY <2>3
  <2> HIDE DEF changed
  <2>5. PICK t \in changed : dev' = NextTask(t)
    BY <2>1
  <2> QED BY <2>2, <2>4, <2>5
<1>3. c \in CallIds \union {Sys} /\ dev \in Device
  BY <1>1, OwnerIsListed
<1>4. Cmd \in {"D", "CHLD_2"} => \A u \in D : Kept(NextTask(u))
  BY <1>1, DialErrorTracked
<1> HIDE DEF D, c
<1>5. CASE t = QueueHangup(dev, c)
  <2>1. PICK b \in BOOLEAN : TRUE
    OBVIOUS
  <2>2. Quiet(dev, t)
    BY <1>3, <1>5, <2>1, MarkQuiet
  <2>3. t.queue = dev.queue
    BY <1>3, <1>5 DEF QueueHangup, Device
  <2>4. Kept(t) /\ t \in Device /\ t.queue # <<>>
    BY <1>1, <1>3, <2>2, <2>3, QuietKept DEF Quiet
  <2>5. Quiet(t, NextTask(t))
    BY <2>4, HeadQuiet
  <2> QED BY <1>2, <2>4, <2>5, QuietKept
<1>6. CASE t = dev
  <2>1. Quiet(dev, NextTask(dev))
    BY <1>1, <1>3, HeadQuiet
  <2> QED BY <1>2, <1>3, <1>6, <2>1, QuietKept
<1> QED BY <1>2, <1>4, <1>5, <1>6

LEMMA ResultTimeoutTracked ==
  ASSUME Inv(dev), Kept(dev), ResultTimeout
  PROVE  Kept(dev')
<1>1. dev.queue # <<>> /\ dev' = NextTask(dev) /\ dev \in Device
  BY DEF ResultTimeout, Step, Inv
<1>2. Quiet(dev, dev')
  BY <1>1, HeadQuiet
<1> QED BY <1>1, <1>2, QuietKept

LEMMA FlagsTracked ==
  ASSUME Inv(dev), Kept(dev), Reset \/ CallWaiting
  PROVE  Kept(dev')
<1>1. dev \in Device
  BY DEF Inv
<1>2. CASE Reset
  <2>1. PICK no \in BOOLEAN : no = FALSE
    OBVIOUS
  <2>2. dev' = Flags(dev, no, no, no) /\ (no => dev.dialing)
    BY <1>2, <2>1 DEF Reset, Step
  <2>3. Quiet(dev, dev')
    BY <1>1, <2>2, FlagsQuiet
  <2> QED BY <1>1, <2>3, QuietKept
<1>3. CASE CallWaiting
  <2>1. dev' = [dev EXCEPT !.cwaiting = TRUE]
    BY <1>3 DEF CallWaiting, Step
  <2>2. /\ dev' \in Device /\ dev'.chans = dev.chans /\ dev'.count = dev.count /\ dev'.call = dev.call
        /\ dev'.queue = dev.queue /\ dev'.dialing = dev.dialing
    BY <1>1, <2>1 DEF Device
  <2>3. Quiet(dev, dev')
    BY <2>2 DEF Quiet, Fewer
  <2> QED BY <1>1, <2>3, QuietKept
<1> QED BY <1>2, <1>3

(* A device without calls and commands, whose counters are 0.              *)
LEMMA EmptyTracked ==
  ASSUME NEW s, s.chans = <<>>, s.queue = <<>>, ~s.dialing, \A st \in call_state_t : s.count[st] = 0
  PROVE  Kept(s)
<1>1. Listed(s) = {} /\ Dials(s.queue) = {}
  BY DEF Listed, Dials
<1>2. \A st : In(s, st) = {}
  BY <1>1 DEF In
<1>3. Tally(s)
  BY <1>2, FS_EmptySet DEF Tally
<1>4. Diallers(s.queue) = {} /\ Twice(s.queue) = {}
  BY <1>1 DEF Diallers, Twice
<1> QED BY <1>3, <1>4 DEF Kept, Calling, Dialled

(* What pvt_disconnect subtracts from the counters is what they counted.   *)
LEMMA DisconnectTracked ==
  ASSUME Inv(dev), Kept(dev), Disconnect
  PROVE  Kept(dev')
<1> DEFINE in(st) == Cardinality({c \in Listed(dev) : dev.call[c].state = st})
           activated == {c \in Listed(dev) : dev.call[c].act}
           f == [c \in CallIds |-> NoCall]
           k == (dev.chansno + CountValues - Len(dev.chans)) % CountValues
           n == [st \in call_state_t |-> (dev.count[st] + CountValues - in(st)) % CountValues]
           m == IF Mixing THEN dev.mix \ activated ELSE dev.mix
<1>0. dev \in Device /\ CountValues \in Nat /\ CountValues > 0
  BY Limits DEF Inv
<1>1. dev' = [dev EXCEPT !.ring = FALSE, !.dialing = FALSE, !.cwaiting = FALSE,
                !.chans = <<>>, !.call = f, !.chansno = k, !.count = n, !.mix = m,
                !.queue = <<>>, !.buf = FALSE, !.capture = FALSE]
  BY <1>0 DEF Disconnect, Step, Flags, Device
<1>2. \A st \in call_state_t : n[st] = 0
  <2>1. ASSUME NEW st \in call_state_t
        PROVE  (dev.count[st] + CountValues - in(st)) % CountValues = 0
    <3>1. dev.count[st] = in(st) /\ dev.count[st] \in Int
      BY <1>0, Fields DEF Kept, Tally, In
    <3> HIDE DEF in
    <3>2. dev.count[st] + CountValues - in(st) = CountValues * 1 + 0
      BY <1>0, <3>1
    <3> QED BY <1>0, <3>2
  <2> QED BY <2>1
<1> HIDE DEF f, k, n, m
<1>3. dev'.chans = <<>> /\ dev'.queue = <<>> /\ ~dev'.dialing /\ dev'.count = n
  BY <1>0, <1>1 DEF Device
<1> QED BY <1>2, <1>3, EmptyTracked

LEMMA InitTracked == Init => Kept(dev)
<1> SUFFICES ASSUME Init PROVE Kept(dev)
  OBVIOUS
<1>1. dev.chans = <<>> /\ dev.queue = <<>> /\ ~dev.dialing /\ dev.count = [st \in call_state_t |-> 0]
  BY DEF Init
<1> QED BY <1>1, EmptyTracked

(* Every step keeps the counters, the flag and the dial commands true.     *)
LEMMA NextTracked ==
  ASSUME ~LateReleases, Inv(dev), Kept(dev), [Next]_vars
  PROVE  Kept(dev')
<1>1. CASE Channel
  <2>1. CASE Request
    BY <2>1, RequestTracked
  <2>2. ASSUME NEW c \in CallIds, Dial(c) \/ Hangup(c) \/ Answer(c) \/ Activate(c) \/ CaptureLost(c)
        PROVE  Kept(dev')
    BY <2>2, DialTracked, HangupTracked, AnswerTracked, CaptureLostTracked
  <2> QED BY <1>1, <2>1, <2>2 DEF Channel
<1>2. CASE Modem
  BY <1>2, ReportTracked, FlagsTracked, ResultOkTracked, ResultErrorTracked, ResultTimeoutTracked DEF Modem
<1>3. CASE Disconnect
  BY <1>3, DisconnectTracked
<1>4. CASE UNCHANGED vars
  BY <1>4 DEF vars
<1> QED BY <1>1, <1>2, <1>3, <1>4 DEF Next

TrackedInv == CallsInv /\ Kept(dev)

(* The counters per state, the dialling flag and the buffers agree with    *)
(* the list of calls after any order of reports, results and hangups       *)
(* (cpvt_alloc, cpvt_free, cpvt_change_state), for any number of calls and *)
(* of commands: no counter wraps below 0 or past its width, and the device *)
(* never counts as dialling without a call that is.  Pending dial commands *)
(* belong to calls that are still in the list, one each; this needs that   *)
(* the modem answers ATD before it reports the call as released.           *)
THEOREM CallsAreCounted ==
  ASSUME ~LateReleases
  PROVE  Spec => []CallListIsTrue
<1>1. Init => TrackedInv
  BY InitInv, InitTracked DEF TrackedInv, CallsInv
<1>2. TrackedInv /\ [Next]_vars => TrackedInv'
  BY NextInv, NextTracked DEF TrackedInv, CallsInv
<1>3. ASSUME TrackedInv
      PROVE  CallListIsTrue
  <2>1. CountersAgree
    BY <1>3 DEF TrackedInv, CallsInv, Inv, Listing, Kept, Tally, In, CountersAgree
  <2>2. DialingHasCall
    BY <1>3 DEF TrackedInv, Kept, Calling, Listed, DialingHasCall
  <2>3. BuffersWhileCalls
    BY <1>3 DEF TrackedInv, CallsInv, Inv, Listing, BuffersWhileCalls
  <2> QED BY <2>1, <2>2, <2>3 DEF CallListIsTrue
<1> QED BY <1>1, <1>2, <1>3, PTL DEF Spec

-----------------------------------------------------------------------------
(* Calls without sound and calls without a channel are on their way out.   *)

Sounded == {DIALING, ALERTING, INCOMING, ACTIVE}

(* A channel that ought to have sound has it or is being hung up.          *)
Heard(x) == Uac /\ x.chan /\ ~x.local /\ ~x.act /\ x.state \in Sounded => x.hup

(* With one call at a time, a call that was placed has been asked to end,  *)
(* or will be when its channel is hung up.                                 *)
Meant(x) == MaxCalls = 1 /\ x.placed => x.asked \/ (x.need /\ x.chan)

Fit(x) == (x.master => x.act) /\ Heard(x) /\ Meant(x)

(* The owners of the commands that end a call have been marked.            *)
Ends == {<<"HUP">>, <<"CHLD_1x">>}
Hangers(q) == {q[i].of : i \in {j \in DOMAIN q : q[j].cmds \in Ends}}
Parting(s) == MaxCalls = 1 => \A c \in CallIds : c \in Hangers(s.queue) => s.call[c].asked

Fits(s) == (\A c \in CallIds : Fit(s.call[c])) /\ Parting(s)

(* In the middle of a change of state all this is true but for the sound   *)
(* of the call.                                                            *)
FitsBut(s, c) ==
  /\ \A d \in CallIds \ {c} : Fit(s.call[d])
  /\ s.call[c].master => s.call[c].act
  /\ Meant(s.call[c])
  /\ Parting(s)

(* No command that ends a call is added.                                   *)
LEMMA HangersBy ==
  ASSUME NEW q, NEW r,
         \A i \in DOMAIN r : r[i].cmds \notin Ends \/ \E j \in DOMAIN q : r[i] = q[j]
  PROVE  Hangers(r) \subseteq Hangers(q)
BY DEF Hangers

(* A call changes.                                                         *)
LEMMA OneFits ==
  ASSUME NEW s, NEW t, NEW c \in CallIds, FitsBut(s, c),
         \A d \in CallIds \ {c} : t.call[d] = s.call[d],
         Hangers(t.queue) \subseteq Hangers(s.queue),
         s.call[c].asked => t.call[c].asked
  PROVE  /\ (t.call[c].master => t.call[c].act) /\ Meant(t.call[c]) => FitsBut(t, c)
         /\ Fit(t.call[c]) => Fits(t)
<1>1. Parting(t)
  BY DEF FitsBut, Parting
<1> QED BY <1>1 DEF FitsBut, Fits

LEMMA FitsButOne ==
  ASSUME NEW s, NEW c \in CallIds, Fits(s)
  PROVE  FitsBut(s, c)
BY DEF Fits, FitsBut, Fit

(* Calls and commands that end calls stay as they are.                     *)
LEMMA SameFits ==
  ASSUME NEW s, NEW t, Fits(s), t.call = s.call, Hangers(t.queue) \subseteq Hangers(s.queue)
  PROVE  Fits(t)
BY DEF Fits, Parting

(* With one call at a time the list has one at most.                       *)
LEMMA AloneCounts ==
  ASSUME NEW s \in Device, Listing(s), MaxCalls = 1
  PROVE  s.chansno <= 1
<1>1. Len(s.chans) \in Nat /\ DOMAIN s.chans = 1 .. Len(s.chans) /\ s.chansno = Len(s.chans)
  BY Fields, LenProperties DEF Listing
<1>2. \A i \in DOMAIN s.chans : s.chans[i] = 1
  <2>1. \A i \in 1 .. Len(s.chans) : s.chans[i] \in CallIds
    BY <1>1, Fields, ElementOfSeq
  <2> QED BY <1>1, <2>1 DEF CallIds
<1>3. SUFFICES ASSUME Len(s.chans) > 1 PROVE FALSE
  BY <1>1
<1>4. 1 \in DOMAIN s.chans /\ 2 \in DOMAIN s.chans
  BY <1>1, <1>3
<1>5. s.chans[1] = s.chans[2]
  BY <1>2, <1>4
<1> QED BY <1>4, <1>5 DEF Listing

(* at_enqueue_hangup marks the call whose index it is given, and that is   *)
(* the call the command belongs to.                                        *)
LEMMA EnqueueFits ==
  ASSUME NEW s \in Device, Listing(s), Fits(s), NEW of \in Listed(s) \union {Sys}, NEW idx,
         of # Sys => s.call[of].idx = idx, NEW t, t = at_enqueue_hangup(s, of, idx)
  PROVE  /\ Fits(t) /\ t \in Device
         /\ MaxCalls = 1 /\ of # Sys => t.call[of].asked
         /\ \A c \in CallIds : t.call[c].chan = s.call[c].chan
<1>0. of \in CallIds \union {Sys}
  BY ListedTypes
<1>1. /\ t \in Device
      /\ \A c \in CallIds : t.call[c] = s.call[c] \/ t.call[c] = [s.call[c] EXCEPT !.asked = TRUE]
  BY <1>0, HangupFields DEF Quiet
<1>2. ASSUME MaxCalls = 1, of # Sys
      PROVE  t.call[of].asked
  <2>1. s.chansno <= 1
    BY <1>2, AloneCounts
  <2>2. of \in Listed(s) /\ s.call[of] \in Call
    BY <1>2, ListedTypes, Fields
  <2>3. t.call[of] = [s.call[of] EXCEPT !.asked = TRUE]
    BY <1>0, <1>2, <2>1, <2>2, HangupFields
  <2> QED BY <2>2, <2>3 DEF Call
<1>3. Hangers(t.queue) \subseteq Hangers(s.queue) \union {of}
  <2>1. \A i \in DOMAIN t.queue : t.queue[i].of = of \/ \E j \in DOMAIN s.queue : t.queue[i] = s.queue[j]
    BY <1>0, HangupFields
  <2> QED BY <2>1 DEF Hangers
<1>4. ASSUME NEW c \in CallIds
      PROVE  /\ Fit(t.call[c]) /\ (s.call[c].asked => t.call[c].asked)
             /\ t.call[c].chan = s.call[c].chan
  <2>1. s.call[c] \in Call /\ Fit(s.call[c])
    BY Fields DEF Fits
  <2>2. CASE t.call[c] = s.call[c]
    BY <2>1, <2>2
  <2>3. CASE t.call[c] = [s.call[c] EXCEPT !.asked = TRUE]
    <3> DEFINE x == s.call[c]
               y == [x EXCEPT !.asked = TRUE]
    <3>1. /\ y.chan = x.chan /\ y.local = x.local /\ y.act = x.act /\ y.state = x.state
          /\ y.hup = x.hup /\ y.master = x.master /\ y.asked
      BY <2>1 DEF Call
    <3> QED BY <2>1, <2>3, <3>1 DEF Fit, Heard, Meant
  <2> QED BY <1>1, <2>2, <2>3
<1>5. Parting(t)
  <2> SUFFICES ASSUME MaxCalls = 1, NEW c \in CallIds, c \in Hangers(t.queue) PROVE t.call[c].asked
    BY DEF Parting
  <2>1. c # Sys
    BY Limits DEF CallIds, Sys
  <2> QED BY <1>2, <1>3, <1>4, <2>1 DEF Fits, Parting
<1> QED BY <1>1, <1>2, <1>4, <1>5 DEF Fits

(* cpvt_call_activate: the call has sound afterwards, or is being hung up. *)
LEMMA ActivateFits ==
  ASSUME NEW s \in Device, NEW c \in CallIds, FitsBut(s, c), NEW t \in cpvt_call_activate(s, c)
  PROVE  Fits(t) /\ t.call[c].chan = s.call[c].chan
<1>0. s.call[c] \in Call
  BY Fields
<1>1. CASE t = s /\ (s.call[c].master \/ s.call[c].local)
  <2>1. Fit(s.call[c])
    BY <1>1 DEF FitsBut, Fit, Heard
  <2> QED BY <1>1, <2>1 DEF FitsBut, Fits
<1>2. ASSUME NEW y \in Call, NEW b \in BOOLEAN, t = Activated(s, c, y, b), y.idx = s.call[c].idx,
             y.chan = s.call[c].chan, y.asked = s.call[c].asked, Fit(y)
      PROVE  Fits(t) /\ t.call[c].chan = s.call[c].chan
  <2>1. /\ t.call[c] = y /\ t.queue = s.queue
        /\ \A d \in CallIds \ {c} : t.call[d] = OthersYield(s, c)[d]
    BY <1>2, ActivatedFields DEF SameList
  <2>2. ASSUME NEW d \in CallIds \ {c}
        PROVE  Fit(t.call[d]) /\ t.call[d].asked = s.call[d].asked
    <3>1. PICK x : x = s.call[d]
      OBVIOUS
    <3>2. PICK z : z = OthersYield(s, c)[d]
      OBVIOUS
    <3>3. /\ z.state = x.state /\ z.placed = x.placed /\ z.act = x.act /\ z.chan = x.chan
          /\ z.local = x.local /\ z.hup = x.hup /\ z.need = x.need /\ z.asked = x.asked
          /\ z.master => x.master
      BY <3>1, <3>2, Yielded
    <3>4. Fit(x)
      BY <3>1 DEF FitsBut
    <3>5. Fit(z)
      BY <3>3, <3>4 DEF Fit, Heard, Meant
    <3> QED BY <2>1, <3>1, <3>2, <3>3, <3>5
  <2>3. Parting(t)
    BY <1>2, <2>1, <2>2 DEF FitsBut, Parting
  <2>4. \A d \in CallIds : Fit(t.call[d])
    BY <1>2, <2>1, <2>2
  <2> QED BY <1>2, <2>1, <2>3, <2>4 DEF Fits
<1> DEFINE x == s.call[c]
<1>3. /\ Sounding(x) \in Call /\ Sounding(x).idx = x.idx /\ Sounding(x).chan = x.chan
      /\ Silenced(x) \in Call /\ Silenced(x).idx = x.idx /\ Silenced(x).chan = x.chan
  BY <1>0, SoundingTypes
<1>4. /\ Sounding(x).act /\ Sounding(x).asked = x.asked /\ Sounding(x).placed = x.placed
      /\ Sounding(x).need = x.need
      /\ ~Silenced(x).master /\ Silenced(x).hup /\ Silenced(x).asked = x.asked
      /\ Silenced(x).placed = x.placed /\ Silenced(x).need = x.need
  BY <1>0 DEF Sounding, Silenced, Call
<1>5. Fit(Sounding(x)) /\ Fit(Silenced(x))
  BY <1>3, <1>4 DEF FitsBut, Fit, Heard, Meant
<1>6. CASE t = Activated(s, c, Sounding(x), Uac)
  <2>1. Uac \in BOOLEAN
    BY CallsAssumption, Zenon
  <2> QED BY <1>2, <1>3, <1>4, <1>5, <1>6, <2>1
<1>7. CASE t = Activated(s, c, Silenced(x), FALSE)
  <2>1. PICK no \in BOOLEAN : no = FALSE
    OBVIOUS
  <2> QED BY <1>2, <1>3, <1>4, <1>5, <1>7, <2>1
<1> QED BY <1>1, <1>6, <1>7, ActivateCases

(* cpvt_free: the commands of the call pass to sys_chan.                   *)
LEMMA FreeFits ==
  ASSUME NEW s \in Device, Listing(s), NEW c \in Listed(s), FitsBut(s, c), NEW t, t = cpvt_free(s, c)
  PROVE  Fits(t)
<1>0. c \in CallIds /\ \A d \in CallIds : d # Sys
  BY ListedTypes, Limits DEF CallIds, Sys
<1>1. t.call[c] = NoCall /\ \A d \in CallIds \ {c} : t.call[d] = s.call[d]
  BY FreeTracked
<1>2. /\ DOMAIN t.queue = DOMAIN s.queue
      /\ \A i \in DOMAIN s.queue :
           /\ t.queue[i].cmds = s.queue[i].cmds
           /\ t.queue[i].of = IF s.queue[i].of = c THEN Sys ELSE s.queue[i].of
  BY FreeTracked
<1>3. Fit(NoCall)
  BY DEF NoCall, Fit, Heard, Meant
<1>4. \A d \in CallIds : d \in Hangers(t.queue) => d # c /\ d \in Hangers(s.queue)
  BY <1>0, <1>2 DEF Hangers
<1>5. Parting(t)
  BY <1>1, <1>4 DEF FitsBut, Parting
<1> QED BY <1>0, <1>1, <1>3, <1>5 DEF FitsBut, Fits

(* cpvt_alloc: the call is new.                                            *)
LEMMA AllocFits ==
  ASSUME NEW s \in Device, Listing(s), Fits(s), NEW c \in CallIds, c \notin Listed(s),
         NEW idx \in Nat, NEW dir \in {"in", "out"},
         NEW local \in BOOLEAN, NEW t, t = cpvt_alloc(s, c, idx, dir, local)
  PROVE  Fits(t) /\ t.call[c].chan
<1> DEFINE x == Fresh(idx, dir, local)
<1>1. t.queue = s.queue /\ t.call[c] = x /\ \A d \in CallIds \ {c} : t.call[d] = s.call[d]
  BY AllocTracked
<1>2. x.chan /\ x.state = INIT /\ ~x.master
  BY FreshTypes
<1>3. ~x.placed
  BY DEF Fresh, NoCall
<1> HIDE DEF x
<1>4. Fit(x)
  BY <1>2, <1>3 DEF Fit, Heard, Meant, Sounded, INIT, DIALING, ALERTING, INCOMING, ACTIVE
<1>5. c \notin Hangers(s.queue)
  <2>1. c # Sys
    BY Limits DEF CallIds, Sys
  <2>2. Hangers(s.queue) \subseteq Owners(s)
    BY DEF Hangers, Owners
  <2> QED BY <2>1, <2>2 DEF Listing
<1>6. Parting(t)
  BY <1>1, <1>5 DEF Fits, Parting
<1> QED BY <1>1, <1>2, <1>4, <1>6 DEF Fits

(* cpvt_change_state.                                                      *)
LEMMA ChangeFits ==
  ASSUME NEW s \in Device, Listing(s), Fits(s), NEW c \in Listed(s), NEW new \in call_state_t,
         NEW t \in cpvt_change_state(s, c, new)
  PROVE  Fits(t) /\ (new # RELEASED => t.call[c].chan = s.call[c].chan)
<1>0. c \in CallIds /\ s.call[c] \in Call
  BY ListedTypes, Fields
<1> DEFINE u == Restated(s, c, new)
<1>1. /\ new = s.call[c].state => t = s
      /\ new # s.call[c].state /\ s.call[c].chan => t \in ChangeAttached(u, c, new)
      /\ new # s.call[c].state /\ ~s.call[c].chan => t = ChangeDetached(u, c, new)
  BY DEF cpvt_change_state, Restated
<1>2. CASE new = s.call[c].state
  BY <1>1, <1>2
<1>3. CASE new # s.call[c].state
  <2>1. /\ u \in Device /\ u.chans = s.chans /\ u.queue = s.queue
        /\ u.call[c] = [s.call[c] EXCEPT !.state = new]
        /\ \A d \in CallIds \ {c} : u.call[d] = s.call[d]
    BY <1>0, <1>3, StateFields
  <2>2. Listing(u) /\ Listed(u) = Listed(s)
    <3>1. Alike(s, u)
      BY <1>0, StateAlike DEF Restated
    <3> HIDE DEF u
    <3> QED BY <3>1, AlikeKeeps
  <2> HIDE DEF u
  <2>3. LET x == s.call[c]  y == u.call[c]
        IN  /\ y.state = new /\ y.chan = x.chan /\ y.master = x.master /\ y.act = x.act
            /\ y.placed = x.placed /\ y.asked = x.asked /\ y.need = x.need /\ y.idx = x.idx
    BY <1>0, <2>1 DEF Call
  <2>4. FitsBut(u, c)
    <3>1. FitsBut(s, c)
      BY <1>0, FitsButOne
    <3>2. (u.call[c].master => u.call[c].act) /\ Meant(u.call[c])
      BY <2>3, <3>1 DEF FitsBut, Meant
    <3> QED BY <1>0, <2>1, <2>3, <3>1, <3>2, OneFits
  <2>5. u.call[c].state \notin Sounded \/ ~u.call[c].chan => Fits(u)
    BY <2>4 DEF FitsBut, Fits, Fit, Heard
  <2>6. new \in {ONHOLD, WAITING} => new \notin Sounded /\ new # RELEASED
    BY DEF ONHOLD, WAITING, RELEASED, Sounded, DIALING, ALERTING, INCOMING, ACTIVE
  <2>7. CASE s.call[c].chan
    <3>0. t \in ChangeAttached(u, c, new)
      BY <1>1, <1>3, <2>7
    <3>1. ASSUME NEW v, v = cpvt_call_disactivate(u, c)
          PROVE  /\ v \in Device /\ FitsBut(v, c) /\ v.call[c].chan = u.call[c].chan
                 /\ u.call[c].state \notin Sounded => Fits(v)
      <4>1. /\ v \in Device /\ v.queue = u.queue
            /\ v.call[c] = u.call[c] \/ v.call[c] = Muted(u.call[c])
            /\ \A d \in CallIds \ {c} : v.call[d] = u.call[d]
        BY <1>0, <2>1, <3>1, DisactivateQuiet DEF Quiet
      <4>2. u.call[c] \in Call
        BY <1>0, <2>1, Fields
      <4>3. LET x == u.call[c]  y == v.call[c]
            IN  /\ y.state = x.state /\ y.chan = x.chan /\ (y.master => y.act)
                /\ y.placed = x.placed /\ y.asked = x.asked /\ y.need = x.need
        <5>1. CASE v.call[c] = u.call[c]
          BY <2>4, <5>1 DEF FitsBut
        <5>2. CASE v.call[c] = Muted(u.call[c])
          BY <4>2, <5>2 DEF Muted, Call
        <5> QED BY <4>1, <5>1, <5>2
      <4>4. Meant(v.call[c])
        BY <2>4, <4>3 DEF FitsBut, Meant
      <4>5. FitsBut(v, c)
        BY <1>0, <2>4, <4>1, <4>3, <4>4, OneFits
      <4>6. u.call[c].state \notin Sounded => Fit(v.call[c])
        BY <4>3, <4>4 DEF Fit, Heard
      <4> QED BY <4>1, <4>3, <4>5, <4>6 DEF FitsBut, Fits
    <3>2. CASE new = ONHOLD
      <4>1. t = cpvt_call_disactivate(u, c)
        BY <3>0, <3>2 DEF ChangeAttached, ONHOLD, RELEASED, WAITING
      <4> QED BY <2>3, <2>6, <3>1, <3>2, <4>1
    <3>3. CASE new = RELEASED
      <4> DEFINE v == cpvt_call_disactivate(u, c)
      <4>1. t = cpvt_free(v, c)
        BY <3>0, <3>3 DEF ChangeAttached, ONHOLD, RELEASED, WAITING
      <4>2. Listing(v) /\ Listed(v) = Listed(u)
        <5>1. Listing(v)
          BY <2>1, <2>2, DisactivateKeeps DEF Preserves
        <5>2. v.chans = u.chans
          BY <1>0, <2>1, DisactivateQuiet DEF Quiet
        <5> QED BY <5>1, <5>2 DEF Listed
      <4>3. v \in Device /\ FitsBut(v, c)
        BY <3>1
      <4> HIDE DEF v
      <4>4. c \in Listed(v)
        BY <2>2, <4>2
      <4> QED BY <3>3, <4>1, <4>2, <4>3, <4>4, FreeFits
    <3>4. CASE new = WAITING
      <4>1. t = u
        BY <3>0, <3>4 DEF ChangeAttached, ONHOLD, RELEASED, WAITING
      <4> QED BY <2>3, <2>5, <2>6, <3>4, <4>1
    <3>5. CASE new \notin {ONHOLD, RELEASED, WAITING}
      <4>1. t \in cpvt_call_activate(u, c)
        BY <3>0, <3>5 DEF ChangeAttached
      <4> QED BY <1>0, <2>1, <2>3, <2>4, <4>1, ActivateFits
    <3> QED BY <3>2, <3>3, <3>4, <3>5
  <2>8. CASE ~s.call[c].chan
    <3>0. t = ChangeDetached(u, c, new) /\ Fits(u)
      BY <1>1, <1>3, <2>3, <2>5, <2>8
    <3>1. CASE new = RELEASED
      <4>1. t = cpvt_free(u, c)
        BY <3>0, <3>1 DEF ChangeDetached, RELEASED, ACTIVE
      <4> QED BY <2>1, <2>2, <2>4, <3>1, <4>1, FreeFits
    <3>2. CASE new = ACTIVE
      <4>1. t = u
        BY <3>0, <3>2 DEF ChangeDetached, RELEASED, ACTIVE
      <4> QED BY <2>3, <3>0, <4>1
    <3>3. CASE new \notin {RELEASED, ACTIVE}
      <4>1. t = at_enqueue_hangup(u, Sys, u.call[c].idx)
        BY <3>0, <3>3 DEF ChangeDetached
      <4>2. PICK of, idx : of \in Listed(u) \union {Sys} /\ of = Sys /\ t = at_enqueue_hangup(u, of, idx)
        BY <4>1
      <4>3. u \in Device /\ Listing(u) /\ Fits(u)
        BY <2>1, <2>2, <3>0
      <4>4. Fits(t) /\ \A d \in CallIds : t.call[d].chan = u.call[d].chan
        BY <4>2, <4>3, EnqueueFits
      <4> QED BY <1>0, <2>3, <4>4
    <3> QED BY <3>1, <3>2, <3>3
  <2> QED BY <2>7, <2>8
<1> QED BY <1>2, <1>3

(* start_pbx: the call has a channel, whose hangup will end it.            *)
LEMMA StartPbxFits ==
  ASSUME NEW s, Inv(s), Fits(s), Unused(s) # {}, NEW idx \in Nat,
         NEW st \in call_state_t \ {RELEASED}, NEW t \in start_pbx(s, idx, st)
  PROVE  Fits(t)
<1> DEFINE c == LeastOf(Unused(s))
           a == cpvt_alloc(s, c, idx, "in", FALSE)
           Marked(u) == [u EXCEPT !.call[c].need = TRUE, !.call[c].placed = TRUE]
<1>1. \/ \E u \in cpvt_change_state(a, c, st) : t = Marked(u)
      \/ t = at_enqueue_hangup(s, Sys, idx)
      \/ \E u \in cpvt_change_state(a, c, st) : t = cpvt_free(Marked(u), c)
  BY DEF start_pbx
<1>2. c \in CallIds /\ c \notin Listed(s)
  BY UnusedCall
<1> HIDE DEF c
<1>3. s \in Device /\ Listing(s)
  BY DEF Inv
<1>4. /\ a \in Device /\ Listing(a) /\ c \in Listed(a) /\ Fits(a) /\ a.call[c].chan
  <2>1. PICK local \in BOOLEAN : local = FALSE
    OBVIOUS
  <2>2. "in" \in {"in", "out"} /\ a = cpvt_alloc(s, c, idx, "in", local)
    BY <2>1
  <2> HIDE DEF a
  <2>3. a \in Device /\ Listing(a) /\ Listed(a) = Listed(s) \union {c}
    BY <1>2, <1>3, <2>2, AllocKeeps
  <2>4. Fits(a) /\ a.call[c].chan
    BY <1>2, <1>3, <2>2, AllocFits
  <2> QED BY <2>3, <2>4
<1> HIDE DEF a
<1>5. ASSUME NEW u \in cpvt_change_state(a, c, st)
      PROVE  /\ Marked(u) \in Device /\ Listing(Marked(u)) /\ c \in Listed(Marked(u))
             /\ Fits(Marked(u))
  <2>1. st \in call_state_t /\ st # RELEASED
    OBVIOUS
  <2>2. u \in Device /\ Listing(u) /\ Listed(u) = Listed(a)
    BY <1>4, <2>1, ChangeKeeps DEF Preserves
  <2>3. Fits(u) /\ u.call[c].chan
    BY <1>4, <2>1, ChangeFits
  <2> DEFINE y == [u.call[c] EXCEPT !.need = TRUE, !.placed = TRUE]
  <2>4. u.call[c] \in Call
    BY <1>2, <2>2, Fields
  <2>5. y \in Call /\ y.state = u.call[c].state /\ y.placed /\ Twin(u.call[c], y)
    BY <2>4, Twins DEF Call
  <2>6. LET x == u.call[c]
        IN  /\ y.chan = x.chan /\ y.local = x.local /\ y.act = x.act /\ y.master = x.master
            /\ y.hup = x.hup /\ y.need /\ y.asked = x.asked
    BY <2>4 DEF Call
  <2>7. Marked(u) = [u EXCEPT !.call = [u.call EXCEPT ![c] = y]]
    BY <1>2, <2>2
  <2> HIDE DEF y
  <2>8. Alike(u, Marked(u))
    BY <1>2, <2>2, <2>5, <2>7, OneTwin
  <2> HIDE DEF Marked
  <2>9. /\ Marked(u).queue = u.queue /\ Marked(u).call[c] = y
        /\ \A d \in CallIds \ {c} : Marked(u).call[d] = u.call[d]
    <3> DEFINE f == [u.call EXCEPT ![c] = y]
    <3>1. f \in [CallIds -> Call] /\ f[c] = y /\ \A d \in CallIds \ {c} : f[d] = u.call[d]
      BY <1>2, <2>2, <2>5, Fields
    <3>2. Marked(u) = [u EXCEPT !.call = f]
      BY <2>7
    <3> HIDE DEF f
    <3>3. Marked(u).queue = u.queue /\ Marked(u).call = f
      BY <2>2, <3>1, <3>2, CallsChange
    <3> QED BY <3>1, <3>3
  <2>10. Marked(u) \in Device /\ Listing(Marked(u)) /\ Listed(Marked(u)) = Listed(u)
    BY <2>2, <2>8, AlikeKeeps DEF Alike
  <2>11. FitsBut(u, c) /\ Fit(u.call[c])
    BY <1>2, <2>3, FitsButOne DEF Fits
  <2>12. Fit(y)
    BY <2>3, <2>5, <2>6, <2>11 DEF Fit, Heard, Meant
  <2>13. Fits(Marked(u))
    BY <1>2, <2>6, <2>9, <2>11, <2>12, OneFits
  <2> QED BY <1>4, <2>2, <2>10, <2>13
<1> HIDE DEF Marked
<1>6. CASE \E u \in cpvt_change_state(a, c, st) : t = Marked(u)
  BY <1>5, <1>6
<1>7. CASE t = at_enqueue_hangup(s, Sys, idx)
  <2>1. PICK of \in Listed(s) \union {Sys} : of = Sys /\ t = at_enqueue_hangup(s, of, idx)
    BY <1>7
  <2> QED BY <1>3, <2>1, EnqueueFits
<1>8. CASE \E u \in cpvt_change_state(a, c, st) : t = cpvt_free(Marked(u), c)
  <2>1. PICK u \in cpvt_change_state(a, c, st) : t = cpvt_free(Marked(u), c)
    BY <1>8
  <2>2. PICK v : v = Marked(u)
    OBVIOUS
  <2>3. v \in Device /\ Listing(v) /\ c \in Listed(v) /\ FitsBut(v, c)
    BY <1>2, <1>5, <2>2, FitsButOne
  <2> QED BY <2>1, <2>2, <2>3, FreeFits
<1> QED BY <1>1, <1>6, <1>7, <1>8

(* What follows a change of state in handle_clcc.                          *)
LEMMA FollowsFits ==
  ASSUME NEW s, Inv(s), Fits(s), NEW found \in SUBSET Listed(s), NEW idx \in Nat,
         NEW dir, NEW st \in call_state_t, NEW enabled,
         st \in {INCOMING, WAITING} => Unused(s) # {},
         NEW t \in Follows(s, found, idx, dir, st, enabled)
  PROVE  Fits(t)
<1>0. s \in Device /\ found \subseteq CallIds
  BY ListedTypes DEF Inv
<1>1. After(s, found, idx, st, t)
  BY FollowsCases
<1>2. ASSUME NEW r \in BOOLEAN, NEW e \in BOOLEAN, NEW w \in BOOLEAN, NEW u, u = Flags(s, r, e, w)
      PROVE  Inv(u) /\ u \in Device /\ Unused(u) = Unused(s) /\ Fits(u)
  <2>1. Alike(s, u)
    BY <1>0, <1>2, FlagsAlike
  <2>2. Inv(u) /\ Listed(u) = Listed(s)
    BY <1>0, <2>1, PreservesInv, AlikeKeeps
  <2>3. u \in Device /\ u.call = s.call /\ u.queue = s.queue
    BY <1>0, <1>2 DEF Flags, Device
  <2> QED BY <2>2, <2>3, SameFits DEF Unused
<1>3. PICK yes \in BOOLEAN, no \in BOOLEAN : yes = TRUE /\ no = FALSE
  OBVIOUS
<1>4. ASSUME NEW c \in found, NEW u \in Device, Fits(u), t = Insert(u, c, <<"CHLD_3">>)
      PROVE  Fits(t)
  <2>1. c \in CallIds \union {Sys} /\ [cmds |-> <<"CHLD_3">>, of |-> c] \in Tasks
    BY <1>0, TaskKinds
  <2>2. /\ t.call = u.call
        /\ \A i \in DOMAIN t.queue : \/ t.queue[i] = [cmds |-> <<"CHLD_3">>, of |-> c]
                                     \/ \E j \in DOMAIN u.queue : t.queue[i] = u.queue[j]
    BY <1>4, <2>1, InsertFields
  <2>3. <<"CHLD_3">> \notin Ends
    BY DEF Ends
  <2>4. \A i \in DOMAIN t.queue : t.queue[i].cmds \notin Ends \/ \E j \in DOMAIN u.queue : t.queue[i] = u.queue[j]
    BY <2>2, <2>3
  <2>5. Hangers(t.queue) \subseteq Hangers(u.queue)
    BY <2>4, HangersBy
  <2> QED BY <1>4, <2>2, <2>5, SameFits
<1> DEFINE dialled == Flags(s, FALSE, TRUE, FALSE)
           rung == Flags(s, TRUE, FALSE, FALSE)
           held == Flags(s, FALSE, FALSE, TRUE)
           over == Flags(s, FALSE, FALSE, FALSE)
<1>5. \A u \in {dialled, rung, held, over} : Inv(u) /\ u \in Device /\ Unused(u) = Unused(s) /\ Fits(u)
  <2>1. /\ dialled = Flags(s, no, yes, no) /\ rung = Flags(s, yes, no, no)
        /\ held = Flags(s, no, no, yes) /\ over = Flags(s, no, no, no)
    BY <1>3
  <2> HIDE DEF dialled, rung, held, over
  <2> QED BY <1>2, <2>1
<1>6. /\ st \in {DIALING, ALERTING} =>
           t = dialled \/ \E c \in found : t = Insert(dialled, c, <<"CHLD_3">>)
      /\ st = INCOMING => t = rung \/ t \in start_pbx(rung, idx, st)
      /\ st = WAITING => t = held \/ t \in start_pbx(held, idx, st)
      /\ st = RELEASED => t = over
      /\ st \notin {DIALING, ALERTING, INCOMING, WAITING, RELEASED} => t = s
  BY <1>1 DEF After
<1> HIDE DEF dialled, rung, held, over
<1>7. CASE st \in {DIALING, ALERTING}
  BY <1>4, <1>5, <1>6, <1>7
<1>8. CASE st = INCOMING
  <2>1. st \in call_state_t \ {RELEASED} /\ Unused(rung) # {} /\ Inv(rung) /\ Fits(rung)
    BY <1>5, <1>8 DEF call_state_t, INCOMING, RELEASED
  <2> QED BY <1>6, <1>8, <2>1, StartPbxFits
<1>9. CASE st = WAITING
  <2>1. st \in call_state_t \ {RELEASED} /\ Unused(held) # {} /\ Inv(held) /\ Fits(held)
    BY <1>5, <1>9 DEF call_state_t, WAITING, RELEASED
  <2> QED BY <1>6, <1>9, <2>1, StartPbxFits
<1>10. CASE st \notin {DIALING, ALERTING, INCOMING, WAITING}
  BY <1>5, <1>6, <1>10
<1> QED BY <1>7, <1>8, <1>9, <1>10

(* handle_clcc.                                                            *)
LEMMA KnownFits ==
  ASSUME NEW s, Inv(s), Fits(s), NEW c \in Listed(s), NEW idx \in Nat, NEW dir,
         NEW st \in call_state_t, NEW mpty, NEW enabled,
         st \in {INCOMING, WAITING} => Unused(s) # {},
         NEW t \in ClccKnown(s, c, idx, dir, st, mpty, enabled)
  PROVE  Fits(t)
<1>0. s \in Device /\ Listing(s)
  BY DEF Inv
<1>1. \/ t = s
      \/ t = at_enqueue_hangup(s, Sys, idx)
      \/ \E u \in cpvt_change_state(s, c, st) :
           t \in Follows(u, {c} \intersect Listed(u), idx, dir, st, enabled)
  BY DEF ClccKnown
<1>2. CASE t = s
  BY <1>2
<1>3. CASE t = at_enqueue_hangup(s, Sys, idx)
  <2>1. PICK of \in Listed(s) \union {Sys} : of = Sys /\ t = at_enqueue_hangup(s, of, idx)
    BY <1>3
  <2> QED BY <1>0, <2>1, EnqueueFits
<1>4. CASE \E u \in cpvt_change_state(s, c, st) :
             t \in Follows(u, {c} \intersect Listed(u), idx, dir, st, enabled)
  <2>1. PICK u \in cpvt_change_state(s, c, st) :
               t \in Follows(u, {c} \intersect Listed(u), idx, dir, st, enabled)
    BY <1>4
  <2>2. Preserves(s, u)
    BY <1>0, ChangeKeeps
  <2>3. Inv(u) /\ Unused(s) \subseteq Unused(u)
    BY <2>2, PreservesInv DEF Preserves, Unused
  <2>4. Fits(u)
    BY <1>0, ChangeFits
  <2>5. {c} \intersect Listed(u) \in SUBSET Listed(u)
    OBVIOUS
  <2> QED BY <2>1, <2>3, <2>4, <2>5, FollowsFits
<1> QED BY <1>1, <1>2, <1>3, <1>4

LEMMA UnknownFits ==
  ASSUME NEW s, Inv(s), Fits(s), NEW idx \in Nat, NEW dir, NEW st \in call_state_t, NEW mpty,
         NEW enabled, st \in {INCOMING, WAITING} => Unused(s) # {},
         \A d \in Listed(s) : s.call[d].idx # idx,
         NEW t \in ClccUnknown(s, idx, dir, st, mpty, enabled)
  PROVE  Fits(t)
<1>0. s \in Device /\ Listing(s)
  BY DEF Inv
<1>1. CASE st \notin {DIALING, ALERTING}
  <2>1. t \in Follows(s, {}, idx, dir, st, enabled) /\ {} \in SUBSET Listed(s)
    BY <1>1 DEF ClccUnknown
  <2> QED BY <2>1, FollowsFits
<1>2. CASE st \in {DIALING, ALERTING}
  <2> DEFINE found == IF mpty = "yes" /\ ~Multiparty THEN {} ELSE FindLastInitialized(s)
             c == CHOOSE c \in found : TRUE
             y == [s.call[c] EXCEPT !.idx = idx]
             n == [s EXCEPT !.call[c].idx = idx]
  <2>1. \/ t = at_enqueue_hangup(s, Sys, idx)
        \/ found # {} /\ t = n
        \/ found # {} /\ \E u \in cpvt_change_state(n, c, st) :
                           t \in Follows(u, {c}, idx, dir, st, enabled)
    BY <1>2 DEF ClccUnknown
  <2>2. found \subseteq Listed(s)
    BY <1>0, FoundLast
  <2> HIDE DEF found
  <2>3. found # {} => c \in Listed(s) /\ c \in CallIds
    BY <1>0, <2>2, ListedTypes
  <2> HIDE DEF c
  <2>4. found # {} => Inv(n) /\ Listed(n) = Listed(s)
    BY <2>3, NumberedKeeps
  <2>5. ASSUME found # {}
        PROVE  Fits(n)
    <3>1. s.call[c] \in Call /\ c \in CallIds
      BY <1>0, <2>3, <2>5, Fields
    <3>2. LET x == s.call[c]
          IN  /\ y \in Call /\ y.state = x.state /\ y.placed = x.placed /\ y.chan = x.chan
              /\ y.local = x.local /\ y.act = x.act /\ y.master = x.master /\ y.hup = x.hup
              /\ y.need = x.need /\ y.asked = x.asked
      BY <3>1 DEF Call
    <3>3. n = [s EXCEPT !.call = [s.call EXCEPT ![c] = y]]
      BY <3>1
    <3> HIDE DEF y, n
    <3>4. /\ n.queue = s.queue /\ n.call[c] = y
          /\ \A d \in CallIds \ {c} : n.call[d] = s.call[d]
      BY <1>0, <3>1, <3>2, <3>3, OneQuiet
    <3>5. FitsBut(s, c) /\ Fit(s.call[c])
      BY <3>1, FitsButOne DEF Fits
    <3>6. Fit(y)
      BY <3>2, <3>5 DEF Fit, Heard, Meant
    <3> QED BY <3>1, <3>2, <3>4, <3>5, <3>6, OneFits
  <2> HIDE DEF n
  <2>6. CASE t = at_enqueue_hangup(s, Sys, idx)
    <3>1. PICK of \in Listed(s) \union {Sys} : of = Sys /\ t = at_enqueue_hangup(s, of, idx)
      BY <2>6
    <3> QED BY <1>0, <3>1, EnqueueFits
  <2>7. CASE found # {} /\ t = n
    BY <2>5, <2>7
  <2>8. CASE found # {} /\ \E u \in cpvt_change_state(n, c, st) :
                             t \in Follows(u, {c}, idx, dir, st, enabled)
    <3>1. PICK u \in cpvt_change_state(n, c, st) : t \in Follows(u, {c}, idx, dir, st, enabled)
      BY <2>8
    <3>2. n \in Device /\ Listing(n) /\ c \in Listed(n) /\ Inv(n) /\ Fits(n)
      BY <2>3, <2>4, <2>5, <2>8 DEF Inv
    <3>3. st # RELEASED /\ st \notin {INCOMING, WAITING}
      BY <1>2 DEF DIALING, ALERTING, RELEASED, INCOMING, WAITING
    <3>4. Preserves(n, u) /\ Listed(u) = Listed(n)
      BY <3>2, <3>3, ChangeKeeps
    <3>5. Inv(u) /\ {c} \in SUBSET Listed(u)
      BY <3>2, <3>4, PreservesInv
    <3>6. Fits(u)
      BY <3>2, ChangeFits
    <3> QED BY <3>1, <3>3, <3>5, <3>6, FollowsFits
  <2> QED BY <2>1, <2>6, <2>7, <2>8
<1> QED BY <1>1, <1>2

LEMMA ReportFits ==
  ASSUME Inv(dev), Fits(dev), Report
  PROVE  Fits(dev')
<1>1. PICK idx \in Indices, dir \in {"in", "out"}, st \in Reported, mpty \in Multi, enabled \in Enabled :
        Plausible(dev, idx, dir, st) /\ dev' \in handle_clcc(dev, idx, dir, st, mpty, enabled)
  BY DEF Report, Step
<1>2. idx \in Nat /\ st \in call_state_t
  BY CallsAssumption, Zenon
<1>3. dev \in Device
  BY DEF Inv
<1>4. /\ FindByIdx(dev, idx) \subseteq Listed(dev)
      /\ FindByIdx(dev, idx) = {} => \A d \in Listed(dev) : dev.call[d].idx # idx
  BY <1>3, FoundByIdx
<1>5. st \in {INCOMING, WAITING} => Unused(dev) # {}
  BY <1>1 DEF Plausible
<1>6. CASE FindByIdx(dev, idx) = {}
  <2>1. dev' \in ClccUnknown(dev, idx, dir, st, mpty, enabled)
    BY <1>1, <1>6 DEF handle_clcc
  <2> QED BY <1>2, <1>4, <1>5, <1>6, <2>1, UnknownFits
<1>7. CASE FindByIdx(dev, idx) # {}
  <2> DEFINE c == CHOOSE c \in FindByIdx(dev, idx) : TRUE
  <2>1. dev' \in ClccKnown(dev, c, idx, dir, st, mpty, enabled)
    BY <1>1, <1>7 DEF handle_clcc
  <2>2. c \in FindByIdx(dev, idx)
    BY <1>7
  <2> HIDE DEF c
  <2> QED BY <1>2, <1>4, <1>5, <2>1, <2>2, KnownFits
<1> QED BY <1>6, <1>7

(* The callbacks of channels.                                              *)
LEMMA RequestFits ==
  ASSUME Inv(dev), Fits(dev), Request
  PROVE  Fits(dev')
<1> DEFINE c == LeastOf(Unused(dev))
           idx == pvt_get_pseudo_call_idx(dev)
<1>1. PICK local \in Locals : Unused(dev) # {} /\ dev' = cpvt_alloc(dev, c, idx, "out", local)
  BY DEF Request, Step
<1>2. local \in BOOLEAN /\ "out" \in {"in", "out"}
  BY CallsAssumption, Zenon
<1>3. c \in CallIds /\ c \notin Listed(dev)
  BY <1>1, UnusedCall
<1> HIDE DEF c
<1>4. dev \in Device /\ Listing(dev)
  BY DEF Inv
<1>5. idx \in Nat
  BY <1>3, <1>4, PseudoIdx
<1> HIDE DEF idx
<1> QED BY <1>1, <1>2, <1>3, <1>4, <1>5, AllocFits

(* A call changes, and the queue does not.                                 *)
LEMMA ChangedFits ==
  ASSUME NEW s \in Device, NEW c \in CallIds, FitsBut(s, c), NEW y \in Call, Fit(y),
         s.call[c].asked => y.asked, NEW t, t = [s EXCEPT !.call = [s.call EXCEPT ![c] = y]]
  PROVE  Fits(t) /\ t \in Device /\ t.queue = s.queue /\ t.call[c] = y /\ t.sys = s.sys
<1> DEFINE f == [s.call EXCEPT ![c] = y]
<1>1. f \in [CallIds -> Call] /\ f[c] = y /\ \A d \in CallIds \ {c} : f[d] = s.call[d]
  BY Fields
<1>2. t = [s EXCEPT !.call = f]
  OBVIOUS
<1> HIDE DEF f
<1>3. t \in Device /\ t.queue = s.queue /\ t.call = f /\ t.sys = s.sys
  BY <1>1, <1>2 DEF Device
<1>4. t.call[c] = y /\ \A d \in CallIds \ {c} : t.call[d] = s.call[d]
  BY <1>1, <1>3
<1>5. /\ Fit(t.call[c]) /\ (s.call[c].asked => t.call[c].asked)
      /\ Hangers(t.queue) \subseteq Hangers(s.queue)
  BY <1>3, <1>4
<1>6. Fits(t)
  BY <1>4, <1>5, OneFits
<1> QED BY <1>3, <1>4, <1>6

(* A call that is dialled has a channel, whose hangup will end it.         *)
LEMMA DialFits ==
  ASSUME Inv(dev), Fits(dev), NEW c \in CallIds, Dial(c)
  PROVE  Fits(dev')
<1> DEFINE s(opts) == [dev EXCEPT !.call[c].opts = opts]
           y(opts) == [dev.call[c] EXCEPT !.opts = opts]
<1>1. PICK opts \in Options : dev' = at_enqueue_dial(s(opts), c)
  BY DEF Dial, Step
<1>2. opts \in {"", "holdother", "conference"} /\ dev.call[c].chan
  <2>1. opts \in {"", "holdother", "conference"}
    BY CallsAssumption, Zenon
  <2> QED BY <2>1 DEF Dial
<1>3. dev \in Device /\ dev.call[c] \in Call /\ Fit(dev.call[c]) /\ FitsBut(dev, c)
  BY Fields, FitsButOne DEF Inv, Fits
<1>4. LET x == dev.call[c]  z == y(opts)
      IN  /\ z \in Call /\ z.state = x.state /\ z.placed = x.placed /\ z.chan = x.chan
          /\ z.local = x.local /\ z.act = x.act /\ z.master = x.master /\ z.hup = x.hup
          /\ z.need = x.need /\ z.asked = x.asked
  BY <1>2, <1>3 DEF Call
<1>5. s(opts) = [dev EXCEPT !.call = [dev.call EXCEPT ![c] = y(opts)]]
  BY <1>3
<1> DEFINE u == s(opts)
           cmds == IF u.count[ACTIVE] > 0 /\ u.call[c].opts # "" THEN <<"CHLD_2", "D">> ELSE <<"D">>
           i == Insert(u, c, cmds)
           z == [i.call[c] EXCEPT !.need = TRUE, !.placed = TRUE]
<1>6. dev' = [i EXCEPT !.call[c].need = TRUE, !.call[c].placed = TRUE]
  BY <1>1 DEF at_enqueue_dial
<1> HIDE DEF s, y
<1>7. Fit(y(opts))
  BY <1>3, <1>4 DEF Fit, Heard, Meant
<1>8. u \in Device /\ Fits(u) /\ u.call[c] = y(opts)
  BY <1>3, <1>4, <1>5, <1>7, ChangedFits
<1>9. cmds \in {<<"D">>, <<"CHLD_2", "D">>}
  OBVIOUS
<1> HIDE DEF u, cmds
<1>10. [cmds |-> cmds, of |-> c] \in Tasks
  BY <1>9, TaskKinds
<1>11. /\ i \in Device /\ i.call = u.call
       /\ \A j \in DOMAIN i.queue : \/ i.queue[j] = [cmds |-> cmds, of |-> c]
                                    \/ \E k \in DOMAIN u.queue : i.queue[j] = u.queue[k]
  BY <1>8, <1>10, InsertFields
<1> HIDE DEF i
<1>12. Hangers(i.queue) \subseteq Hangers(u.queue)
  <2>1. cmds \notin Ends
    BY <1>9 DEF Ends
  <2>2. \A j \in DOMAIN i.queue : i.queue[j].cmds \notin Ends \/ \E k \in DOMAIN u.queue : i.queue[j] = u.queue[k]
    BY <1>11, <2>1
  <2> QED BY <2>2, HangersBy
<1>13. Fits(i)
  BY <1>8, <1>11, <1>12, SameFits
<1>14. i.call[c] \in Call /\ i.call[c].chan /\ FitsBut(i, c) /\ Fit(i.call[c])
  BY <1>2, <1>4, <1>8, <1>11, <1>13, FitsButOne, Fields DEF Fits
<1>15. LET x == i.call[c]
       IN  /\ z \in Call /\ z.state = x.state /\ z.chan = x.chan /\ z.need
           /\ z.local = x.local /\ z.act = x.act /\ z.master = x.master /\ z.hup = x.hup
           /\ z.asked = x.asked
  BY <1>14 DEF Call
<1>16. dev' = [i EXCEPT !.call = [i.call EXCEPT ![c] = z]]
  BY <1>6, <1>11
<1> HIDE DEF z
<1>17. Fit(z)
  BY <1>14, <1>15 DEF Fit, Heard, Meant
<1> QED BY <1>11, <1>14, <1>15, <1>16, <1>17, ChangedFits

(* The hangup of a channel asks for the end of its call, or that has been  *)
(* done.                                                                   *)
LEMMA HangupFits ==
  ASSUME Inv(dev), Fits(dev), NEW c \in CallIds, Hangup(c)
  PROVE  Fits(dev')
<1> DEFINE h == at_enqueue_hangup(dev, c, dev.call[c].idx)
           g == [h EXCEPT !.call[c].need = FALSE]
           s == IF dev.call[c].need THEN g ELSE dev
           v == cpvt_call_disactivate(s, c)
           w == [v.call[c] EXCEPT !.chan = FALSE, !.fd = "none", !.hup = FALSE]
<1>1. dev' = Detached(v, c) /\ c \in Listed(dev)
  BY DEF Hangup, Step, Detached
<1>2. dev \in Device /\ Listing(dev) /\ c # Sys
  BY Limits DEF Inv, CallIds, Sys
<1>3. h \in Device /\ Fits(h) /\ (MaxCalls = 1 => h.call[c].asked)
  <2>1. PICK idx : idx = dev.call[c].idx
    OBVIOUS
  <2>2. h = at_enqueue_hangup(dev, c, idx)
    BY <2>1
  <2> HIDE DEF h
  <2> QED BY <1>1, <1>2, <2>1, <2>2, EnqueueFits
<1> HIDE DEF h
<1>4. g \in Device /\ Fits(g) /\ (MaxCalls = 1 => g.call[c].asked)
  <2> DEFINE y == [h.call[c] EXCEPT !.need = FALSE]
  <2>1. h.call[c] \in Call /\ Fit(h.call[c]) /\ FitsBut(h, c)
    BY <1>3, Fields, FitsButOne DEF Fits
  <2>2. LET x == h.call[c]
        IN  /\ y \in Call /\ y.state = x.state /\ y.placed = x.placed /\ y.chan = x.chan
            /\ y.local = x.local /\ y.act = x.act /\ y.master = x.master /\ y.hup = x.hup
            /\ y.asked = x.asked
    BY <2>1 DEF Call
  <2>3. g = [h EXCEPT !.call = [h.call EXCEPT ![c] = y]]
    BY <1>3
  <2> HIDE DEF y, g
  <2>4. Fit(y)
    BY <1>3, <2>1, <2>2 DEF Fit, Heard, Meant
  <2> QED BY <1>3, <2>1, <2>2, <2>3, <2>4, ChangedFits
<1> HIDE DEF g
<1>5. s \in Device /\ Fits(s) /\ (MaxCalls = 1 /\ s.call[c].placed => s.call[c].asked)
  <2>1. CASE dev.call[c].need
    BY <1>4, <2>1
  <2>2. CASE ~dev.call[c].need
    <3>1. Meant(dev.call[c])
      BY DEF Fits, Fit
    <3> QED BY <1>2, <2>2, <3>1 DEF Meant
  <2> QED BY <2>1, <2>2
<1> HIDE DEF s
<1>6. /\ v \in Device /\ v.queue = s.queue
      /\ v.call[c] = s.call[c] \/ v.call[c] = Muted(s.call[c])
      /\ \A d \in CallIds \ {c} : v.call[d] = s.call[d]
  BY <1>5, DisactivateQuiet DEF Quiet
<1> HIDE DEF v
<1>7. /\ v.call[c].asked = s.call[c].asked /\ v.call[c].placed = s.call[c].placed
      /\ v.call[c].master => v.call[c].act
  <2>1. s.call[c] \in Call /\ Fit(s.call[c])
    BY <1>5, Fields DEF Fits
  <2>2. CASE v.call[c] = s.call[c]
    BY <2>1, <2>2 DEF Fit
  <2>3. CASE v.call[c] = Muted(s.call[c])
    BY <2>1, <2>3 DEF Muted, Call
  <2> QED BY <1>6, <2>2, <2>3
<1>8. FitsBut(v, c) /\ v.call[c] \in Call
  <2>1. FitsBut(s, c)
    BY <1>5, FitsButOne
  <2>2. Meant(v.call[c])
    BY <1>5, <1>7 DEF Meant
  <2> QED BY <1>6, <1>7, <2>1, <2>2, OneFits, Fields
<1>9. LET x == v.call[c]
      IN  /\ w \in Call /\ ~w.chan /\ w.placed = x.placed /\ w.asked = x.asked
          /\ w.master = x.master /\ w.act = x.act
  BY <1>8 DEF Call
<1>10. dev' = [v EXCEPT !.call = [v.call EXCEPT ![c] = w]]
  BY <1>1, <1>6 DEF Detached
<1> HIDE DEF w
<1>11. Fit(w)
  BY <1>5, <1>7, <1>9 DEF Fit, Heard, Meant
<1> QED BY <1>6, <1>8, <1>9, <1>10, <1>11, ChangedFits

LEMMA AnswerFits ==
  ASSUME Inv(dev), Fits(dev), NEW c \in CallIds, Answer(c) \/ Activate(c)
  PROVE  Fits(dev')
<1>1. dev \in Device
  BY DEF Inv
<1>2. PICK cmds \in {<<"A">>, <<"CHLD_2x">>} : dev' = Insert(dev, c, cmds)
  BY DEF Answer, Activate, Step
<1>3. cmds \notin Ends
  BY DEF Ends
<1>4. [cmds |-> cmds, of |-> c] \in Tasks
  BY TaskKinds
<1>5. /\ dev'.call = dev.call
      /\ \A j \in DOMAIN dev'.queue : \/ dev'.queue[j] = [cmds |-> cmds, of |-> c]
                                      \/ \E k \in DOMAIN dev.queue : dev'.queue[j] = dev.queue[k]
  BY <1>1, <1>2, <1>4, InsertFields
<1>6. \A j \in DOMAIN dev'.queue : \/ dev'.queue[j].cmds \notin Ends
                                   \/ \E k \in DOMAIN dev.queue : dev'.queue[j] = dev.queue[k]
  BY <1>3, <1>5
<1>7. Hangers(dev'.queue) \subseteq Hangers(dev.queue)
  BY <1>6, HangersBy
<1> QED BY <1>5, <1>7, SameFits

LEMMA CaptureLostFits ==
  ASSUME Inv(dev), Fits(dev), NEW c \in CallIds, CaptureLost(c)
  PROVE  Fits(dev')
<1> DEFINE v == cpvt_call_disactivate(dev, c)
           w == [v.call[c] EXCEPT !.hup = TRUE]
<1>1. dev' = [v EXCEPT !.call[c].hup = TRUE]
  BY DEF CaptureLost, Step
<1>2. dev \in Device /\ dev.call[c] \in Call /\ Fit(dev.call[c]) /\ FitsBut(dev, c)
  BY Fields, FitsButOne DEF Inv, Fits
<1>3. /\ v \in Device /\ v.queue = dev.queue
      /\ v.call[c] = dev.call[c] \/ v.call[c] = Muted(dev.call[c])
      /\ \A d \in CallIds \ {c} : v.call[d] = dev.call[d]
  BY <1>2, DisactivateQuiet DEF Quiet
<1> HIDE DEF v
<1>4. LET x == dev.call[c]  y == v.call[c]
      IN  /\ y.asked = x.asked /\ y.placed = x.placed /\ y.need = x.need /\ y.chan = x.chan
          /\ y.master => y.act
  <2>1. CASE v.call[c] = dev.call[c]
    BY <1>2, <2>1 DEF Fit
  <2>2. CASE v.call[c] = Muted(dev.call[c])
    BY <1>2, <2>2 DEF Muted, Call
  <2> QED BY <1>3, <2>1, <2>2
<1>5. Meant(v.call[c])
  BY <1>2, <1>4 DEF Fit, Meant
<1>6. FitsBut(v, c) /\ v.call[c] \in Call
  BY <1>2, <1>3, <1>4, <1>5, OneFits, Fields
<1>7. LET x == v.call[c]
      IN  /\ w \in Call /\ w.hup /\ w.placed = x.placed /\ w.asked = x.asked
          /\ w.need = x.need /\ w.chan = x.chan /\ w.master = x.master /\ w.act = x.act
  BY <1>6 DEF Call
<1>8. dev' = [v EXCEPT !.call = [v.call EXCEPT ![c] = w]]
  BY <1>1, <1>3
<1> HIDE DEF w
<1>9. Fit(w)
  BY <1>4, <1>5, <1>7 DEF Fit, Heard, Meant
<1> QED BY <1>3, <1>6, <1>7, <1>8, <1>9, ChangedFits

(* The results of commands.  Marks on the owner of one: what ends a call   *)
(* takes the mark off a call that was asked to end.                        *)
LEMMA MarkFits ==
  ASSUME NEW s \in Device, Fits(s), NEW c \in CallIds \union {Sys}, NEW b \in BOOLEAN,
         b \/ c \in Hangers(s.queue)
  PROVE  Fits(SetNeed(s, c, b)) /\ Fits(QueueHangup(s, c))
<1>1. CASE c = Sys
  BY <1>1 DEF SetNeed, QueueHangup
<1>2. CASE c \in CallIds /\ c # Sys
  <2> DEFINE x == s.call[c]
             y == [x EXCEPT !.need = b]
             z == [x EXCEPT !.hup = TRUE]
  <2>1. x \in Call /\ Fit(x) /\ FitsBut(s, c)
    BY <1>2, Fields, FitsButOne DEF Fits
  <2>2. /\ y \in Call /\ y.state = x.state /\ y.placed = x.placed /\ y.chan = x.chan
        /\ y.local = x.local /\ y.act = x.act /\ y.master = x.master /\ y.hup = x.hup
        /\ y.asked = x.asked /\ y.need = b
    BY <2>1 DEF Call
  <2>3. /\ z \in Call /\ z.placed = x.placed /\ z.chan = x.chan
        /\ z.act = x.act /\ z.master = x.master /\ z.hup
        /\ z.asked = x.asked /\ z.need = x.need
    BY <2>1 DEF Call
  <2>4. MaxCalls = 1 /\ ~b => x.asked
    BY <1>2 DEF Fits, Parting
  <2>5. SetNeed(s, c, b) = [s EXCEPT !.call = [s.call EXCEPT ![c] = y]]
    BY <1>2 DEF SetNeed
  <2>6. QueueHangup(s, c) = s \/ QueueHangup(s, c) = [s EXCEPT !.call = [s.call EXCEPT ![c] = z]]
    BY <1>2 DEF QueueHangup
  <2> HIDE DEF y, z
  <2>7. Fit(y) /\ Fit(z)
    BY <2>1, <2>2, <2>3, <2>4 DEF Fit, Heard, Meant
  <2> HIDE DEF x
  <2>8. (s.call[c].asked => y.asked) /\ (s.call[c].asked => z.asked)
    BY <2>2, <2>3 DEF x
  <2>9. PICK t, u : t = SetNeed(s, c, b) /\ u = QueueHangup(s, c)
    OBVIOUS
  <2>10. Fits(t)
    BY <1>2, <2>1, <2>2, <2>5, <2>7, <2>8, <2>9, ChangedFits
  <2>11. Fits(u)
    BY <1>2, <2>1, <2>3, <2>6, <2>7, <2>8, <2>9, ChangedFits
  <2> QED BY <2>9, <2>10, <2>11
<1> QED BY <1>1, <1>2

(* The command, or the task, goes.                                         *)
LEMMA HeadFits ==
  ASSUME NEW s \in Device, s.queue # <<>>, Fits(s)
  PROVE  Fits(NextTask(s)) /\ Fits(NextCommand(s))
<1>1. /\ NextTask(s).queue = Tail(s.queue) /\ NextTask(s).call = s.call
      /\ NextCommand(s).call = s.call
      /\ \A i \in DOMAIN NextCommand(s).queue :
           \/ NextCommand(s).queue[i].cmds = <<"D">>
           \/ \E j \in DOMAIN s.queue : NextCommand(s).queue[i] = s.queue[j]
  BY HeadQuiet
<1>2. <<"D">> \notin Ends
  BY DEF Ends
<1>3. Hangers(NextCommand(s).queue) \subseteq Hangers(s.queue)
  <2>1. PICK r : r = NextCommand(s).queue
    OBVIOUS
  <2>2. \A i \in DOMAIN r : r[i].cmds \notin Ends \/ \E j \in DOMAIN s.queue : r[i] = s.queue[j]
    BY <1>1, <1>2, <2>1
  <2> QED BY <2>1, <2>2, HangersBy
<1>4. Hangers(NextTask(s).queue) \subseteq Hangers(s.queue)
  <2>1. PICK q \in Seq(Tasks) : q = s.queue
    BY Fields
  <2>2. /\ Len(q) \in Nat /\ Len(q) > 0 /\ DOMAIN q = 1 .. Len(q)
        /\ DOMAIN Tail(q) = 1 .. Len(q) - 1
        /\ \A i \in 1 .. Len(q) - 1 : Tail(q)[i] = q[i + 1]
    BY <2>1, HeadTailProperties, LenProperties, EmptySeq
  <2>3. \A i \in DOMAIN Tail(q) : i + 1 \in DOMAIN q /\ Tail(q)[i] = q[i + 1]
    BY <2>2
  <2>4. \A i \in DOMAIN Tail(q) : \E j \in DOMAIN q : Tail(q)[i] = q[j]
    BY <2>3
  <2>5. Hangers(Tail(q)) \subseteq Hangers(q)
    BY <2>4, HangersBy
  <2> QED BY <1>1, <2>1, <2>5
<1> QED BY <1>1, <1>3, <1>4, SameFits

(* cpvt_change_state of sys_chan.                                          *)
LEMMA ChangeSysFits ==
  ASSUME NEW s, Inv(s), Fits(s), s.sys # "freed", NEW new \in call_state_t
  PROVE  Fits(ChangeSys(s, new))
<1>0. s \in Device /\ Listing(s)
  BY DEF Inv
<1> DEFINE v == UpdateFlags(s, s.sys, new)
           u == [v EXCEPT !.sys = new]
<1>1. s.sys \in call_state_t
  BY <1>0, Fields
<1>2. Alike(s, v) /\ v \in Device
  BY <1>0, <1>1, UpdateFlagsAlike DEF Alike
<1>3. v.queue = s.queue /\ v.call = s.call
  BY <1>0 DEF UpdateFlags, Device
<1> HIDE DEF v
<1>4. Alike(v, u) /\ u \in Device
  BY <1>2, SysAlike DEF Alike
<1>5. u.queue = s.queue /\ u.call = s.call
  BY <1>2, <1>3 DEF Device
<1>6. ChangeSys(s, new) = IF new = s.sys THEN s
                          ELSE IF new = RELEASED THEN [u EXCEPT !.sys = "freed"]
                          ELSE at_enqueue_hangup(u, Sys, 0)
  BY DEF ChangeSys, v
<1> HIDE DEF u
<1>7. Fits(u) /\ Listing(u)
  <2>1. Alike(s, u)
    BY <1>2, <1>4, AlikeTwice
  <2> QED BY <1>0, <1>5, <2>1, AlikeKeeps, SameFits
<1>8. Fits([u EXCEPT !.sys = "freed"])
  <2>1. PICK w : w = [u EXCEPT !.sys = "freed"]
    OBVIOUS
  <2>2. w.call = u.call /\ w.queue = u.queue
    BY <1>4, <2>1 DEF Device
  <2> QED BY <1>7, <2>1, <2>2, SameFits
<1>9. Fits(at_enqueue_hangup(u, Sys, 0))
  <2>1. PICK of, idx : of \in Listed(u) \union {Sys} /\ of = Sys /\ idx = 0
    OBVIOUS
  <2>2. Fits(at_enqueue_hangup(u, of, idx))
    BY <1>4, <1>7, <2>1, EnqueueFits
  <2> QED BY <2>1, <2>2
<1> QED BY <1>6, <1>8, <1>9

(* The owner of a command changes its state.                               *)
LEMMA OwnerFits ==
  ASSUME NEW s, Inv(s), Fits(s), NEW c \in Listed(s) \union {Sys}, NEW new \in call_state_t,
         s.sys # "freed",
         NEW t \in IF c = Sys THEN {ChangeSys(s, new)} ELSE cpvt_change_state(s, c, new)
  PROVE  Fits(t)
<1>1. s \in Device /\ Listing(s)
  BY DEF Inv
<1>2. CASE c = Sys
  <2>1. t = ChangeSys(s, new)
    BY <1>2
  <2> QED BY <2>1, ChangeSysFits
<1>3. CASE c # Sys
  <2>1. c \in Listed(s) /\ t \in cpvt_change_state(s, c, new)
    BY <1>3
  <2> QED BY <1>1, <2>1, ChangeFits
<1> QED BY <1>2, <1>3

LEMMA ResultOkFits ==
  ASSUME Inv(dev), Fits(dev), ResultOk
  PROVE  Fits(dev')
<1> DEFINE c == Owner
           s == [dev EXCEPT !.dialing = TRUE]
           D == IF c = Sys THEN {ChangeSys(s, DIALING)} ELSE cpvt_change_state(s, c, DIALING)
<1>1. dev.queue # <<>> /\ dev.sys # "freed"
  BY DEF ResultOk
<1>2. PICK t : /\ dev' = NextCommand(t)
               /\ \/ \E u \in D : t = SetNeed(u, c, TRUE)
                  \/ t = SetNeed(dev, c, TRUE)
                  \/ Cmd \in {"HUP", "CHLD_1x"} /\ t = SetNeed(dev, c, FALSE)
                  \/ t = dev
  <2> HIDE DEF D, c
  <2> DEFINE S1 == {SetNeed(u, c, TRUE) : u \in D}
             changed == CASE Cmd = "D" -> S1
                          [] Cmd \in {"A", "CHLD_2x"} -> {SetNeed(dev, c, TRUE)}
                          [] Cmd \in {"HUP", "CHLD_1x"} -> {SetNeed(dev, c, FALSE)}
                          [] OTHER -> {dev}
  <2>1. dev' \in {NextCommand(t) : t \in changed}
    BY DEF ResultOk, Step, D, c
  <2> HIDE DEF S1
  <2>2. \A t \in changed : \/ t \in S1
                           \/ t = SetNeed(dev, c, TRUE)
                           \/ Cmd \in {"HUP", "CHLD_1x"} /\ t = SetNeed(dev, c, FALSE)
                           \/ t = dev
    OBVIOUS
  <2> HIDE DEF changed
  <2>3. PICK t \in changed : dev' = NextCommand(t)
    BY <2>1
  <2> QED BY <2>2, <2>3 DEF S1
<1>3. c \in Listed(dev) \union {Sys} /\ c \in CallIds \union {Sys} /\ dev \in Device /\ Listing(dev)
  BY <1>1, OwnerIsListed
<1>4. Cmd \in {"HUP", "CHLD_1x"} => c \in Hangers(dev.queue)
  <2>1. dev.queue \in Seq(Tasks) /\ Head(dev.queue) = dev.queue[1] /\ 1 \in DOMAIN dev.queue
    BY <1>1, <1>3, Fields, HeadTailProperties, LenProperties, EmptySeq
  <2>2. dev.queue[1].cmds \in {<<"D">>, <<"CHLD_2", "D">>, <<"A">>, <<"CHLD_2x">>, <<"CHLD_3">>,
                               <<"HUP">>, <<"CHLD_1x">>}
    <3>1. dev.queue[1] \in Tasks
      BY <2>1, ElementOfSeq
    <3> QED BY <3>1 DEF Tasks
  <2>3. Head(dev.queue[1].cmds) = Cmd /\ dev.queue[1].of = c
    BY <2>1 DEF Cmd, Owner
  <2>4. Cmd \in {"HUP", "CHLD_1x"} => dev.queue[1].cmds \in Ends
    BY <2>2, <2>3 DEF Ends
  <2> QED BY <2>1, <2>3, <2>4 DEF Hangers
<1>5. \A u \in D : Fits(u) /\ u \in Device /\ u.queue # <<>>
  <2>1. PICK r : r = s
    OBVIOUS
  <2>2. r \in Device /\ r.queue = dev.queue /\ r.call = dev.call /\ r.sys = dev.sys
    BY <1>3, <2>1 DEF Device
  <2>3. Alike(dev, r)
    BY <1>3, <2>1, FlagAlike
  <2>4. Inv(r) /\ Listed(r) = Listed(dev) /\ Fits(r)
    BY <1>3, <2>2, <2>3, PreservesInv, AlikeKeeps, SameFits
  <2>5. DIALING \in call_state_t /\ c \in Listed(r) \union {Sys} /\ r.queue # <<>> /\ r.sys # "freed"
    BY <1>1, <1>3, <2>2, <2>4 DEF call_state_t
  <2> HIDE DEF c, s
  <2>6. ASSUME NEW u \in IF c = Sys THEN {ChangeSys(r, DIALING)} ELSE cpvt_change_state(r, c, DIALING)
        PROVE  Fits(u) /\ u \in Device /\ u.queue # <<>>
    <3>1. Fits(u)
      BY <2>4, <2>5, OwnerFits
    <3>2. Inv(u) /\ u.queue # <<>>
      BY <2>4, <2>5, OwnerChanges
    <3> QED BY <3>1, <3>2 DEF Inv
  <2> QED BY <2>1, <2>6
<1> HIDE DEF D, c
<1>6. \A u \in Device, b \in BOOLEAN : SetNeed(u, c, b).queue = u.queue
  BY DEF SetNeed, Device
<1>7. ASSUME NEW u \in Device, Fits(u), u.queue # <<>>, NEW b \in BOOLEAN, b \/ c \in Hangers(u.queue)
      PROVE  Fits(SetNeed(u, c, b)) /\ SetNeed(u, c, b) \in Device /\ SetNeed(u, c, b).queue # <<>>
  <2>1. Quiet(u, SetNeed(u, c, b))
    BY <1>3, <1>7, MarkQuiet
  <2> QED BY <1>3, <1>6, <1>7, <2>1, MarkFits DEF Quiet
<1>8. \A u \in Device : Fits(u) /\ u.queue # <<>> =>
        /\ Fits(SetNeed(u, c, TRUE)) /\ SetNeed(u, c, TRUE) \in Device /\ SetNeed(u, c, TRUE).queue # <<>>
  <2>1. PICK yes \in BOOLEAN : yes = TRUE
    OBVIOUS
  <2> QED BY <1>7, <2>1
<1>9. c \in Hangers(dev.queue) =>
        /\ Fits(SetNeed(dev, c, FALSE)) /\ SetNeed(dev, c, FALSE) \in Device /\ SetNeed(dev, c, FALSE).queue # <<>>
  <2>1. PICK no \in BOOLEAN : no = FALSE
    OBVIOUS
  <2> QED BY <1>1, <1>3, <1>7, <2>1
<1>10. Fits(t) /\ t \in Device /\ t.queue # <<>>
  BY <1>1, <1>2, <1>3, <1>4, <1>5, <1>8, <1>9
<1> QED BY <1>2, <1>10, HeadFits

LEMMA ResultErrorFits ==
  ASSUME Inv(dev), Fits(dev), ResultError
  PROVE  Fits(dev')
<1> DEFINE c == Owner
           D == IF c = Sys THEN {ChangeSys(dev, RELEASED)} ELSE cpvt_change_state(dev, c, RELEASED)
<1>1. dev.queue # <<>> /\ dev.sys # "freed"
  BY DEF ResultError
<1>2. PICK t : dev' = NextTask(t) /\ (t \in D \/ t = QueueHangup(dev, c) \/ t = dev)
  <2> HIDE DEF D, c
  <2> DEFINE ends == Cmd = "D" \/ (Cmd = "CHLD_2" /\ c # Sys /\ dev.call[c].opts # ""
                                    /\ dev.call[c].state = INIT)
             changed == CASE Cmd \in {"A", "CHLD_2x", "CHLD_3"} -> {QueueHangup(dev, c)}
                          [] ends -> D
                          [] OTHER -> {dev}
  <2>1. dev' \in {NextTask(t) : t \in changed}
    BY DEF ResultError, Step, D, c
  <2>2. Cmd \in {"A", "CHLD_2x", "CHLD_3"} => ~ends
    OBVIOUS
  <2> HIDE DEF ends
  <2>3. \A t \in changed : t \in D \/ t = QueueHangup(dev, c) \/ t = dev
    BY <2>2
  <2> HIDE DEF changed
  <2>4. PICK t \in changed : dev' = NextTask(t)
    BY <2>1
  <2> QED BY <2>3, <2>4
<1>3. c \in Listed(dev) \union {Sys} /\ c \in CallIds \union {Sys} /\ dev \in Device /\ Listing(dev)
  BY <1>1, OwnerIsListed
<1>4. \A u \in D : Fits(u) /\ u \in Device /\ u.queue # <<>>
  <2>0. RELEASED \in call_state_t
    BY DEF call_state_t
  <2> HIDE DEF c
  <2>1. ASSUME NEW u \in D
        PROVE  Fits(u) /\ u \in Device /\ u.queue # <<>>
    <3>1. Fits(u)
      BY <1>1, <1>3, <2>0, OwnerFits
    <3>2. Inv(u) /\ u.queue # <<>>
      BY <1>1, <1>3, <2>0, OwnerChanges
    <3> QED BY <3>1, <3>2 DEF Inv
  <2> QED BY <2>1
<1> HIDE DEF D, c
<1>5. CASE t = QueueHangup(dev, c)
  <2>1. PICK b \in BOOLEAN : b
    OBVIOUS
  <2>2. Fits(t)
    BY <1>3, <1>5, <2>1, MarkFits
  <2>3. Quiet(dev, t)
    BY <1>3, <1>5, <2>1, MarkQuiet
  <2>4. t.queue = dev.queue
    BY <1>3, <1>5 DEF QueueHangup, Device
  <2> QED BY <1>1, <1>2, <2>2, <2>3, <2>4, HeadFits DEF Quiet
<1> QED BY <1>1, <1>2, <1>3, <1>4, <1>5, HeadFits

LEMMA ResultTimeoutFits ==
  ASSUME Inv(dev), Fits(dev), ResultTimeout
  PROVE  Fits(dev')
<1>1. dev.queue # <<>> /\ dev' = NextTask(dev) /\ dev \in Device
  BY DEF ResultTimeout, Step, Inv
<1> QED BY <1>1, HeadFits

LEMMA FlagsFits ==
  ASSUME Inv(dev), Fits(dev), Reset \/ CallWaiting
  PROVE  Fits(dev')
<1>1. dev \in Device
  BY DEF Inv
<1>2. dev'.call = dev.call /\ dev'.queue = dev.queue
  <2>1. CASE Reset
    BY <1>1, <2>1 DEF Reset, Step, Flags, Device
  <2>2. CASE CallWaiting
    BY <1>1, <2>2 DEF CallWaiting, Step, Device
  <2> QED BY <2>1, <2>2
<1> QED BY <1>2, SameFits

(* A device without calls and commands.                                    *)
LEMMA EmptyFits ==
  ASSUME NEW s, s.queue = <<>>, s.call = [c \in CallIds |-> NoCall]
  PROVE  Fits(s)
<1>1. Hangers(s.queue) = {}
  BY DEF Hangers
<1>2. Fit(NoCall)
  BY DEF NoCall, Fit, Heard, Meant
<1> QED BY <1>1, <1>2 DEF Fits, Parting

LEMMA DisconnectFits ==
  ASSUME Inv(dev), Disconnect
  PROVE  Fits(dev')
<1> DEFINE in(st) == Cardinality({c \in Listed(dev) : dev.call[c].state = st})
           activated == {c \in Listed(dev) : dev.call[c].act}
           f == [c \in CallIds |-> NoCall]
           k == (dev.chansno + CountValues - Len(dev.chans)) % CountValues
           n == [st \in call_state_t |-> (dev.count[st] + CountValues - in(st)) % CountValues]
           m == IF Mixing THEN dev.mix \ activated ELSE dev.mix
<1>1. dev \in Device
  BY DEF Inv
<1>2. dev' = [dev EXCEPT !.ring = FALSE, !.dialing = FALSE, !.cwaiting = FALSE,
                !.chans = <<>>, !.call = f, !.chansno = k, !.count = n, !.mix = m,
                !.queue = <<>>, !.buf = FALSE, !.capture = FALSE]
  BY <1>1 DEF Disconnect, Step, Flags, Device
<1> HIDE DEF f, k, n, m
<1>3. dev'.queue = <<>> /\ dev'.call = f
  BY <1>1, <1>2 DEF Device
<1> QED BY <1>3, EmptyFits DEF f

LEMMA InitFits == Init => Fits(dev)
<1> SUFFICES ASSUME Init PROVE Fits(dev)
  OBVIOUS
<1>1. dev.queue = <<>> /\ dev.call = [c \in CallIds |-> NoCall]
  BY DEF Init
<1> QED BY <1>1, EmptyFits

(* Every step leaves calls with sound or on their way out.                 *)
LEMMA NextFits ==
  ASSUME Inv(dev), Fits(dev), [Next]_vars
  PROVE  Fits(dev')
<1>1. CASE Channel
  <2>1. CASE Request
    BY <2>1, RequestFits
  <2>2. ASSUME NEW c \in CallIds, Dial(c) \/ Hangup(c) \/ Answer(c) \/ Activate(c) \/ CaptureLost(c)
        PROVE  Fits(dev')
    BY <2>2, DialFits, HangupFits, AnswerFits, CaptureLostFits
  <2> QED BY <1>1, <2>1, <2>2 DEF Channel
<1>2. CASE Modem
  BY <1>2, ReportFits, FlagsFits, ResultOkFits, ResultErrorFits, ResultTimeoutFits DEF Modem
<1>3. CASE Disconnect
  BY <1>3, DisconnectFits
<1>4. CASE UNCHANGED vars
  BY <1>4 DEF vars
<1> QED BY <1>1, <1>2, <1>3, <1>4 DEF Next

FitInv == CallsInv /\ Fits(dev)

LEMMA FitInductive == Spec => []FitInv
<1>1. Init => FitInv
  BY InitInv, InitFits DEF FitInv, CallsInv
<1>2. FitInv /\ [Next]_vars => FitInv'
  BY NextInv, NextFits DEF FitInv, CallsInv
<1> QED BY <1>1, <1>2, PTL DEF Spec

(* A channel of a ringing or talking call on ALSA that has no sound is     *)
(* being hung up, for any number of calls and whatever fails: capture that *)
(* does not start (cpvt_call_activate), capture that is lost               *)
(* (channel_read), calls that take the sound from each other, late holds   *)
(* and releases.                                                           *)
THEOREM SilenceIsEnded == Spec => []SilentCallsEnd
<1>1. ASSUME FitInv, Configured
      PROVE  SilentCallsEnd
  <2>0. config.uac = Uac
    BY <1>1 DEF Configured
  <2>1. Listed(dev) \subseteq CallIds
    BY <1>1, ListedTypes DEF FitInv, CallsInv, Inv
  <2>2. \A c \in Listed(dev) : Heard(dev.call[c])
    BY <1>1, <2>1 DEF FitInv, Fits, Fit
  <2> QED BY <2>0, <2>2 DEF SilentCallsEnd, Heard, Sounded
<1> QED BY <1>1, FitInductive, ConfiguredAlways, PTL

(* No call is left in the modem without anyone to end it: with one call at *)
(* a time, a call that was dialled or taken and has lost its channel has   *)
(* been asked to end (channel_hangup, at_enqueue_hangup).  With several    *)
(* the index of the call does not reach the modem.                         *)
THEOREM OrphansAreEnded == Spec => []NoCallLeftBehind
<1>1. ASSUME FitInv
      PROVE  NoCallLeftBehind
  <2>1. Listed(dev) \subseteq CallIds
    BY <1>1, ListedTypes DEF FitInv, CallsInv, Inv
  <2>2. \A c \in Listed(dev) : Meant(dev.call[c])
    BY <1>1, <2>1 DEF FitInv, Fits, Fit
  <2>3. DOMAIN dev.call = 1 .. MaxCalls
    BY <1>1 DEF FitInv, CallsInv, Inv, Device, CallIds
  <2>4. (\A c, d \in DOMAIN dev.call : c = d) => MaxCalls = 1
    <3>1. ASSUME MaxCalls # 1, \A c, d \in DOMAIN dev.call : c = d
          PROVE  FALSE
      <4>0. MaxCalls \in Nat \ {0}
        BY CallsAssumption, Zenon
      <4>1. 1 \in 1 .. MaxCalls /\ 2 \in 1 .. MaxCalls
        BY <3>1, <4>0
      <4> QED BY <2>3, <3>1, <4>1
    <3> QED BY <3>1
  <2> QED BY <2>2, <2>4 DEF NoCallLeftBehind, OrphanIsHungUp, Meant
<1> QED BY <1>1, FitInductive, PTL
=============================================================================
