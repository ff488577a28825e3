----------------------------- MODULE SmsInProofs -----------------------------
(***************************************************************************)
(* Theorems about receiving, for every set of senders, every number of     *)
(* parts and every store: a slot that counts as being read has its AT+CMGR *)
(* on the way, what reaches the dialplan is a whole message, and no part   *)
(* is lost where the code promises it.                                     *)
(***************************************************************************)
EXTENDS SmsIn, FiniteSetTheorems, SequenceTheorems, TLAPS

Codes == {"CMGR", "CMGD", "CMGL", "CNMA"}

Commands == [cmd : Codes, idx : Slots \union {NoIndex, 0}]

-----------------------------------------------------------------------------
(* What the handlers do, apart for the queue and for the tables.           *)

At(q, i, r, b) == [queue |-> q, index |-> i, rows |-> r, inbox |-> b]

NewRow(x) ==
  [addr |-> x.addr, ref |-> x.ref, parts |-> Parts, order |-> x.order,
   text |-> <<x.addr, x.msg, x.order>>, old |-> FALSE]

Live(r) == {z \in r : ~z.old}

Grown(r, x) == put_incmsg(Live(r), NewRow(x))

Mine(r, x) == {z \in Grown(r, x) : SameKey(z, NewRow(x))}

(* No transaction, or no room.                                             *)
Full(h, r) == ~h \/ Cardinality(Live(r)) >= Capacity

(* The four ways in which a part changes rows and inbox.                   *)
Single(r, b, x, r2, b2) == Parts = 1 /\ r2 = r /\ b2 = b \union {<<Text(x)>>}

Refused(h, r, b, x, r2, b2) ==
  Parts # 1 /\ Full(h, r) /\ r2 = Live(r) /\ b2 = b

Completed(h, r, b, x, r2, b2) ==
  /\ Parts # 1 /\ ~Full(h, r)
  /\ Cardinality(Mine(r, x)) = Parts
  /\ r2 = Grown(r, x) \ Mine(r, x) /\ b2 = b \union {get_incmsg(Mine(r, x))}

Waiting(h, r, b, x, r2, b2) ==
  /\ Parts # 1 /\ ~Full(h, r)
  /\ Cardinality(Mine(r, x)) # Parts
  /\ r2 = Grown(r, x) /\ b2 = b

Put(h, r, b, x, r2, b2) ==
  \/ Single(r, b, x, r2, b2) \/ Refused(h, r, b, x, r2, b2)
  \/ Completed(h, r, b, x, r2, b2) \/ Waiting(h, r, b, x, r2, b2)

(* The result of a put for a part whose order is in range.                 *)
LEMMA PutResult ==
  ASSUME Parts \in Nat \ {0}, NEW h \in BOOLEAN, NEW r, NEW x, x.order \in 1 .. Parts
  PROVE  /\ Full(h, r) =>
              smsdb_put(r, NewRow(x), h) = [rows |-> Live(r), res |-> -1, out |-> <<>>]
         /\ ~Full(h, r) /\ Cardinality(Mine(r, x)) = Parts =>
              smsdb_put(r, NewRow(x), h) =
                [rows |-> Grown(r, x) \ Mine(r, x), res |-> Parts, out |-> get_incmsg(Mine(r, x))]
         /\ ~Full(h, r) /\ Cardinality(Mine(r, x)) # Parts =>
              smsdb_put(r, NewRow(x), h) =
                [rows |-> Grown(r, x), res |-> Cardinality(Mine(r, x)), out |-> <<>>]
<1>1. NewRow(x).order \in 1 .. NewRow(x).parts /\ NewRow(x).parts = Parts
  BY DEF NewRow
<1>2. ~(NewRow(x).order \notin 1 .. NewRow(x).parts)
  BY <1>1
<1>3. QED
  BY <1>1, <1>2, Zenon DEF smsdb_put, Full, Live, Grown, Mine

(* A part as at_response_msg takes it from a header.                       *)
InRange(x) == Parts \in Nat \ {0} /\ x.order \in 1 .. Parts

(* Received changes rows and inbox in one of these ways.                   *)
LEMMA ReceivedPuts ==
  ASSUME NEW q, NEW i, NEW r, NEW b, NEW x, NEW h \in BOOLEAN, InRange(x)
  PROVE  \E r2, b2 : Received(At(q, i, r, b), x, h).s = At(q, i, r2, b2) /\ Put(h, r, b, x, r2, b2)
<1>0. DEFINE s == At(q, i, r, b)
             p == smsdb_put(s.rows, NewRow(x), h)
<1>1. /\ Parts <= 1 => Received(s, x, h).s = [s EXCEPT !.inbox = @ \union {<<NewRow(x).text>>}]
      /\ ~(Parts <= 1) => Received(s, x, h).s =
           [s EXCEPT !.rows = p.rows, !.inbox = IF p.res = Parts THEN @ \union {p.out} ELSE @]
  BY DEF Received, NewRow
<1>2. s.rows = r /\ s.inbox = b
  BY DEF At
<1>3. CASE Parts <= 1
  <2>1. Parts = 1
    BY <1>3 DEF InRange
  <2>2. Received(s, x, h).s = At(q, i, r, b \union {<<Text(x)>>})
    BY <1>1, <1>3 DEF At, NewRow, Text
  <2>3. Put(h, r, b, x, r, b \union {<<Text(x)>>})
    BY <2>1 DEF Put, Single
  <2>4. QED
    BY <2>2, <2>3
<1>4. CASE ~(Parts <= 1)
  <2>0. Parts # 1 /\ Parts \in Nat
    BY <1>4 DEF InRange
  <2>1. CASE Full(h, r)
    <3>1. p = [rows |-> Live(r), res |-> -1, out |-> <<>>]
      BY <2>1, <1>2, PutResult DEF InRange
    <3>2. p.rows = Live(r) /\ p.res # Parts
      BY <3>1, <2>0
    <3>3. Received(s, x, h).s = At(q, i, Live(r), b)
      BY <1>1, <1>4, <3>2 DEF At
    <3>4. Put(h, r, b, x, Live(r), b)
      BY <2>0, <2>1 DEF Put, Refused
    <3>5. QED
      BY <3>3, <3>4
  <2>2. CASE ~Full(h, r) /\ Cardinality(Mine(r, x)) = Parts
    <3>1. p = [rows |-> Grown(r, x) \ Mine(r, x), res |-> Parts, out |-> get_incmsg(Mine(r, x))]
      BY <2>2, <1>2, PutResult DEF InRange
    <3>2. p.rows = Grown(r, x) \ Mine(r, x) /\ p.res = Parts /\ p.out = get_incmsg(Mine(r, x))
      BY <3>1
    <3>3. Received(s, x, h).s = At(q, i, Grown(r, x) \ Mine(r, x), b \union {get_incmsg(Mine(r, x))})
      BY <1>1, <1>4, <3>2 DEF At
    <3>4. Put(h, r, b, x, Grown(r, x) \ Mine(r, x), b \union {get_incmsg(Mine(r, x))})
      BY <2>0, <2>2 DEF Put, Completed
    <3>5. QED
      BY <3>3, <3>4
  <2>3. CASE ~Full(h, r) /\ Cardinality(Mine(r, x)) # Parts
    <3>1. p = [rows |-> Grown(r, x), res |-> Cardinality(Mine(r, x)), out |-> <<>>]
      BY <2>3, <1>2, PutResult DEF InRange
    <3>2. p.rows = Grown(r, x) /\ p.res # Parts
      BY <3>1, <2>3
    <3>3. Received(s, x, h).s = At(q, i, Grown(r, x), b)
      BY <1>1, <1>4, <3>2 DEF At
    <3>4. Put(h, r, b, x, Grown(r, x), b)
      BY <2>0, <2>3 DEF Put, Waiting
    <3>5. QED
      BY <3>3, <3>4
  <2>4. QED
    BY <2>1, <2>2, <2>3
<1>5. QED
  BY <1>3, <1>4

(* It leaves the queue and the index alone.                                *)
LEMMA ReceivedEffect ==
  ASSUME NEW q, NEW i, NEW r, NEW b, NEW x, NEW h \in BOOLEAN
  PROVE  \E r2, b2 : /\ Received(At(q, i, r, b), x, h).s = At(q, i, r2, b2)
                     /\ InRange(x) => Put(h, r, b, x, r2, b2)
<1>1. CASE InRange(x)
  BY <1>1, ReceivedPuts
<1>2. CASE ~InRange(x)
  <2>1. DEFINE s == At(q, i, r, b)
               p == smsdb_put(s.rows, NewRow(x), h)
  <2>2. \/ Received(s, x, h).s = [s EXCEPT !.inbox = @ \union {<<NewRow(x).text>>}]
        \/ Received(s, x, h).s =
             [s EXCEPT !.rows = p.rows, !.inbox = IF p.res = Parts THEN @ \union {p.out} ELSE @]
    BY DEF Received, NewRow
  <2>3. \/ Received(s, x, h).s = At(q, i, r, b \union {<<NewRow(x).text>>})
        \/ Received(s, x, h).s = At(q, i, p.rows, IF p.res = Parts THEN b \union {p.out} ELSE b)
    BY <2>2 DEF At
  <2>4. QED
    BY <1>2, <2>3
<1>3. QED
  BY <1>1, <1>2

(* The line that carries a part is unreadable, or the part is put.         *)
Line(g, h, r, b, x, r2, b2) ==
  (g /\ r2 = r /\ b2 = b) \/ (~g /\ (InRange(x) => Put(h, r, b, x, r2, b2)))

(* The queue once a slot i has been read.                                  *)
Released(q, i) == IF i # NoIndex /\ Autodelete THEN AfterHead(q, Cmd("CMGD", i)) ELSE q

LEMMA RetrievedEffect ==
  ASSUME NEW q, NEW i, NEW r, NEW b
  PROVE  at_sms_retrieved(At(q, i, r, b)) = At(Released(q, i), NoIndex, r, b)
BY DEF at_sms_retrieved, at_enqueue_delete_sms, At, Released

(* A readable or unreadable line, before what the handler does to the queue. *)
LEMMA LineEffect ==
  ASSUME NEW q, NEW i, NEW r, NEW b, NEW x, NEW g \in BOOLEAN, NEW h \in BOOLEAN
  PROVE  \E r2, b2 : /\ (IF g THEN At(q, i, r, b) ELSE Received(At(q, i, r, b), x, h).s) = At(q, i, r2, b2)
                     /\ Line(g, h, r, b, x, r2, b2)
<1>1. CASE g
  BY <1>1 DEF Line
<1>2. CASE ~g
  <2>1. PICK r2, b2 : /\ Received(At(q, i, r, b), x, h).s = At(q, i, r2, b2)
                      /\ InRange(x) => Put(h, r, b, x, r2, b2)
    BY ReceivedEffect
  <2>2. QED
    BY <1>2, <2>1 DEF Line
<1>3. QED
  BY <1>1, <1>2

LEMMA CmgrEffect ==
  ASSUME NEW q, NEW i, NEW r, NEW b, NEW x, NEW g \in BOOLEAN, NEW h \in BOOLEAN
  PROVE  \E r2, b2 : /\ MsgCmgr(At(q, i, r, b), x, g, h) = At(Released(q, i), NoIndex, r2, b2)
                     /\ Line(g, h, r, b, x, r2, b2)
<1>1. PICK r2, b2 :
        /\ (IF g THEN At(q, i, r, b) ELSE Received(At(q, i, r, b), x, h).s) = At(q, i, r2, b2)
        /\ Line(g, h, r, b, x, r2, b2)
  BY LineEffect
<1>2. MsgCmgr(At(q, i, r, b), x, g, h) = at_sms_retrieved(At(q, i, r2, b2))
  BY <1>1, Zenon DEF MsgCmgr
<1>3. QED
  BY <1>1, <1>2, RetrievedEffect

(* The queue once a part has been handed over.                             *)
Acked(q) == IF Acks THEN AfterHead(q, Cmd("CNMA", 0)) ELSE q

LEMMA CmtEffect ==
  ASSUME NEW q, NEW i, NEW r, NEW b, NEW x, NEW g \in BOOLEAN, NEW h \in BOOLEAN
  PROVE  \E r2, b2 : /\ MsgCmt(At(q, i, r, b), x, g, h) =
                          At(Acked(q), i, r2, b2)
                     /\ Line(g, h, r, b, x, r2, b2)
<1>1. PICK r2, b2 :
        /\ (IF g THEN At(q, i, r, b) ELSE Received(At(q, i, r, b), x, h).s) = At(q, i, r2, b2)
        /\ Line(g, h, r, b, x, r2, b2)
  BY LineEffect
<1>2. MsgCmt(At(q, i, r, b), x, g, h) =
        IF Acks THEN [At(q, i, r2, b2) EXCEPT !.queue = AfterHead(@, Cmd("CNMA", 0))]
                ELSE At(q, i, r2, b2)
  BY <1>1, Zenon DEF MsgCmt
<1>3. MsgCmt(At(q, i, r, b), x, g, h) =
        At(Acked(q), i, r2, b2)
  BY <1>2 DEF At, Acked
<1>4. QED
  BY <1>1, <1>3

LEMMA CmglEffect ==
  ASSUME NEW q, NEW i, NEW r, NEW b, NEW x, NEW g \in BOOLEAN, NEW h \in BOOLEAN, NEW idx
  PROVE  \E q2, r2, b2 : /\ MsgCmgl(At(q, i, r, b), x, idx, g, h) = At(q2, i, r2, b2)
                         /\ q2 = q \/ q2 = AfterHead(q, Cmd("CMGD", idx))
                         /\ Line(g, h, r, b, x, r2, b2)
<1>1. CASE g
  BY <1>1 DEF Line, MsgCmgl
<1>2. CASE ~g
  <2>1. PICK r2, b2 : /\ Received(At(q, i, r, b), x, h).s = At(q, i, r2, b2)
                      /\ InRange(x) => Put(h, r, b, x, r2, b2)
    BY ReceivedEffect
  <2>2. \/ MsgCmgl(At(q, i, r, b), x, idx, g, h) = At(q, i, r2, b2)
        \/ MsgCmgl(At(q, i, r, b), x, idx, g, h) = at_enqueue_delete_sms(At(q, i, r2, b2), idx)
    BY <1>2, <2>1 DEF MsgCmgl
  <2>3. at_enqueue_delete_sms(At(q, i, r2, b2), idx) = At(AfterHead(q, Cmd("CMGD", idx)), i, r2, b2)
    BY DEF at_enqueue_delete_sms, At
  <2>4. Line(g, h, r, b, x, r2, b2)
    BY <1>2, <2>1 DEF Line
  <2>5. QED
    BY <2>2, <2>3, <2>4
<1>3. QED
  BY <1>1, <1>2

-----------------------------------------------------------------------------
(* What the actions do to the state of the device.                         *)

LEMMA BecomesAt ==
  ASSUME NEW q, NEW i, NEW r, NEW b, Becomes(At(q, i, r, b))
  PROVE  inqueue' = q /\ index' = i /\ rows' = r /\ inbox' = b
BY DEF Becomes, At

LEMMA NowAt == Now = At(inqueue, index, rows, inbox)
BY DEF Now, At

LEMMA StoredDoes ==
  ASSUME NEW x, NEW idx, Stored(x, idx)
  PROVE  /\ rows' = rows /\ inbox' = inbox
         /\ \/ index # NoIndex /\ inqueue' = inqueue /\ index' = index
            \/ index = NoIndex /\ index' = idx /\ inqueue' = Append(inqueue, Cmd("CMGR", idx))
<1>1. at_enqueue_retrieve_sms(Now, idx) =
        IF index # NoIndex THEN At(inqueue, index, rows, inbox)
                           ELSE At(Append(inqueue, Cmd("CMGR", idx)), idx, rows, inbox)
  <2>1. CASE index # NoIndex
    BY <2>1, NowAt DEF at_enqueue_retrieve_sms, At
  <2>2. CASE index = NoIndex
    <3>1. Now.index = NoIndex /\ Now.queue = inqueue
      BY <2>2 DEF Now
    <3>2. at_enqueue_retrieve_sms(Now, idx) =
            [Now EXCEPT !.index = idx, !.queue = Append(Now.queue, Cmd("CMGR", idx))]
      BY <3>1, Zenon DEF at_enqueue_retrieve_sms, AtEnd
    <3>3. ASSUME NEW t
          PROVE  [Now EXCEPT !.index = idx, !.queue = t] = At(t, idx, rows, inbox)
      <4>1. [At(inqueue, index, rows, inbox) EXCEPT !.index = idx] = At(inqueue, idx, rows, inbox)
        BY DEF At
      <4>2. [At(inqueue, idx, rows, inbox) EXCEPT !.queue = t] = At(t, idx, rows, inbox)
        BY DEF At
      <4>3. QED
        BY <4>1, <4>2, NowAt, Zenon
    <3>4. QED
      BY <2>2, <3>1, <3>2, <3>3, Zenon
  <2>3. QED
    BY <2>1, <2>2
<1>2. QED
  BY <1>1, BecomesAt DEF Stored

LEMMA HandedOverDoes ==
  ASSUME NEW x, NEW g \in BOOLEAN, NEW h \in BOOLEAN, HandedOver(x, g, h)
  PROVE  /\ index' = index
         /\ inqueue' = IF Acks THEN AfterHead(inqueue, Cmd("CNMA", 0)) ELSE inqueue
         /\ Line(g, h, rows, inbox, x, rows', inbox')
<1>1. Becomes(MsgCmt(At(inqueue, index, rows, inbox), x, g, h))
  BY NowAt, Zenon DEF HandedOver
<1>2. PICK r2, b2 : /\ MsgCmt(At(inqueue, index, rows, inbox), x, g, h) =
                         At(Acked(inqueue), index, r2, b2)
                    /\ Line(g, h, rows, inbox, x, r2, b2)
  BY <1>1, CmtEffect
<1>3. QED
  BY <1>1, <1>2, BecomesAt DEF Acked

LEMMA ReadLineDoes ==
  ASSUME NEW g \in BOOLEAN, NEW h \in BOOLEAN, ReadLine(g, h)
  PROVE  /\ index' = NoIndex /\ inqueue' = Released(inqueue, index)
         /\ Line(g, h, rows, inbox, store[Head(inqueue).idx], rows', inbox')
<1>0. PICK x : x = store[Head(inqueue).idx]
  OBVIOUS
<1>1. Becomes(MsgCmgr(At(inqueue, index, rows, inbox), x, g, h))
  BY <1>0, NowAt, Zenon DEF ReadLine
<1>2. PICK r2, b2 : /\ MsgCmgr(At(inqueue, index, rows, inbox), x, g, h) =
                         At(Released(inqueue, index), NoIndex, r2, b2)
                    /\ Line(g, h, rows, inbox, x, r2, b2)
  BY <1>1, CmgrEffect
<1>3. index' = NoIndex /\ inqueue' = Released(inqueue, index) /\ Line(g, h, rows, inbox, x, rows', inbox')
  BY <1>1, <1>2, BecomesAt
<1>4. QED
  BY <1>0, <1>3, Zenon

LEMMA DoneAt ==
  ASSUME NEW q, NEW i, NEW r, NEW b
  PROVE  Done(At(q, i, r, b)) = At(Tail(q), i, r, b)
<1>1. Done(At(q, i, r, b)) = [At(q, i, r, b) EXCEPT !.queue = Tail(At(q, i, r, b).queue)]
  BY Zenon DEF Done
<1>2. At(q, i, r, b).queue = q
  BY DEF At
<1>3. PICK t : t = Tail(q)
  OBVIOUS
<1>4. [At(q, i, r, b) EXCEPT !.queue = t] = At(t, i, r, b)
  BY DEF At
<1>5. QED
  BY <1>1, <1>2, <1>3, <1>4, Zenon

LEMMA ReadDoneDoes ==
  ASSUME ReadDone \/ ReadRefused
  PROVE  /\ index' = NoIndex /\ inqueue' = Tail(Released(inqueue, index))
         /\ rows' = rows /\ inbox' = inbox
<1>1. Done(at_sms_retrieved(Now)) = At(Tail(Released(inqueue, index)), NoIndex, rows, inbox)
  BY NowAt, RetrievedEffect, DoneAt
<1>2. QED
  BY <1>1, BecomesAt DEF ReadDone, ReadRefused

LEMMA DoneNow ==
  ASSUME Becomes(Done(Now))
  PROVE  index' = index /\ inqueue' = Tail(inqueue) /\ rows' = rows /\ inbox' = inbox
<1>1. Done(Now) = At(Tail(inqueue), index, rows, inbox)
  BY NowAt, DoneAt, Zenon
<1>2. Becomes(At(Tail(inqueue), index, rows, inbox))
  BY <1>1, Zenon
<1>3. QED
  BY <1>2, BecomesAt, Zenon

LEMMA ListLineDoes ==
  ASSUME NEW g \in BOOLEAN, NEW h \in BOOLEAN, NEW idx, ListLine(idx, g, h)
  PROVE  /\ index' = index
         /\ inqueue' = inqueue \/ inqueue' = AfterHead(inqueue, Cmd("CMGD", idx))
         /\ Line(g, h, rows, inbox, store[idx], rows', inbox')
<1>0. PICK x : x = store[idx]
  OBVIOUS
<1>1. Becomes(MsgCmgl(At(inqueue, index, rows, inbox), x, idx, g, h))
  BY <1>0, NowAt, Zenon DEF ListLine
<1>2. PICK q2, r2, b2 : /\ MsgCmgl(At(inqueue, index, rows, inbox), x, idx, g, h) = At(q2, index, r2, b2)
                        /\ q2 = inqueue \/ q2 = AfterHead(inqueue, Cmd("CMGD", idx))
                        /\ Line(g, h, rows, inbox, x, r2, b2)
  BY <1>1, CmglEffect
<1>3. /\ index' = index
      /\ inqueue' = inqueue \/ inqueue' = AfterHead(inqueue, Cmd("CMGD", idx))
      /\ Line(g, h, rows, inbox, x, rows', inbox')
  BY <1>1, <1>2, BecomesAt
<1>4. QED
  BY <1>0, <1>3, Zenon

-----------------------------------------------------------------------------
(* Queues.                                                                 *)

LEMMA AfterHeadIs ==
  ASSUME NEW S, NEW q \in Seq(S), NEW c \in S
  PROVE  /\ AfterHead(q, c) \in Seq(S) /\ Len(AfterHead(q, c)) = Len(q) + 1
         /\ q = <<>> => AfterHead(q, c)[1] = c
         /\ q # <<>> => AfterHead(q, c)[1] = q[1] /\ AfterHead(q, c)[2] = c
         /\ \A k \in 2 .. Len(q) : AfterHead(q, c)[k + 1] = q[k]
<1>1. CASE q = <<>>
  <2>1. AfterHead(q, c) = <<c>> /\ Len(q) = 0
    BY <1>1 DEF AfterHead
  <2>2. QED
    BY <2>1, <1>1
<1>2. CASE q # <<>>
  <2>1. Head(q) \in S /\ Tail(q) \in Seq(S) /\ Head(q) = q[1] /\ Len(Tail(q)) = Len(q) - 1
        /\ (\A k \in 1 .. Len(q) - 1 : Tail(q)[k] = q[k + 1])
    BY <1>2, HeadTailProperties
  <2>2. AfterHead(q, c) = <<Head(q), c>> \o Tail(q)
    BY <1>2 DEF AfterHead
  <2>3. PICK h \in Seq(S) : h = <<Head(q), c>> /\ Len(h) = 2 /\ h[1] = Head(q) /\ h[2] = c
    <3>1. PICK a \in S : a = Head(q)
      BY <2>1
    <3>2. <<a, c>> \in Seq(S) /\ Len(<<a, c>>) = 2 /\ <<a, c>>[1] = a /\ <<a, c>>[2] = c
      OBVIOUS
    <3>3. QED
      BY <3>1, <3>2, Zenon
  <2>4. PICK t \in Seq(S) : t = Tail(q)
    BY <2>1
  <2>5. PICK m \in Nat : m = Len(q) /\ m # 0
    BY <1>2, EmptySeq
  <2>6. /\ h \o t \in Seq(S) /\ Len(h \o t) = Len(q) + 1
        /\ \A k \in 1 .. Len(h) + Len(t) :
             (h \o t)[k] = IF k <= Len(h) THEN h[k] ELSE t[k - Len(h)]
    BY <2>1, <2>3, <2>4, <2>5, ConcatProperties
  <2>7. ASSUME NEW k \in 2 .. Len(q) PROVE (h \o t)[k + 1] = q[k]
    BY <2>1, <2>3, <2>4, <2>5, <2>6
  <2>8. QED
    BY <1>2, <2>1, <2>2, <2>3, <2>4, <2>5, <2>6, <2>7
<1>3. QED
  BY <1>1, <1>2

LEMMA FirstStays ==
  ASSUME NEW S, NEW q \in Seq(S), NEW c \in S, q # <<>>
  PROVE  AfterHead(q, c) # <<>> /\ Head(AfterHead(q, c)) = Head(q)
<1>1. AfterHead(q, c) \in Seq(S) /\ Len(AfterHead(q, c)) = Len(q) + 1
  BY AfterHeadIs
<1>2. AfterHead(q, c)[1] = q[1]
  BY AfterHeadIs
<1>3. PICK n \in Seq(S) : n = AfterHead(q, c) /\ Len(n) = Len(q) + 1 /\ n[1] = q[1]
  BY <1>1, <1>2
<1>4. Len(q) \in Nat /\ Head(q) = q[1]
  OBVIOUS
<1>5. n # <<>> /\ Head(n) = n[1]
  BY <1>3, <1>4
<1>6. QED
  BY <1>3, <1>4, <1>5

LEMMA TailIs ==
  ASSUME NEW S, NEW q \in Seq(S), q # <<>>
  PROVE  /\ Tail(q) \in Seq(S) /\ Len(Tail(q)) = Len(q) - 1 /\ Len(q) \in Nat \ {0}
         /\ Head(q) = q[1] /\ \A k \in 1 .. Len(q) - 1 : Tail(q)[k] = q[k + 1]
<1>1. Len(q) \in Nat \ {0}
  BY EmptySeq
<1>2. QED
  BY <1>1, HeadTailProperties

(* An insertion keeps what was there and what was first.                   *)
LEMMA InsertKeeps ==
  ASSUME NEW S, NEW q \in Seq(S), NEW c \in S, NEW d, \E k \in DOMAIN q : q[k] = d
  PROVE  \E k \in DOMAIN AfterHead(q, c) : AfterHead(q, c)[k] = d
<1>1. PICK k \in DOMAIN q : q[k] = d
  OBVIOUS
<1>2. PICK m \in Nat : m = Len(q) /\ k \in 1 .. m
  OBVIOUS
<1>3. q # <<>>
  BY <1>2
<1>4. PICK n \in Seq(S) : n = AfterHead(q, c) /\ DOMAIN n = 1 .. m + 1
  BY <1>2, AfterHeadIs
<1>5. CASE k = 1
  <2>1. AfterHead(q, c)[1] = q[1]
    BY <1>3, AfterHeadIs
  <2>2. QED
    BY <1>1, <1>2, <1>4, <1>5, <2>1
<1>6. CASE k # 1
  <2>1. k \in 2 .. Len(q) /\ k + 1 \in 1 .. m + 1
    BY <1>2, <1>6
  <2>2. n[k + 1] = q[k]
    BY <1>4, <2>1, AfterHeadIs
  <2>3. QED
    BY <1>1, <1>4, <2>1, <2>2
<1>7. QED
  BY <1>5, <1>6

(* What is not first stays when the first is removed.                      *)
LEMMA RemoveKeeps ==
  ASSUME NEW S, NEW q \in Seq(S), q # <<>>, NEW d, \E k \in DOMAIN q : q[k] = d, Head(q) # d
  PROVE  \E k \in DOMAIN Tail(q) : Tail(q)[k] = d
<1>1. PICK k \in DOMAIN q : q[k] = d
  OBVIOUS
<1>2. PICK m \in Nat : m = Len(q) /\ k \in 1 .. m
  OBVIOUS
<1>3. PICK t \in Seq(S) : t = Tail(q) /\ DOMAIN t = 1 .. m - 1
  <2>1. Tail(q) \in Seq(S) /\ Len(Tail(q)) = Len(q) - 1
    BY TailIs
  <2>2. PICK t \in Seq(S) : t = Tail(q) /\ Len(t) = m - 1
    BY <1>2, <2>1, Zenon
  <2>3. DOMAIN t = 1 .. m - 1
    BY <2>2
  <2>4. QED
    BY <2>2, <2>3
<1>4. k # 1 /\ k - 1 \in 1 .. m - 1
  BY <1>1, <1>2, TailIs
<1>5. t[k - 1] = q[k]
  <2>1. k - 1 \in 1 .. Len(q) - 1 /\ (k - 1) + 1 = k
    BY <1>2, <1>4
  <2>2. Tail(q)[k - 1] = q[(k - 1) + 1]
    BY <2>1, TailIs
  <2>3. QED
    BY <1>3, <2>1, <2>2
<1>6. QED
  BY <1>1, <1>3, <1>4, <1>5

-----------------------------------------------------------------------------
(* The slot that is being read.                                            *)

QueueInv ==
  /\ inqueue \in Seq(Commands)
  /\ index \in {NoIndex} \union Slots
  /\ answered \in BOOLEAN
  /\ answered => On("CMGR") /\ index = NoIndex
  /\ ReadingIsAsked

LEMMA CmdTypes ==
  /\ \A idx \in Slots : Cmd("CMGR", idx) \in Commands /\ Cmd("CMGD", idx) \in Commands
  /\ Cmd("CNMA", 0) \in Commands /\ Cmd("CMGL", NoIndex) \in Commands
BY DEF Cmd, Commands, Codes

LEMMA QueueInit == InInit => QueueInv
<1>1. InInit => inqueue = <<>> /\ answered = FALSE /\ index = NoIndex
  BY DEF InInit
<1>2. <<>> \in Seq(Commands)
  OBVIOUS
<1>3. QED
  BY <1>1, <1>2 DEF QueueInv, ReadingIsAsked

LEMMA QueueStored ==
  ASSUME QueueInv, NEW x, NEW idx \in Slots, Stored(x, idx)
  PROVE  QueueInv'
<1>1. answered' = answered /\ ~answered
  BY DEF Stored, UrcMayCome
<1>2. CASE inqueue' = inqueue /\ index' = index
  BY <1>1, <1>2 DEF QueueInv, ReadingIsAsked
<1>3. CASE index' = idx /\ inqueue' = Append(inqueue, Cmd("CMGR", idx))
  <2>1. Cmd("CMGR", idx) \in Commands
    BY CmdTypes
  <2>2. PICK c \in Commands : c = Cmd("CMGR", idx)
    BY <2>1
  <2>3. PICK q \in Seq(Commands) : q = inqueue
    BY DEF QueueInv
  <2>4. Append(q, c) \in Seq(Commands) /\ Len(q) + 1 \in DOMAIN Append(q, c) /\ Append(q, c)[Len(q) + 1] = c
    OBVIOUS
  <2>5. QED
    BY <1>1, <1>3, <2>2, <2>3, <2>4 DEF QueueInv, ReadingIsAsked
<1>4. QED
  BY <1>2, <1>3, StoredDoes

LEMMA QueueGrows ==
  ASSUME QueueInv, NEW c \in Commands, inqueue' = AfterHead(inqueue, c), index' = index, answered' = answered
  PROVE  QueueInv'
<1>0. inqueue \in Seq(Commands)
  BY DEF QueueInv
<1>1. AfterHead(inqueue, c) \in Seq(Commands)
  BY <1>0, AfterHeadIs
<1>2. On("CMGR") => On("CMGR")'
  <2>1. inqueue # <<>> => AfterHead(inqueue, c) # <<>> /\ Head(AfterHead(inqueue, c)) = Head(inqueue)
    BY <1>0, FirstStays
  <2>2. QED
    BY <2>1, Zenon DEF On
<1>3. ReadingIsAsked'
  <2>1. SUFFICES ASSUME index # NoIndex
                 PROVE  \E k \in DOMAIN inqueue' : inqueue'[k] = Cmd("CMGR", index)
    BY DEF ReadingIsAsked
  <2>2. \E k \in DOMAIN inqueue : inqueue[k] = Cmd("CMGR", index)
    BY <2>1 DEF QueueInv, ReadingIsAsked
  <2>3. PICK d : d = Cmd("CMGR", index)
    OBVIOUS
  <2>4. \E k \in DOMAIN inqueue : inqueue[k] = d
    BY <2>2, <2>3
  <2>5. \E k \in DOMAIN AfterHead(inqueue, c) : AfterHead(inqueue, c)[k] = d
    BY <1>0, <2>4, InsertKeeps
  <2>6. QED
    BY <2>3, <2>5
<1>4. QED
  BY <1>1, <1>2, <1>3 DEF QueueInv

LEMMA QueueShrinks ==
  ASSUME QueueInv, inqueue # <<>>, inqueue' = Tail(inqueue), index' = index, answered' = answered,
         Head(inqueue).cmd # "CMGR"
  PROVE  QueueInv'
<1>0. inqueue \in Seq(Commands) /\ ~answered
  BY DEF QueueInv, On
<1>1. Tail(inqueue) \in Seq(Commands)
  BY <1>0, TailIs
<1>2. ReadingIsAsked'
  <2>1. SUFFICES ASSUME index # NoIndex
                 PROVE  \E k \in DOMAIN inqueue' : inqueue'[k] = Cmd("CMGR", index)
    BY DEF ReadingIsAsked
  <2>2. \E k \in DOMAIN inqueue : inqueue[k] = Cmd("CMGR", index)
    BY <2>1 DEF QueueInv, ReadingIsAsked
  <2>3. PICK d : d = Cmd("CMGR", index)
    OBVIOUS
  <2>4. (\E k \in DOMAIN inqueue : inqueue[k] = d) /\ Head(inqueue) # d
    BY <2>2, <2>3 DEF Cmd
  <2>5. \E k \in DOMAIN Tail(inqueue) : Tail(inqueue)[k] = d
    BY <1>0, <2>4, RemoveKeeps
  <2>6. QED
    BY <2>3, <2>5
<1>3. QED
  BY <1>0, <1>1, <1>2 DEF QueueInv

LEMMA ReleasedIs ==
  ASSUME QueueInv
  PROVE  /\ Released(inqueue, index) \in Seq(Commands)
         /\ inqueue # <<>> => Released(inqueue, index) # <<>> /\ Head(Released(inqueue, index)) = Head(inqueue)
<1>0. inqueue \in Seq(Commands)
  BY DEF QueueInv
<1>1. CASE index # NoIndex /\ Autodelete
  <2>1. Cmd("CMGD", index) \in Commands
    BY <1>1, CmdTypes DEF QueueInv
  <2>2. Released(inqueue, index) = AfterHead(inqueue, Cmd("CMGD", index))
    BY <1>1, Zenon DEF Released
  <2>3. PICK c \in Commands : c = Cmd("CMGD", index)
    BY <2>1
  <2>4. /\ AfterHead(inqueue, c) \in Seq(Commands)
        /\ inqueue # <<>> => AfterHead(inqueue, c) # <<>> /\ Head(AfterHead(inqueue, c)) = Head(inqueue)
    BY <1>0, AfterHeadIs, FirstStays
  <2>5. QED
    BY <2>2, <2>3, <2>4, Zenon
<1>2. CASE ~(index # NoIndex /\ Autodelete)
  <2>1. Released(inqueue, index) = inqueue
    BY <1>2, Zenon DEF Released
  <2>2. QED
    BY <1>0, <2>1, Zenon
<1>3. QED
  BY <1>1, <1>2

LEMMA QueueNext ==
  ASSUME QueueInv, [InNext]_inVars
  PROVE  QueueInv'
<1>1. ASSUME NEW p \in Peers, PeerSends(p) PROVE QueueInv'
  BY <1>1 DEF PeerSends, QueueInv, ReadingIsAsked, On
<1>2. ASSUME NEW x \in net, NEW i \in Slots, Stored(x, i) PROVE QueueInv'
  BY <1>2, QueueStored
<1>3. ASSUME NEW x \in net, NEW g \in BOOLEAN, NEW h \in BOOLEAN, HandedOver(x, g, h) PROVE QueueInv'
  <2>1. answered' = answered
    BY <1>3 DEF HandedOver
  <2>2. index' = index /\ inqueue' = IF Acks THEN AfterHead(inqueue, Cmd("CNMA", 0)) ELSE inqueue
    BY <1>3, HandedOverDoes
  <2>3. CASE Acks
    <3>1. PICK c \in Commands : c = Cmd("CNMA", 0)
      BY CmdTypes
    <3>2. inqueue' = AfterHead(inqueue, c)
      BY <2>2, <2>3, <3>1
    <3>3. QED
      BY <2>1, <2>2, <3>2, QueueGrows
  <2>4. CASE ~Acks
    BY <2>1, <2>2, <2>4 DEF QueueInv, ReadingIsAsked, On
  <2>5. QED
    BY <2>3, <2>4
<1>4. CASE RowsGetOld
  BY <1>4 DEF RowsGetOld, QueueInv, ReadingIsAsked, On
<1>5. CASE ReadDone \/ ReadRefused
  <2>1. inqueue # <<>> /\ answered' = FALSE
    BY <1>5 DEF ReadDone, ReadRefused, On, QueueInv
  <2>2. index' = NoIndex /\ inqueue' = Tail(Released(inqueue, index))
    BY <1>5, ReadDoneDoes
  <2>3. PICK q \in Seq(Commands) : q = Released(inqueue, index) /\ q # <<>>
    BY <2>1, ReleasedIs
  <2>4. Tail(q) \in Seq(Commands)
    BY <2>3, TailIs
  <2>5. QED
    BY <2>1, <2>2, <2>3, <2>4 DEF QueueInv, ReadingIsAsked
<1>6. ASSUME NEW g \in BOOLEAN, NEW h \in BOOLEAN, ReadLine(g, h) PROVE QueueInv'
  <2>1. inqueue # <<>> /\ Head(inqueue).cmd = "CMGR" /\ answered' = TRUE
    BY <1>6 DEF ReadLine, On
  <2>2. index' = NoIndex /\ inqueue' = Released(inqueue, index)
    BY <1>6, ReadLineDoes
  <2>3. inqueue' \in Seq(Commands) /\ inqueue' # <<>> /\ Head(inqueue') = Head(inqueue)
    BY <2>1, <2>2, ReleasedIs, Zenon
  <2>4. On("CMGR")'
    BY <2>1, <2>3, Zenon DEF On
  <2>5. QED
    BY <2>1, <2>2, <2>3, <2>4 DEF QueueInv, ReadingIsAsked
<1>7. ASSUME NEW ok \in BOOLEAN, DeleteDone(ok) PROVE QueueInv'
  <2>1. inqueue # <<>> /\ Head(inqueue).cmd = "CMGD" /\ Becomes(Done(Now)) /\ answered' = answered
    BY <1>7 DEF DeleteDone, On
  <2>2. QED
    BY <2>1, DoneNow, QueueShrinks
<1>8. CASE AckDone
  <2>1. inqueue # <<>> /\ Head(inqueue).cmd = "CNMA" /\ Becomes(Done(Now)) /\ answered' = answered
    BY <1>8 DEF AckDone, On
  <2>2. QED
    BY <2>1, DoneNow, QueueShrinks
<1>9. CASE ListDone
  <2>1. inqueue # <<>> /\ Head(inqueue).cmd = "CMGL" /\ Becomes(Done(Now)) /\ answered' = answered
    BY <1>9 DEF ListDone, On
  <2>2. QED
    BY <2>1, DoneNow, QueueShrinks
<1>10. ASSUME NEW i \in Slots, NEW g \in BOOLEAN, NEW h \in BOOLEAN, ListLine(i, g, h) PROVE QueueInv'
  <2>1. answered' = answered
    BY <1>10 DEF ListLine
  <2>2. index' = index /\ (inqueue' = inqueue \/ inqueue' = AfterHead(inqueue, Cmd("CMGD", i)))
    BY <1>10, ListLineDoes
  <2>3. CASE inqueue' = inqueue
    BY <2>1, <2>2, <2>3 DEF QueueInv, ReadingIsAsked, On
  <2>4. CASE inqueue' = AfterHead(inqueue, Cmd("CMGD", i))
    <3>1. PICK c \in Commands : c = Cmd("CMGD", i)
      BY CmdTypes
    <3>2. inqueue' = AfterHead(inqueue, c)
      BY <2>4, <3>1
    <3>3. QED
      BY <2>1, <2>2, <3>2, QueueGrows
  <2>5. QED
    BY <2>2, <2>3, <2>4
<1>11. CASE Reconnect
  <2>1. (inqueue' = <<>> \/ inqueue' = <<Cmd("CMGL", NoIndex)>>) /\ index' = NoIndex /\ answered' = FALSE
    BY <1>11 DEF Reconnect
  <2>2. PICK c \in Commands : c = Cmd("CMGL", NoIndex)
    BY CmdTypes
  <2>3. <<>> \in Seq(Commands) /\ <<c>> \in Seq(Commands)
    OBVIOUS
  <2>4. inqueue' \in Seq(Commands)
    BY <2>1, <2>2, <2>3
  <2>5. QED
    BY <2>1, <2>4 DEF QueueInv, ReadingIsAsked
<1>12. CASE UNCHANGED inVars
  BY <1>12 DEF inVars, QueueInv, ReadingIsAsked, On
<1>13. QED
  BY <1>1, <1>2, <1>3, <1>4, <1>5, <1>6, <1>7, <1>8, <1>9, <1>10, <1>11, <1>12 DEF InNext, Answer

(* While a slot counts as being read its AT+CMGR is on the way, whatever   *)
(* is notified, listed, acknowledged or deleted meanwhile and whenever the *)
(* session ends: incoming_sms_index never blocks the reading of messages   *)
(* (at_enqueue_retrieve_sms, at_sms_retrieved, pvt_disconnect).            *)
THEOREM ReadingIsOnTheWay == InSpec => []ReadingIsAsked
<1>1. QueueInv => ReadingIsAsked
  BY DEF QueueInv
<1>2. QED
  BY <1>1, QueueInit, QueueNext, PTL DEF InSpec

-----------------------------------------------------------------------------
(* References.                                                             *)

(* The reference of a peer's n-th message, as long as they do not come     *)
(* round.                                                                  *)
Ref(n) == IF PeerRef + n >= RefMod THEN PeerRef + n - RefMod ELSE PeerRef + n

LEMMA RefTypes ==
  ASSUME RefsAreFresh, NEW n \in 0 .. MaxFromPeer
  PROVE  Ref(n) \in 0 .. RefMod - 1
BY DbAssumption DEF RefsAreFresh, Ref

LEMMA RefOnce ==
  ASSUME RefsAreFresh, NEW n \in 1 .. MaxFromPeer, NEW m \in 1 .. MaxFromPeer, Ref(n) = Ref(m)
  PROVE  n = m
BY DbAssumption DEF RefsAreFresh, Ref

LEMMA RefNext ==
  ASSUME RefsAreFresh, NEW n \in 0 .. MaxFromPeer - 1
  PROVE  smsdb_get_refid(Ref(n)) = [row |-> Ref(n + 1), res |-> Ref(n + 1)]
<1>1. PICK k \in 0 .. RefMod - 1 : k = Ref(n)
  BY RefTypes DEF RefsAreFresh
<1>2. RefMod \in Nat /\ RefMod # 0 /\ k # NoRow
  BY DbAssumption DEF NoRow
<1>3. (k + 1) % RefMod = IF k + 1 = RefMod THEN 0 ELSE k + 1
  BY <1>2
<1>4. Ref(n + 1) = IF k + 1 = RefMod THEN 0 ELSE k + 1
  BY <1>1, DbAssumption DEF Ref, RefsAreFresh
<1>5. QED
  BY <1>1, <1>2, <1>3, <1>4 DEF smsdb_get_refid

-----------------------------------------------------------------------------
(* Parts, rows and messages of a set G of pairs <<peer, number>>.          *)

Messages == Peers \X (1 .. MaxFromPeer)

IsPart(G, x) ==
  \E p \in Peers, n \in 1 .. MaxFromPeer, k \in 1 .. Parts :
    <<p, n>> \in G /\ x = Part(p, n, Ref(n), k)

RowOf(p, n, k, o) ==
  [addr |-> p, ref |-> Ref(n), parts |-> Parts, order |-> k, text |-> <<p, n, k>>, old |-> o]

IsRow(G, r) ==
  \E p \in Peers, n \in 1 .. MaxFromPeer, k \in 1 .. Parts, o \in BOOLEAN :
    <<p, n>> \in G /\ r = RowOf(p, n, k, o)

WholeOf(p, n) == [i \in 1 .. Parts |-> <<p, n, i>>]

IsWhole(G, m) ==
  \E p \in Peers, n \in 1 .. MaxFromPeer : <<p, n>> \in G /\ m = WholeOf(p, n)

RowsOk(G, rs) ==
  /\ IsFiniteSet(rs)
  /\ \A r \in rs : IsRow(G, r)
  /\ \A r, s \in rs : r.text = s.text => r = s

(* A part becomes a row of its message.                                    *)
LEMMA NewRowIs ==
  ASSUME NEW G, NEW p \in Peers, NEW n \in 1 .. MaxFromPeer, NEW k \in 1 .. Parts, <<p, n>> \in G
  PROVE  /\ NewRow(Part(p, n, Ref(n), k)) = RowOf(p, n, k, FALSE)
         /\ Text(Part(p, n, Ref(n), k)) = <<p, n, k>>
         /\ IsRow(G, RowOf(p, n, k, FALSE))
BY DEF NewRow, Part, RowOf, IsRow, Text

LEMMA RowFields ==
  ASSUME NEW p, NEW n, NEW k, NEW o
  PROVE  /\ RowOf(p, n, k, o).addr = p /\ RowOf(p, n, k, o).ref = Ref(n)
         /\ RowOf(p, n, k, o).parts = Parts /\ RowOf(p, n, k, o).order = k
         /\ RowOf(p, n, k, o).text = <<p, n, k>> /\ RowOf(p, n, k, o).old = o
BY DEF RowOf

(* Rows have the same key and order when they have the same text.          *)
LEMMA KeyIsText ==
  ASSUME RefsAreFresh, NEW G, NEW r, NEW s, IsRow(G, r), IsRow(G, s)
  PROVE  /\ SameKey(r, s) /\ r.order = s.order <=> r.text = s.text
         /\ SameKey(r, s) <=> r.text[1] = s.text[1] /\ r.text[2] = s.text[2]
         /\ r.order = r.text[3] /\ r.order \in 1 .. Parts
<1>1. PICK p \in Peers, n \in 1 .. MaxFromPeer, k \in 1 .. Parts, o \in BOOLEAN : r = RowOf(p, n, k, o)
  BY DEF IsRow
<1>2. PICK p2 \in Peers, n2 \in 1 .. MaxFromPeer, k2 \in 1 .. Parts, o2 \in BOOLEAN :
        s = RowOf(p2, n2, k2, o2)
  BY DEF IsRow
<1>3. Ref(n) = Ref(n2) <=> n = n2
  BY RefOnce
<1>4. /\ r.addr = p /\ r.ref = Ref(n) /\ r.parts = Parts /\ r.order = k /\ r.text = <<p, n, k>>
      /\ s.addr = p2 /\ s.ref = Ref(n2) /\ s.parts = Parts /\ s.order = k2 /\ s.text = <<p2, n2, k2>>
  BY <1>1, <1>2, RowFields
<1>5. SameKey(r, s) <=> p = p2 /\ n = n2
  BY <1>3, <1>4 DEF SameKey
<1>6. QED
  BY <1>4, <1>5

(* A subset of sound rows is sound.                                        *)
LEMMA FewerRows ==
  ASSUME NEW G, NEW rs, RowsOk(G, rs), NEW t \in SUBSET rs
  PROVE  RowsOk(G, t)
<1>1. IsFiniteSet(t)
  BY FS_Subset DEF RowsOk
<1>2. QED
  BY <1>1 DEF RowsOk

(* Putting a part keeps the rows sound, and loses no text.                 *)
LEMMA GrownOk ==
  ASSUME RefsAreFresh, NEW G, NEW rs, RowsOk(G, rs), NEW x, IsPart(G, x)
  PROVE  /\ RowsOk(G, Grown(rs, x)) /\ NewRow(x) \in Grown(rs, x) /\ IsRow(G, NewRow(x))
         /\ NewRow(x).text = Text(x)
         /\ Grown(rs, x) \subseteq Live(rs) \union {NewRow(x)}
         /\ \A z \in Live(rs) : \E y \in Grown(rs, x) : y.text = z.text
<1>1. IsRow(G, NewRow(x)) /\ NewRow(x).text = Text(x)
  <2>1. PICK p \in Peers, n \in 1 .. MaxFromPeer, k \in 1 .. Parts :
          <<p, n>> \in G /\ x = Part(p, n, Ref(n), k)
    BY DEF IsPart
  <2>2. /\ NewRow(Part(p, n, Ref(n), k)) = RowOf(p, n, k, FALSE)
        /\ Text(Part(p, n, Ref(n), k)) = <<p, n, k>>
        /\ IsRow(G, RowOf(p, n, k, FALSE))
    BY <2>1, NewRowIs
  <2>3. RowOf(p, n, k, FALSE).text = <<p, n, k>>
    BY DEF RowOf
  <2>4. QED
    BY <2>1, <2>2, <2>3, Zenon
<1>2. PICK w : w = NewRow(x)
  OBVIOUS
<1>3. Grown(rs, x) = {r \in Live(rs) : ~SameKey(r, w) \/ r.order # w.order} \union {w}
  BY <1>2, Zenon DEF Grown, put_incmsg
<1>4. RowsOk(G, Live(rs))
  BY FewerRows DEF Live
<1>5. IsRow(G, w)
  BY <1>1, <1>2
<1>6. \A r \in Live(rs) : IsRow(G, r)
  BY <1>4 DEF RowsOk
<1>7. \A r \in Live(rs) : (~SameKey(r, w) \/ r.order # w.order) <=> r.text # w.text
  BY <1>5, <1>6, KeyIsText
<1>8. PICK old : old = {r \in Live(rs) : r.text # w.text}
  OBVIOUS
<1>9. Grown(rs, x) = old \union {w}
  BY <1>3, <1>7, <1>8
<1>10. RowsOk(G, old)
  BY <1>4, <1>8, FewerRows
<1>11. RowsOk(G, old \union {w})
  <2>1. IsFiniteSet(old \union {w})
    BY <1>10, FS_AddElement DEF RowsOk
  <2>2. QED
    BY <1>5, <1>8, <1>10, <2>1 DEF RowsOk
<1>12. QED
  BY <1>1, <1>2, <1>8, <1>9, <1>11

(* As many rows of a message as it has parts are one for each of them.     *)
LEMMA AllOrders ==
  ASSUME RefsAreFresh, NEW G, NEW rs, RowsOk(G, rs), NEW p, NEW n,
         \A r \in rs : r.text[1] = p /\ r.text[2] = n,
         Cardinality(rs) = Parts
  PROVE  \A i \in 1 .. Parts : \E r \in rs : r.order = i
<1>1. \A r \in rs : r.order \in 1 .. Parts /\ r.order = r.text[3]
  BY KeyIsText DEF RowsOk
<1>2. \A r, s \in rs : r.order = s.order => r.text = s.text
  <2>1. SUFFICES ASSUME NEW r \in rs, NEW s \in rs, r.order = s.order PROVE r.text = s.text
    OBVIOUS
  <2>2. IsRow(G, r) /\ IsRow(G, s)
    BY DEF RowsOk
  <2>3. SameKey(r, s)
    BY <2>2, KeyIsText
  <2>4. QED
    BY <2>1, <2>2, <2>3, KeyIsText
<1>3. PICK f : f = [r \in rs |-> r.order]
  OBVIOUS
<1>4. f \in [rs -> 1 .. Parts]
  BY <1>1, <1>3
<1>5. \A r, s \in rs : f[r] = f[s] => r = s
  BY <1>2, <1>3 DEF RowsOk
<1>6. f \in Injection(rs, 1 .. Parts)
  BY <1>4, <1>5 DEF Injection, IsInjective
<1>7. IsFiniteSet(1 .. Parts) /\ Cardinality(1 .. Parts) = Parts
  BY FS_Interval DEF RefsAreFresh
<1>8. f \in Surjection(rs, 1 .. Parts)
  BY <1>6, <1>7, FS_Injection
<1>9. \A i \in 1 .. Parts : \E r \in rs : f[r] = i
  BY <1>8 DEF Surjection
<1>10. QED
  BY <1>3, <1>9

(* get_incmsg then returns the message.                                    *)
LEMMA MessageOf ==
  ASSUME RefsAreFresh, NEW G, NEW rs, RowsOk(G, rs),
         NEW p \in Peers, NEW n \in 1 .. MaxFromPeer,
         \A r \in rs : r.text[1] = p /\ r.text[2] = n,
         Cardinality(rs) = Parts
  PROVE  get_incmsg(rs) = WholeOf(p, n)
<1>1. \A i \in 1 .. Parts : \E r \in rs : r.order = i
  BY AllOrders
<1>2. ASSUME NEW i \in 1 .. Parts PROVE (CHOOSE r \in rs : r.order = i).text = <<p, n, i>>
  <2>1. PICK c : c = CHOOSE r \in rs : r.order = i
    OBVIOUS
  <2>2. c \in rs /\ c.order = i
    BY <1>1, <2>1, Zenon
  <2>3. IsRow(G, c)
    BY <2>2 DEF RowsOk
  <2>4. PICK a \in Peers, m \in 1 .. MaxFromPeer, k \in 1 .. Parts, o \in BOOLEAN : c = RowOf(a, m, k, o)
    BY <2>3 DEF IsRow
  <2>5. c.text = <<a, m, k>> /\ c.order = k
    BY <2>4, RowFields
  <2>6. a = p /\ m = n /\ k = i
    BY <2>2, <2>5
  <2>7. QED
    BY <2>1, <2>5, <2>6, Zenon
<1>3. [i \in 1 .. Parts |-> (CHOOSE r \in rs : r.order = i).text] = [i \in 1 .. Parts |-> <<p, n, i>>]
  <2> DEFINE g(i) == (CHOOSE r \in rs : r.order = i).text
             h(i) == <<p, n, i>>
  <2>1. \A i \in 1 .. Parts : g(i) = h(i)
    BY <1>2
  <2> HIDE DEF g, h
  <2>2. [i \in 1 .. Parts |-> g(i)] = [i \in 1 .. Parts |-> h(i)]
    BY <2>1, Zenon
  <2>3. QED
    BY <2>2 DEF g, h
<1>4. QED
  BY <1>3, Zenon DEF get_incmsg, WholeOf

(* The rows of the part that is put are those of its message.              *)
OneMessage(G, rs, x, p, n) ==
  /\ <<p, n>> \in G /\ RowsOk(G, Mine(rs, x)) /\ NewRow(x) \in Mine(rs, x)
  /\ Mine(rs, x) \subseteq Grown(rs, x)
  /\ \A r \in Mine(rs, x) : r.text[1] = p /\ r.text[2] = n

LEMMA MineIs ==
  ASSUME RefsAreFresh, NEW G, NEW rs, RowsOk(G, rs), NEW x, IsPart(G, x)
  PROVE  \E p \in Peers, n \in 1 .. MaxFromPeer : OneMessage(G, rs, x, p, n)
<1>1. PICK p \in Peers, n \in 1 .. MaxFromPeer, k \in 1 .. Parts :
        <<p, n>> \in G /\ x = Part(p, n, Ref(n), k)
  BY DEF IsPart
<1>2. Text(x) = <<p, n, k>>
  BY <1>1, NewRowIs
<1>3. PICK w : w = NewRow(x)
  OBVIOUS
<1>4. RowsOk(G, Grown(rs, x)) /\ w \in Grown(rs, x) /\ IsRow(G, w) /\ w.text = Text(x)
  BY <1>3, GrownOk
<1>5. Mine(rs, x) = {z \in Grown(rs, x) : SameKey(z, w)}
  BY <1>3 DEF Mine
<1>6. RowsOk(G, Mine(rs, x))
  BY <1>4, <1>5, FewerRows
<1>7. w \in Mine(rs, x)
  BY <1>4, <1>5 DEF SameKey
<1>8. \A r \in Mine(rs, x) : r.text[1] = p /\ r.text[2] = n
  <2>1. TAKE r \in Mine(rs, x)
  <2>2. IsRow(G, r) /\ SameKey(r, w)
    BY <1>4, <1>5 DEF RowsOk
  <2>3. r.text[1] = w.text[1] /\ r.text[2] = w.text[2]
    BY <1>4, <2>2, KeyIsText
  <2>4. QED
    BY <1>2, <1>4, <2>3
<1>9. Mine(rs, x) \subseteq Grown(rs, x)
  BY <1>5
<1>10. OneMessage(G, rs, x, p, n)
  BY <1>1, <1>3, <1>6, <1>7, <1>8, <1>9 DEF OneMessage
<1>11. QED
  BY <1>10

(* What a put leaves: sound rows, no more than there is room for, and      *)
(* whole messages.                                                         *)
LEMMA PutOk ==
  ASSUME RefsAreFresh, NEW h \in BOOLEAN, NEW G, NEW r, RowsOk(G, r), Cardinality(r) <= Capacity,
         NEW b, \A m \in b : IsWhole(G, m), NEW x, IsPart(G, x),
         NEW r2, NEW b2, Put(h, r, b, x, r2, b2)
  PROVE  RowsOk(G, r2) /\ Cardinality(r2) <= Capacity /\ \A m \in b2 : IsWhole(G, m)
<1>0. /\ IsFiniteSet(r) /\ Cardinality(r) \in Nat /\ Live(r) \in SUBSET r
      /\ RowsOk(G, Live(r)) /\ IsFiniteSet(Live(r)) /\ Cardinality(Live(r)) \in Nat
      /\ Cardinality(Live(r)) <= Cardinality(r) /\ Capacity \in Nat
  <2>1. IsFiniteSet(r) /\ Live(r) \in SUBSET r
    BY DEF RowsOk, Live
  <2>2. RowsOk(G, Live(r)) /\ IsFiniteSet(Live(r)) /\ Cardinality(Live(r)) <= Cardinality(r)
    BY <2>1, FewerRows, FS_Subset
  <2>3. QED
    BY <2>1, <2>2, FS_CardinalityType, DbAssumption
<1>1. CASE Single(r, b, x, r2, b2)
  <2>1. PICK p \in Peers, n \in 1 .. MaxFromPeer, k \in 1 .. Parts :
          <<p, n>> \in G /\ x = Part(p, n, Ref(n), k)
    BY DEF IsPart
  <2>2. Parts = 1 /\ k = 1 /\ r2 = r /\ b2 = b \union {<<Text(x)>>}
    BY <1>1, <2>1 DEF Single
  <2>3. Text(x) = <<p, n, 1>>
    BY <2>1, <2>2, NewRowIs
  <2>4. <<Text(x)>> = WholeOf(p, n)
    <3>1. PICK t : t = Text(x)
      OBVIOUS
    <3>2. <<t>> = [i \in 1 .. 1 |-> t]
      OBVIOUS
    <3>3. [i \in 1 .. 1 |-> t] = [i \in 1 .. 1 |-> <<p, n, i>>]
      <4>1. \A i \in 1 .. 1 : t = <<p, n, i>>
        BY <2>3, <3>1
      <4>2. QED
        BY <4>1, Zenon
    <3>4. QED
      BY <2>2, <3>1, <3>2, <3>3, Zenon DEF WholeOf
  <2>5. QED
    BY <2>1, <2>2, <2>4 DEF IsWhole
<1>2. CASE Refused(h, r, b, x, r2, b2)
  BY <1>0, <1>2 DEF Refused
<1>3. PICK g : g = Grown(r, x)
  OBVIOUS
<1>4. RowsOk(G, g) /\ g \subseteq Live(r) \union {NewRow(x)}
  BY <1>3, GrownOk
<1>5. ASSUME ~(Cardinality(Live(r)) >= Capacity), NEW t \in SUBSET g
      PROVE  RowsOk(G, t) /\ Cardinality(t) <= Capacity
  <2>1. IsFiniteSet(Live(r) \union {NewRow(x)})
        /\ Cardinality(Live(r) \union {NewRow(x)}) <= Cardinality(Live(r)) + 1
    <3>1. PICK l, w : l = Live(r) /\ w = NewRow(x)
      OBVIOUS
    <3>2. IsFiniteSet(l) /\ Cardinality(l) \in Nat
      BY <1>0, <3>1
    <3>3. IsFiniteSet(l \union {w})
          /\ Cardinality(l \union {w}) = IF w \in l THEN Cardinality(l) ELSE Cardinality(l) + 1
      BY <3>2, FS_AddElement
    <3>4. Cardinality(l \union {w}) <= Cardinality(l) + 1
      BY <3>2, <3>3
    <3>5. QED
      BY <3>1, <3>3, <3>4
  <2>2. Cardinality(t) <= Cardinality(Live(r) \union {NewRow(x)}) /\ IsFiniteSet(t)
    BY <1>4, <2>1, FS_Subset
  <2>3. Cardinality(t) \in Nat /\ Cardinality(Live(r) \union {NewRow(x)}) \in Nat
    BY <2>1, <2>2, FS_CardinalityType
  <2>4. QED
    BY <1>0, <1>4, <1>5, <2>1, <2>2, <2>3, FewerRows
<1>6. CASE Completed(h, r, b, x, r2, b2)
  <2>0. PICK p \in Peers, n \in 1 .. MaxFromPeer : OneMessage(G, r, x, p, n)
    BY MineIs
  <2>1. /\ <<p, n>> \in G /\ RowsOk(G, Mine(r, x))
        /\ \A z \in Mine(r, x) : z.text[1] = p /\ z.text[2] = n
    BY <2>0 DEF OneMessage
  <2>2. get_incmsg(Mine(r, x)) = WholeOf(p, n)
    BY <1>6, <2>1, MessageOf DEF Completed
  <2>3. b2 = b \union {WholeOf(p, n)} /\ IsWhole(G, WholeOf(p, n))
    BY <1>6, <2>1, <2>2 DEF Completed, IsWhole
  <2>4. r2 \in SUBSET g /\ ~(Cardinality(Live(r)) >= Capacity)
    BY <1>3, <1>6 DEF Completed, Full
  <2>5. RowsOk(G, r2) /\ Cardinality(r2) <= Capacity
    BY <1>5, <2>4
  <2>6. QED
    BY <2>3, <2>5
<1>7. CASE Waiting(h, r, b, x, r2, b2)
  BY <1>3, <1>5, <1>7 DEF Waiting, Full
<1>8. QED
  BY <1>1, <1>2, <1>6, <1>7 DEF Put

-----------------------------------------------------------------------------
(* What has been read.                                                     *)

Have(r, b, t) ==
  (\E z \in r : z.text = t) \/ (\E m \in b : \E i \in 1 .. Len(m) : m[i] = t)

(* A full table holds every part that can come.                            *)
LEMMA FullHasAll ==
  ASSUME RefsAreFresh, RowsEnough, NEW G, G \subseteq Messages, NEW r, RowsOk(G, r),
         Cardinality(r) >= Capacity, NEW x, IsPart(G, x)
  PROVE  \E z \in r : z.text = Text(x)
<1>1. SUFFICES ASSUME \A z \in r : z.text # Text(x) PROVE FALSE
  OBVIOUS
<1>2. PICK w : w = NewRow(x) /\ IsRow(G, w) /\ w.text = Text(x)
  BY GrownOk
<1>3. PICK P : P = Peers \X ((1 .. MaxFromPeer) \X (1 .. Parts))
  OBVIOUS
<1>4. MaxFromPeer \in Nat /\ Parts \in Nat
  BY DbAssumption DEF RefsAreFresh
<1>5. IsFiniteSet(P) /\ Cardinality(P) = Cardinality(Peers) * (MaxFromPeer * Parts)
  <2>1. /\ IsFiniteSet(1 .. MaxFromPeer) /\ Cardinality(1 .. MaxFromPeer) = MaxFromPeer
        /\ IsFiniteSet(1 .. Parts) /\ Cardinality(1 .. Parts) = Parts
    BY <1>4, FS_Interval
  <2>2. /\ IsFiniteSet((1 .. MaxFromPeer) \X (1 .. Parts))
        /\ Cardinality((1 .. MaxFromPeer) \X (1 .. Parts)) = MaxFromPeer * Parts
    BY <2>1, FS_Product
  <2>3. PICK Q : Q = (1 .. MaxFromPeer) \X (1 .. Parts)
    OBVIOUS
  <2>4. IsFiniteSet(Peers \X Q) /\ Cardinality(Peers \X Q) = Cardinality(Peers) * Cardinality(Q)
    BY <2>2, <2>3, FS_Product DEF RowsEnough
  <2>5. QED
    BY <1>3, <2>2, <2>3, <2>4
<1>6. PICK A : A = r \union {w}
  OBVIOUS
<1>7. IsFiniteSet(r) /\ w \notin r
  BY <1>1, <1>2 DEF RowsOk
<1>8. IsFiniteSet(A) /\ Cardinality(A) = Cardinality(r) + 1 /\ Cardinality(r) \in Nat
  <2>1. IsFiniteSet(r \union {w}) /\ Cardinality(r \union {w}) = Cardinality(r) + 1
    BY <1>7, FS_AddElement
  <2>2. QED
    BY <1>6, <1>7, <2>1, FS_CardinalityType
<1>9. PICK f : f = [z \in A |-> <<z.text[1], <<z.text[2], z.text[3]>>>>]
  OBVIOUS
<1>10. \A z \in A : IsRow(G, z)
  BY <1>2, <1>6 DEF RowsOk
<1>11. \A z \in A : \E p \in Peers, n \in 1 .. MaxFromPeer, k \in 1 .. Parts :
         z.text = <<p, n, k>> /\ f[z] = <<p, <<n, k>>>>
  <2>1. TAKE z \in A
  <2>2. PICK p \in Peers, n \in 1 .. MaxFromPeer, k \in 1 .. Parts, o \in BOOLEAN : z = RowOf(p, n, k, o)
    BY <1>10 DEF IsRow
  <2>3. z.text = <<p, n, k>>
    BY <2>2 DEF RowOf
  <2>4. f[z] = <<p, <<n, k>>>>
    BY <1>9, <2>3
  <2>5. QED
    BY <2>3, <2>4
<1>12. f \in [A -> P]
  <2>1. \A z \in A : f[z] \in P
    BY <1>3, <1>11
  <2>2. QED
    BY <1>9, <2>1
<1>13. \A z, y \in A : f[z] = f[y] => z = y
  <2>1. SUFFICES ASSUME NEW z \in A, NEW y \in A, f[z] = f[y] PROVE z = y
    OBVIOUS
  <2>2. z.text = y.text
    BY <1>11, <2>1
  <2>3. QED
    BY <1>1, <1>2, <1>6, <2>2 DEF RowsOk
<1>14. f \in Injection(A, P)
  BY <1>12, <1>13 DEF Injection, IsInjective
<1>15. Cardinality(A) <= Cardinality(P)
  BY <1>5, <1>14, FS_Injection
<1>16. PICK c \in Nat : c = Cardinality(P) /\ c <= Capacity
  <2>1. Cardinality(P) \in Nat
    BY <1>5, FS_CardinalityType
  <2>2. QED
    BY <1>5, <2>1 DEF RowsEnough
<1>17. QED
  BY <1>8, <1>15, <1>16, DbAssumption

(* While no row expires, a put keeps what has been read, and the part.     *)
LEMMA PutKeeps ==
  ASSUME RefsAreFresh, NEW h \in BOOLEAN, NEW G, G \subseteq Messages, NEW r, RowsOk(G, r),
         \A z \in r : ~z.old, NEW b, NEW x, IsPart(G, x),
         (Parts # 1 /\ (~h \/ Cardinality(r) >= Capacity)) => \E z \in r : z.text = Text(x),
         NEW r2, NEW b2, Put(h, r, b, x, r2, b2)
  PROVE  /\ \A t : Have(r, b, t) => Have(r2, b2, t)
         /\ Have(r2, b2, Text(x))
         /\ \A z \in r2 : ~z.old
<1>1. Live(r) = r
  BY DEF Live
<1>2. PICK g : g = Grown(r, x)
  OBVIOUS
<1>3. /\ NewRow(x) \in g /\ NewRow(x).text = Text(x) /\ g \subseteq r \union {NewRow(x)}
      /\ \A z \in r : \E y \in g : y.text = z.text
      /\ RowsOk(G, g)
  BY <1>1, <1>2, GrownOk
<1>4. \A z \in g : ~z.old
  <2>1. ~NewRow(x).old
    BY DEF NewRow
  <2>2. QED
    BY <1>3, <2>1
<1>5. CASE Single(r, b, x, r2, b2)
  <2>1. r2 = r /\ b2 = b \union {<<Text(x)>>}
    BY <1>5 DEF Single
  <2>2. PICK t : t = Text(x)
    OBVIOUS
  <2>3. 1 \in 1 .. Len(<<t>>) /\ <<t>>[1] = t
    OBVIOUS
  <2>4. Have(r2, b2, Text(x))
    BY <2>1, <2>2, <2>3 DEF Have
  <2>5. \A u : Have(r, b, u) => Have(r2, b2, u)
    BY <2>1, Zenon DEF Have
  <2>6. QED
    BY <2>1, <2>4, <2>5
<1>6. CASE Refused(h, r, b, x, r2, b2)
  <2>1. r2 = r /\ b2 = b /\ Parts # 1 /\ (~h \/ Cardinality(r) >= Capacity)
    BY <1>1, <1>6 DEF Refused, Full
  <2>2. \E z \in r : z.text = Text(x)
    BY <2>1
  <2>3. QED
    BY <2>1, <2>2 DEF Have
<1>7. CASE Waiting(h, r, b, x, r2, b2)
  <2>1. r2 = g /\ b2 = b
    BY <1>2, <1>7 DEF Waiting
  <2>2. \A t : Have(r, b, t) => Have(r2, b2, t)
    BY <1>3, <2>1 DEF Have
  <2>3. Have(r2, b2, Text(x))
    BY <1>3, <2>1 DEF Have
  <2>4. QED
    BY <1>4, <2>1, <2>2, <2>3
<1>8. CASE Completed(h, r, b, x, r2, b2)
  <2>0. PICK p \in Peers, n \in 1 .. MaxFromPeer : OneMessage(G, r, x, p, n)
    BY MineIs
  <2>1. /\ <<p, n>> \in G /\ RowsOk(G, Mine(r, x)) /\ NewRow(x) \in Mine(r, x)
        /\ Mine(r, x) \subseteq g
        /\ \A z \in Mine(r, x) : z.text[1] = p /\ z.text[2] = n
    BY <1>2, <2>0 DEF OneMessage
  <2>2. PICK mine : mine = Mine(r, x)
    OBVIOUS
  <2>3. Cardinality(mine) = Parts /\ r2 = g \ mine /\ b2 = b \union {get_incmsg(mine)}
    BY <1>2, <1>8, <2>2 DEF Completed
  <2>4. PICK w : w = WholeOf(p, n)
    OBVIOUS
  <2>5. get_incmsg(mine) = w
    BY <2>1, <2>2, <2>3, <2>4, MessageOf
  <2>6. ASSUME NEW z \in mine PROVE \E i \in 1 .. Len(w) : w[i] = z.text
    <3>0. IsRow(G, z)
      BY <2>1, <2>2 DEF RowsOk
    <3>1. PICK a \in Peers, m \in 1 .. MaxFromPeer, k \in 1 .. Parts, o \in BOOLEAN : z = RowOf(a, m, k, o)
      BY <3>0 DEF IsRow
    <3>2. z.text = <<a, m, k>>
      BY <3>1 DEF RowOf
    <3>3. z.text = <<p, n, k>>
      BY <2>1, <2>2, <3>2
    <3>4. w = [i \in 1 .. Parts |-> <<p, n, i>>] /\ Parts \in Nat
      BY <2>4 DEF WholeOf, RefsAreFresh
    <3>5. Len(w) = Parts
      BY <3>4
    <3>6. w[k] = <<p, n, k>>
      BY <3>4
    <3>7. QED
      BY <3>3, <3>5, <3>6
  <2>7. ASSUME NEW z \in g PROVE Have(r2, b2, z.text)
    BY <2>3, <2>5, <2>6 DEF Have
  <2>8. Have(r2, b2, Text(x))
    BY <1>3, <2>7
  <2>9. ASSUME NEW t, Have(r, b, t) PROVE Have(r2, b2, t)
    <3>1. CASE \E z \in r : z.text = t
      BY <1>3, <2>7, <3>1
    <3>2. CASE \E m \in b : \E i \in 1 .. Len(m) : m[i] = t
      BY <2>3, <3>2, Zenon DEF Have
    <3>3. QED
      BY <2>9, <3>1, <3>2 DEF Have
  <2>10. QED
    BY <1>4, <2>3, <2>8, <2>9
<1>9. QED
  BY <1>5, <1>6, <1>7, <1>8 DEF Put

-----------------------------------------------------------------------------
(* The invariant of peers, network, store and tables.                      *)

PeerSet == [ref : 0 .. RefMod - 1, sent : Seq(0 .. RefMod - 1)]

PeerOk(y) ==
  /\ Len(y.sent) <= MaxFromPeer /\ y.ref = Ref(Len(y.sent))
  /\ \A n \in 1 .. Len(y.sent) : y.sent[n] = Ref(n)

PeersOk == peer \in [Peers -> PeerSet] /\ \A p \in Peers : PeerOk(peer[p])

SentBy(pr) == {z \in Messages : z[2] <= Len(pr[z[1]].sent)}

Sent == SentBy(peer)

Genuine(G, n, s, a, r, b) ==
  /\ \A x \in n : IsPart(G, x)
  /\ \A i \in DOMAIN s : IsPart(G, s[i])
  /\ \A x \in a : IsPart(G, x)
  /\ RowsOk(G, r) /\ Cardinality(r) <= Capacity
  /\ \A m \in b : IsWhole(G, m)

Places ==
  /\ dups \in 0 .. MaxDups
  /\ unread \subseteq DOMAIN store /\ DOMAIN store \subseteq Slots

TablesInv == PeersOk /\ Places /\ Genuine(Sent, net, store, unacked, rows, inbox)

LEMMA MoreSent ==
  ASSUME NEW G, NEW H, G \subseteq H, NEW n, NEW s, NEW a, NEW r, NEW b, Genuine(G, n, s, a, r, b)
  PROVE  Genuine(H, n, s, a, r, b)
<1>1. \A x : IsPart(G, x) => IsPart(H, x)
  BY DEF IsPart
<1>2. \A x : IsRow(G, x) => IsRow(H, x)
  BY DEF IsRow
<1>3. \A x : IsWhole(G, x) => IsWhole(H, x)
  BY DEF IsWhole
<1>4. QED
  BY <1>1, <1>2, <1>3 DEF Genuine, RowsOk

LEMMA LineGenuine ==
  ASSUME RefsAreFresh, NEW G, NEW n, NEW s, NEW a, NEW r, NEW b, Genuine(G, n, s, a, r, b),
         NEW g \in BOOLEAN, NEW h \in BOOLEAN, NEW x, IsPart(G, x), NEW r2, NEW b2, Line(g, h, r, b, x, r2, b2)
  PROVE  Genuine(G, n, s, a, r2, b2)
<1>1. InRange(x)
  BY DEF IsPart, InRange, Part, RefsAreFresh
<1>2. CASE r2 = r /\ b2 = b
  BY <1>2
<1>3. CASE Put(h, r, b, x, r2, b2)
  <2>1. RowsOk(G, r2) /\ Cardinality(r2) <= Capacity /\ \A m \in b2 : IsWhole(G, m)
    BY <1>3, PutOk DEF Genuine
  <2>2. QED
    BY <2>1 DEF Genuine
<1>4. QED
  BY <1>1, <1>2, <1>3 DEF Line

LEMMA TablesInit ==
  ASSUME RefsAreFresh, InInit
  PROVE  TablesInv
<1>1. PeersOk
  <2>1. peer = [p \in Peers |-> [ref |-> PeerRef, sent |-> <<>>]]
    BY DEF InInit
  <2>2. [ref |-> PeerRef, sent |-> <<>>] \in PeerSet
    BY DEF PeerSet, RefsAreFresh
  <2>3. PeerOk([ref |-> PeerRef, sent |-> <<>>])
    <3>0. PICK y : y = [ref |-> PeerRef, sent |-> <<>>]
      OBVIOUS
    <3>1. y.ref = PeerRef /\ y.sent = <<>> /\ Len(y.sent) = 0
      BY <3>0
    <3>2. Ref(0) = PeerRef
      BY DbAssumption DEF Ref, RefsAreFresh
    <3>3. PeerOk(y)
      BY <3>1, <3>2 DEF PeerOk, RefsAreFresh
    <3>4. QED
      BY <3>0, <3>3
  <2>4. QED
    BY <2>1, <2>2, <2>3 DEF PeersOk
<1>2. Places
  BY DEF InInit, Places, RefsAreFresh
<1>3. RowsOk(Sent, {}) /\ Cardinality({}) <= Capacity
  BY FS_EmptySet, DbAssumption DEF RowsOk
<1>4. DOMAIN store = {} /\ net = {} /\ unacked = {} /\ rows = {} /\ inbox = {}
  BY DEF InInit
<1>5. Genuine(Sent, net, store, unacked, rows, inbox)
  BY <1>3, <1>4 DEF Genuine
<1>6. QED
  BY <1>1, <1>2, <1>5 DEF TablesInv

LEMMA TablesSend ==
  ASSUME RefsAreFresh, TablesInv, NEW p \in Peers, PeerSends(p)
  PROVE  TablesInv'
<1>1. PICK y \in PeerSet : y = peer[p] /\ PeerOk(y)
  BY DEF TablesInv, PeersOk
<1>2. PICK s \in Seq(0 .. RefMod - 1), n \in Nat : s = y.sent /\ n = Len(s) /\ n \in 0 .. MaxFromPeer - 1
  <2>1. y.sent \in Seq(0 .. RefMod - 1) /\ Len(y.sent) < MaxFromPeer
    BY <1>1 DEF PeerSends, PeerSet
  <2>2. QED
    BY <2>1 DEF RefsAreFresh
<1>3. y.ref = Ref(n)
  BY <1>1, <1>2 DEF PeerOk
<1>4. smsdb_get_refid(y.ref) = [row |-> Ref(n + 1), res |-> Ref(n + 1)]
  BY <1>2, <1>3, RefNext
<1>5. PICK k \in 0 .. RefMod - 1 : k = Ref(n + 1)
  BY <1>2, RefTypes DEF RefsAreFresh
<1>6. PICK z : z = [ref |-> k, sent |-> Append(s, k)]
  OBVIOUS
<1>7. /\ peer' = [peer EXCEPT ![p] = z]
      /\ net' = net \union {Part(p, n + 1, k, i) : i \in 1 .. Parts}
      /\ UNCHANGED <<dups, store, unread, unacked, rows, inbox>>
  BY <1>1, <1>2, <1>4, <1>5, <1>6 DEF PeerSends
<1>8. z \in PeerSet /\ z.ref = k /\ z.sent = Append(s, k) /\ Len(z.sent) = n + 1
  BY <1>2, <1>6 DEF PeerSet
<1>9. PeerOk(z)
  <2>1. Len(z.sent) <= MaxFromPeer
    BY <1>2, <1>8 DEF RefsAreFresh
  <2>2. ASSUME NEW j \in 1 .. Len(z.sent) PROVE z.sent[j] = Ref(j)
    <3>1. CASE j = n + 1
      BY <1>2, <1>5, <1>8, <3>1
    <3>2. CASE j # n + 1
      <4>1. j \in 1 .. n
        BY <1>2, <1>8, <3>2
      <4>2. Append(s, k)[j] = s[j]
        BY <1>2, <4>1
      <4>3. s[j] = Ref(j)
        BY <1>1, <1>2, <4>1 DEF PeerOk
      <4>4. QED
        BY <1>8, <4>2, <4>3
    <3>3. QED
      BY <3>1, <3>2
  <2>3. QED
    BY <1>5, <1>8, <2>1, <2>2 DEF PeerOk
<1>10. PeersOk'
  BY <1>7, <1>8, <1>9 DEF TablesInv, PeersOk
<1>11. Places'
  BY <1>7 DEF TablesInv, Places
<1>12. Sent \subseteq Sent' /\ <<p, n + 1>> \in Sent'
  <2>1. \A q \in Peers : peer'[q] = IF q = p THEN z ELSE peer[q]
    BY <1>7 DEF TablesInv, PeersOk
  <2>2. \A q \in Peers, i \in 1 .. MaxFromPeer : i <= Len(peer[q].sent) => i <= Len(peer'[q].sent)
    BY <1>1, <1>2, <1>8, <2>1
  <2>3. n + 1 \in 1 .. MaxFromPeer /\ n + 1 <= Len(peer'[p].sent)
    BY <1>2, <1>8, <2>1 DEF RefsAreFresh
  <2>4. <<p, n + 1>> \in Sent'
    BY <2>3 DEF Sent, SentBy, Messages
  <2>5. ASSUME NEW e \in Sent PROVE e \in Sent'
    <3>1. PICK q \in Peers, i \in 1 .. MaxFromPeer : e = <<q, i>>
      BY DEF Sent, SentBy, Messages
    <3>2. i <= Len(peer[q].sent)
      BY <3>1 DEF Sent, SentBy
    <3>3. i <= Len(peer'[q].sent)
      BY <2>2, <3>2
    <3>4. QED
      BY <3>1, <3>3 DEF Sent, SentBy, Messages
  <2>6. QED
    BY <2>4, <2>5
<1>13. Genuine(Sent', net, store, unacked, rows, inbox)
  BY <1>12, MoreSent DEF TablesInv
<1>14. \A i \in 1 .. Parts : IsPart(Sent', Part(p, n + 1, k, i))
  <2>1. TAKE i \in 1 .. Parts
  <2>2. PICK m \in 1 .. MaxFromPeer : m = n + 1
    BY <1>2 DEF RefsAreFresh
  <2>3. PICK G : G = Sent'
    OBVIOUS
  <2>4. k = Ref(m) /\ <<p, m>> \in G
    BY <1>5, <1>12, <2>2, <2>3, Zenon
  <2>5. IsPart(G, Part(p, m, k, i))
    BY <2>4, Zenon DEF IsPart
  <2>6. QED
    BY <2>2, <2>3, <2>5, Zenon
<1>15. Genuine(Sent', net', store', unacked', rows', inbox')
  BY <1>7, <1>13, <1>14 DEF Genuine
<1>16. QED
  BY <1>10, <1>11, <1>15 DEF TablesInv

LEMMA AgedRow ==
  \A p, n, k, o, r : r = RowOf(p, n, k, o) => [r EXCEPT !.old = TRUE] = RowOf(p, n, k, TRUE)
<1>1. ASSUME NEW p, NEW n, NEW k, NEW o
      PROVE  [RowOf(p, n, k, o) EXCEPT !.old = TRUE] = RowOf(p, n, k, TRUE)
  <2>1. PICK c, e, v : c = Ref(n) /\ e = <<p, n, k>> /\ v = TRUE
    OBVIOUS
  <2>2. [[addr |-> p, ref |-> c, parts |-> Parts, order |-> k, text |-> e, old |-> o] EXCEPT !.old = v]
          = [addr |-> p, ref |-> c, parts |-> Parts, order |-> k, text |-> e, old |-> v]
    OBVIOUS
  <2>3. QED
    BY <2>1, <2>2, Zenon DEF RowOf
<1>2. QED
  BY <1>1, Zenon

LEMMA AgedOk ==
  ASSUME NEW G, NEW rs, RowsOk(G, rs), NEW t, t = {[r EXCEPT !.old = TRUE] : r \in rs}
  PROVE  RowsOk(G, t) /\ (Cardinality(rs) <= Capacity => Cardinality(t) <= Capacity)
<1>1. PICK f : f = [r \in rs |-> [r EXCEPT !.old = TRUE]]
  OBVIOUS
<1>2. f \in Surjection(rs, t)
  BY <1>1 DEF Surjection
<1>3. IsFiniteSet(rs)
  BY DEF RowsOk
<1>4. IsFiniteSet(t) /\ Cardinality(t) <= Cardinality(rs)
  BY <1>2, <1>3, FS_Surjection
<1>5. Cardinality(t) \in Nat /\ Cardinality(rs) \in Nat
  BY <1>3, <1>4, FS_CardinalityType
<1>6. ASSUME NEW r \in rs
      PROVE  IsRow(G, [r EXCEPT !.old = TRUE]) /\ [r EXCEPT !.old = TRUE].text = r.text
  <2>1. IsRow(G, r)
    BY DEF RowsOk
  <2>2. PICK p \in Peers, n \in 1 .. MaxFromPeer, k \in 1 .. Parts, o \in BOOLEAN :
          <<p, n>> \in G /\ r = RowOf(p, n, k, o)
    BY <2>1 DEF IsRow
  <2>3. [r EXCEPT !.old = TRUE] = RowOf(p, n, k, TRUE)
    BY <2>2, AgedRow, Zenon
  <2>4. RowOf(p, n, k, TRUE).text = r.text
    BY <2>2 DEF RowOf
  <2>5. IsRow(G, RowOf(p, n, k, TRUE))
    BY <2>2 DEF IsRow
  <2>6. QED
    BY <2>3, <2>4, <2>5, Zenon
<1>7. \A z \in t : IsRow(G, z)
  BY <1>6, Zenon
<1>8. \A z, y \in t : z.text = y.text => z = y
  <2>1. SUFFICES ASSUME NEW z \in t, NEW y \in t, z.text = y.text PROVE z = y
    OBVIOUS
  <2>2. PICK r \in rs : z = [r EXCEPT !.old = TRUE] /\ z.text = r.text
    BY <1>6, Zenon
  <2>3. PICK s \in rs : y = [s EXCEPT !.old = TRUE] /\ y.text = s.text
    BY <1>6, Zenon
  <2>4. r = s
    BY <2>1, <2>2, <2>3 DEF RowsOk
  <2>5. QED
    BY <2>2, <2>3, <2>4, Zenon
<1>9. QED
  BY <1>4, <1>5, <1>7, <1>8, DbAssumption DEF RowsOk

(* The peers do nothing.                                                   *)
LEMMA TablesRest ==
  ASSUME TablesInv, peer' = peer, Places', Genuine(Sent, net', store', unacked', rows', inbox')
  PROVE  TablesInv'
BY DEF TablesInv, PeersOk, Sent

LEMMA WithoutIs ==
  ASSUME NEW f, NEW S
  PROVE  DOMAIN Without(f, S) = DOMAIN f \ S /\ \A y \in DOMAIN f \ S : Without(f, S)[y] = f[y]
BY DEF Without

LEMMA DeliveredIs ==
  ASSUME RefsAreFresh, NEW x \in net, Delivered(x), dups \in 0 .. MaxDups
  PROVE  net' \subseteq net /\ net \subseteq net' \union {x} /\ dups' \in 0 .. MaxDups
BY DEF Delivered, RefsAreFresh

LEMMA TablesNext ==
  ASSUME RefsAreFresh, TablesInv, [InNext]_inVars
  PROVE  TablesInv'
<1>0. Places /\ Genuine(Sent, net, store, unacked, rows, inbox)
  BY DEF TablesInv
<1>1. ASSUME NEW p \in Peers, PeerSends(p) PROVE TablesInv'
  BY <1>1, TablesSend
<1>2. ASSUME NEW x \in net, NEW i \in Slots, Stored(x, i) PROVE TablesInv'
  <2>1. /\ Delivered(x) /\ i \notin DOMAIN store /\ store' = Set(store, i, x)
        /\ unread' = unread \union {i} /\ peer' = peer /\ unacked' = unacked
    BY <1>2 DEF Stored
  <2>2. rows' = rows /\ inbox' = inbox
    BY <1>2, StoredDoes
  <2>3. net' \subseteq net /\ dups' \in 0 .. MaxDups
    BY <1>0, <2>1, DeliveredIs DEF Places
  <2>4. DOMAIN store' = DOMAIN store \union {i} /\ store'[i] = x
        /\ \A y \in DOMAIN store : store'[y] = store[y]
    <3>1. PICK w : w = Set(store, i, x)
      OBVIOUS
    <3>2. DOMAIN w = DOMAIN store \union {i} /\ w[i] = x /\ \A y \in DOMAIN store : y # i => w[y] = store[y]
      BY <3>1 DEF Set
    <3>3. store' = w
      BY <2>1, <3>1
    <3>4. QED
      BY <2>1, <3>2, <3>3
  <2>5. Places'
    BY <1>0, <2>1, <2>3, <2>4 DEF Places
  <2>6. IsPart(Sent, x)
    BY <1>0 DEF Genuine
  <2>7. \A y \in DOMAIN store' : IsPart(Sent, store'[y])
    BY <1>0, <2>4, <2>6 DEF Genuine
  <2>8. Genuine(Sent, net', store', unacked', rows', inbox')
    BY <1>0, <2>1, <2>2, <2>3, <2>7 DEF Genuine
  <2>9. QED
    BY <2>1, <2>5, <2>8, TablesRest
<1>3. ASSUME NEW x \in net, NEW g \in BOOLEAN, NEW h \in BOOLEAN, HandedOver(x, g, h) PROVE TablesInv'
  <2>1. /\ Delivered(x) /\ peer' = peer /\ store' = store /\ unread' = unread
        /\ unacked' \subseteq {x}
    BY <1>3 DEF HandedOver
  <2>2. Line(g, h, rows, inbox, x, rows', inbox')
    BY <1>3, HandedOverDoes
  <2>3. net' \subseteq net /\ dups' \in 0 .. MaxDups
    BY <1>0, <2>1, DeliveredIs DEF Places
  <2>4. Places'
    BY <1>0, <2>1, <2>3 DEF Places
  <2>5. IsPart(Sent, x)
    BY <1>0 DEF Genuine
  <2>6. Genuine(Sent, net, store, unacked, rows', inbox')
    BY <1>0, <2>2, <2>5, LineGenuine
  <2>7. Genuine(Sent, net', store', unacked', rows', inbox')
    BY <2>1, <2>3, <2>5, <2>6 DEF Genuine
  <2>8. QED
    BY <2>1, <2>4, <2>7, TablesRest
<1>4. CASE RowsGetOld
  <2>1. /\ rows' = {[r EXCEPT !.old = TRUE] : r \in rows}
        /\ UNCHANGED <<peer, net, dups, store, unread, unacked, inbox>>
    BY <1>4 DEF RowsGetOld
  <2>2. RowsOk(Sent, rows') /\ Cardinality(rows') <= Capacity
    <3>1. RowsOk(Sent, rows) /\ Cardinality(rows) <= Capacity
      BY <1>0 DEF Genuine
    <3>2. PICK G, t : G = Sent /\ t = rows'
      OBVIOUS
    <3>3. RowsOk(G, t) /\ (Cardinality(rows) <= Capacity => Cardinality(t) <= Capacity)
      BY <2>1, <3>1, <3>2, AgedOk
    <3>4. QED
      BY <3>1, <3>2, <3>3
  <2>3. Genuine(Sent, net', store', unacked', rows', inbox')
    BY <1>0, <2>1, <2>2 DEF Genuine
  <2>4. Places'
    BY <1>0, <2>1 DEF Places
  <2>5. QED
    BY <2>1, <2>3, <2>4, TablesRest
<1>5. CASE ReadDone \/ ReadRefused \/ AckDone \/ ListDone
  <2>1. rows' = rows /\ inbox' = inbox
    BY <1>5, ReadDoneDoes, DoneNow DEF AckDone, ListDone
  <2>2. unacked' \subseteq unacked /\ UNCHANGED <<peer, net, dups, store, unread>>
    BY <1>5 DEF ReadDone, ReadRefused, AckDone, ListDone
  <2>3. Genuine(Sent, net', store', unacked', rows', inbox')
    BY <1>0, <2>1, <2>2 DEF Genuine
  <2>4. Places'
    BY <1>0, <2>2 DEF Places
  <2>5. QED
    BY <2>2, <2>3, <2>4, TablesRest
<1>6. ASSUME NEW g \in BOOLEAN, NEW h \in BOOLEAN, ReadLine(g, h) PROVE TablesInv'
  <2>1. PICK i : i = Head(inqueue).idx
    OBVIOUS
  <2>2. i \in DOMAIN store /\ unread' = unread \ {i} /\ UNCHANGED <<peer, net, dups, store, unacked>>
    BY <1>6, <2>1 DEF ReadLine
  <2>3. PICK x : x = store[i] /\ IsPart(Sent, x)
    BY <1>0, <2>2 DEF Genuine
  <2>4. Line(g, h, rows, inbox, x, rows', inbox')
    BY <1>6, <2>1, <2>3, ReadLineDoes
  <2>5. Genuine(Sent, net, store, unacked, rows', inbox')
    BY <1>0, <2>3, <2>4, LineGenuine
  <2>6. Places'
    BY <1>0, <2>2 DEF Places
  <2>7. QED
    BY <2>2, <2>5, <2>6, TablesRest
<1>7. ASSUME NEW ok \in BOOLEAN, DeleteDone(ok) PROVE TablesInv'
  <2>1. PICK i : i = Head(inqueue).idx
    OBVIOUS
  <2>2. /\ store' = IF ok THEN Without(store, {i}) ELSE store
        /\ unread' = IF ok THEN unread \ {i} ELSE unread
        /\ Becomes(Done(Now)) /\ UNCHANGED <<peer, net, dups, unacked>>
    BY <1>7, <2>1 DEF DeleteDone
  <2>3. rows' = rows /\ inbox' = inbox
    BY <2>2, DoneNow
  <2>4. /\ \A y \in DOMAIN store' : y \in DOMAIN store /\ store'[y] = store[y]
        /\ unread' \subseteq DOMAIN store'
    <3>1. CASE ok
      <4>1. store' = Without(store, {i}) /\ unread' = unread \ {i}
        BY <2>2, <3>1
      <4>2. PICK w : w = Without(store, {i})
        OBVIOUS
      <4>3. DOMAIN w = DOMAIN store \ {i} /\ \A y \in DOMAIN store \ {i} : w[y] = store[y]
        BY <4>2, WithoutIs
      <4>4. QED
        BY <1>0, <4>1, <4>2, <4>3 DEF Places
    <3>2. CASE ~ok
      BY <1>0, <2>2, <3>2 DEF Places
    <3>3. QED
      BY <3>1, <3>2
  <2>5. Genuine(Sent, net', store', unacked', rows', inbox')
    BY <1>0, <2>2, <2>3, <2>4 DEF Genuine
  <2>6. Places'
    BY <1>0, <2>2, <2>4 DEF Places
  <2>7. QED
    BY <2>2, <2>5, <2>6, TablesRest
<1>8. ASSUME NEW i \in Slots, NEW g \in BOOLEAN, NEW h \in BOOLEAN, ListLine(i, g, h) PROVE TablesInv'
  <2>1. i \in unread /\ unread' = unread \ {i} /\ UNCHANGED <<peer, net, dups, store, unacked>>
    BY <1>8 DEF ListLine
  <2>2. PICK x : x = store[i] /\ IsPart(Sent, x)
    BY <1>0, <2>1 DEF Genuine, Places
  <2>3. Line(g, h, rows, inbox, x, rows', inbox')
    BY <1>8, <2>2, ListLineDoes
  <2>4. Genuine(Sent, net, store, unacked, rows', inbox')
    BY <1>0, <2>2, <2>3, LineGenuine
  <2>5. Places'
    BY <1>0, <2>1 DEF Places
  <2>6. QED
    BY <2>1, <2>4, <2>5, TablesRest
<1>9. CASE Reconnect
  <2>1. net' = net \union unacked /\ unacked' = {} /\ UNCHANGED <<peer, dups, store, unread, rows, inbox>>
    BY <1>9 DEF Reconnect
  <2>2. Genuine(Sent, net', store', unacked', rows', inbox')
    BY <1>0, <2>1 DEF Genuine
  <2>3. Places'
    BY <1>0, <2>1 DEF Places
  <2>4. QED
    BY <2>1, <2>2, <2>3, TablesRest
<1>10. CASE UNCHANGED inVars
  BY <1>0, <1>10, TablesRest DEF inVars, Places
<1>11. QED
  BY <1>1, <1>2, <1>3, <1>4, <1>5, <1>6, <1>7, <1>8, <1>9, <1>10 DEF InNext, Answer

(* Every message the dialplan was given is one of a peer, entire.          *)
OnlySent == \A m \in inbox : IsWhole(Sent, m)

LEMMA WholeIs ==
  ASSUME RefsAreFresh, NEW G, NEW m, IsWhole(G, m)
  PROVE  Len(m) = Parts /\ \A i \in 1 .. Parts : m[i][3] = i /\ m[i][1] = m[1][1] /\ m[i][2] = m[1][2]
<1>1. PICK p, n : m = WholeOf(p, n)
  BY DEF IsWhole
<1>2. m = [i \in 1 .. Parts |-> <<p, n, i>>] /\ Parts \in Nat /\ 1 \in 1 .. Parts
  BY <1>1 DEF WholeOf, RefsAreFresh
<1>3. \A i \in 1 .. Parts : m[i] = <<p, n, i>>
  BY <1>2
<1>4. Len(m) = Parts
  BY <1>2
<1>5. QED
  BY <1>2, <1>3, <1>4

LEMMA TablesAlways ==
  ASSUME RefsAreFresh
  PROVE  InSpec => []TablesInv
<1>1. InInit => TablesInv
  BY TablesInit
<1>2. TablesInv /\ [InNext]_inVars => TablesInv'
  BY TablesNext
<1>3. QED
  BY <1>1, <1>2, PTL DEF InSpec

LEMMA QueueAlways == InSpec => []QueueInv
BY QueueInit, QueueNext, PTL DEF InSpec

(* A message that reaches the dialplan has all its parts, in order and     *)
(* none of another message, however many senders there are, in whichever   *)
(* order and however often the network delivers the parts, and with        *)
(* unreadable lines, expiring rows, a full table and lost links            *)
(* (smsdb_put, put_incmsg, get_incmsg, smsdb_get_refid).                   *)
THEOREM MessagesAreWhole ==
  ASSUME RefsAreFresh
  PROVE  InSpec => []WholeMessages
<1>1. TablesInv => WholeMessages
  BY WholeIs DEF TablesInv, Genuine, WholeMessages
<1>2. InSpec => []TablesInv
  BY TablesAlways
<1>3. QED
  BY <1>1, <1>2, PTL

(* It is a message that one of the peers has sent: none is invented.       *)
THEOREM MessagesWereSent ==
  ASSUME RefsAreFresh
  PROVE  InSpec => []OnlySent
<1>1. TablesInv => OnlySent
  BY DEF TablesInv, Genuine, OnlySent
<1>2. InSpec => []TablesInv
  BY TablesAlways
<1>3. QED
  BY <1>1, <1>2, PTL

-----------------------------------------------------------------------------
(* No part is lost.                                                        *)

Here(n, a, s, r, b, x) ==
  \/ x \in n \/ x \in a
  \/ \E i \in DOMAIN s : s[i] = x
  \/ Have(r, b, Text(x))

AllHere == \A x : IsPart(Sent, x) => Here(net, unacked, store, rows, inbox, x)

(* Reading from the store: at most one AT+CMGR, for the slot that counts   *)
(* as being read, and one AT+CMGD for each slot whose part has been put.   *)
OneRead(q, i, a) ==
  /\ \A k \in DOMAIN q : q[k].cmd \in {"CMGR", "CMGD"}
  /\ \A k, l \in DOMAIN q : q[k].cmd = "CMGR" /\ q[l].cmd = "CMGR" => k = l
  /\ ~a => \A k \in DOMAIN q : q[k].cmd = "CMGR" => i # NoIndex /\ q[k].idx = i

DeletesRead(q, i, s, r, b) ==
  /\ i # NoIndex => i \in DOMAIN s
  /\ \A k, l \in DOMAIN q :
       q[k].cmd = "CMGD" /\ q[l].cmd = "CMGD" /\ q[k].idx = q[l].idx => k = l
  /\ \A k \in DOMAIN q :
       q[k].cmd = "CMGD" =>
         q[k].idx \in DOMAIN s /\ q[k].idx # i /\ Have(r, b, Text(s[q[k].idx]))

Slotted(q, i, a, s, r, b) == OneRead(q, i, a) /\ DeletesRead(q, i, s, r, b)

LossInv ==
  /\ \A z \in rows : ~z.old
  /\ \A x \in unacked : Have(rows, inbox, Text(x))
  /\ Direct => DOMAIN store = {}
  /\ ~Direct => Slotted(inqueue, index, answered, store, rows, inbox)
  /\ AllHere

LEMMA MoreRead ==
  ASSUME NEW q, NEW i, NEW s, NEW r, NEW b, DeletesRead(q, i, s, r, b), NEW r2, NEW b2,
         \A t : Have(r, b, t) => Have(r2, b2, t)
  PROVE  DeletesRead(q, i, s, r2, b2)
BY DEF DeletesRead

LEMMA SlottedTail ==
  ASSUME NEW q \in Seq(Commands), q # <<>>, NEW i, NEW a, NEW s, NEW r, NEW b,
         Slotted(q, i, a, s, r, b)
  PROVE  /\ Slotted(Tail(q), i, a, s, r, b)
         /\ q[1].cmd = "CMGR" => \A k \in DOMAIN Tail(q) : Tail(q)[k].cmd # "CMGR"
         /\ q[1].cmd = "CMGD" => \A k \in DOMAIN Tail(q) :
                                    Tail(q)[k].cmd = "CMGD" => Tail(q)[k].idx # q[1].idx
<1>1. Tail(q) \in Seq(Commands) /\ Len(Tail(q)) = Len(q) - 1 /\ Len(q) \in Nat \ {0}
      /\ \A k \in 1 .. Len(q) - 1 : Tail(q)[k] = q[k + 1]
  BY TailIs
<1>2. PICK t \in Seq(Commands), m \in Nat : t = Tail(q) /\ m = Len(q) /\ Len(t) = m - 1 /\ m # 0
  BY <1>1, Zenon
<1>3. DOMAIN t = 1 .. m - 1 /\ DOMAIN q = 1 .. m
  BY <1>2
<1>4. \A k \in DOMAIN t : k + 1 \in DOMAIN q /\ t[k] = q[k + 1] /\ k + 1 # 1
  BY <1>1, <1>2, <1>3
<1>5. 1 \in DOMAIN q
  BY <1>2, <1>3
<1>6. \A k, l \in DOMAIN t : k + 1 = l + 1 => k = l
  BY <1>3
<1>7. OneRead(t, i, a)
  BY <1>4, <1>6 DEF Slotted, OneRead
<1>8. DeletesRead(t, i, s, r, b)
  BY <1>4, <1>6 DEF Slotted, DeletesRead
<1>9. q[1].cmd = "CMGR" => \A k \in DOMAIN t : t[k].cmd # "CMGR"
  BY <1>4, <1>5 DEF Slotted, OneRead
<1>10. q[1].cmd = "CMGD" => \A k \in DOMAIN t : t[k].cmd = "CMGD" => t[k].idx # q[1].idx
  BY <1>4, <1>5 DEF Slotted, DeletesRead
<1>11. QED
  BY <1>2, <1>7, <1>8, <1>9, <1>10 DEF Slotted

(* Behind the first command the deletion of the slot that was read.        *)
LEMMA SlottedRead ==
  ASSUME NEW S, NEW q \in Seq(S), NEW c \in S, q # <<>>, NEW i \in Slots, i # NoIndex, NEW s, NEW r, NEW b,
         Slotted(q, i, FALSE, s, r, b), Have(r, b, Text(s[i])), c.cmd = "CMGD", c.idx = i,
         DOMAIN s \subseteq Nat
  PROVE  Slotted(AfterHead(q, c), NoIndex, TRUE, s, r, b)
<1>1. /\ AfterHead(q, c) \in Seq(S) /\ Len(AfterHead(q, c)) = Len(q) + 1
      /\ \A k \in 2 .. Len(q) : AfterHead(q, c)[k + 1] = q[k]
  <2>1. AfterHead(q, c) \in Seq(S) /\ Len(AfterHead(q, c)) = Len(q) + 1
    BY AfterHeadIs
  <2>2. \A k \in 2 .. Len(q) : AfterHead(q, c)[k + 1] = q[k]
    BY AfterHeadIs
  <2>3. QED
    BY <2>1, <2>2
<1>2. AfterHead(q, c)[1] = q[1] /\ AfterHead(q, c)[2] = c
  BY AfterHeadIs, SMTT(60)
<1>3. PICK n \in Seq(S), m \in Nat : n = AfterHead(q, c) /\ m = Len(q) /\ Len(n) = m + 1
  <2>1. PICK m \in Nat : m = Len(q)
    OBVIOUS
  <2>2. QED
    BY <1>1, <2>1, Zenon
<1>4. DOMAIN n = 1 .. m + 1 /\ DOMAIN q = 1 .. m /\ m # 0
  BY <1>3, EmptySeq
<1>5. PICK e : e = [k \in 1 .. m + 1 |-> IF k = 1 THEN 1 ELSE k - 1]
  OBVIOUS
<1>6. \A k \in DOMAIN n : k # 2 => e[k] \in DOMAIN q /\ n[k] = q[e[k]]
  <2>1. TAKE k \in DOMAIN n
  <2>2. CASE k = 1
    BY <1>2, <1>3, <1>4, <1>5, <2>2
  <2>3. CASE k # 1 /\ k # 2
    <3>1. k - 1 \in 2 .. Len(q) /\ (k - 1) + 1 = k /\ e[k] = k - 1
      BY <1>3, <1>4, <1>5, <2>3
    <3>2. AfterHead(q, c)[(k - 1) + 1] = q[k - 1]
      BY <1>1, <3>1
    <3>3. QED
      BY <1>3, <1>4, <3>1, <3>2
  <2>4. QED
    BY <2>2, <2>3
<1>7. \A k, l \in DOMAIN n : k # 2 /\ l # 2 /\ e[k] = e[l] => k = l
  BY <1>4, <1>5
<1>8. n[2] = c /\ c.cmd = "CMGD" /\ c.idx = i /\ 2 \in DOMAIN n
  BY <1>2, <1>3, <1>4
<1>9. OneRead(n, NoIndex, TRUE)
  BY <1>6, <1>7, <1>8 DEF Slotted, OneRead
<1>10. i \in DOMAIN s /\ \A k \in DOMAIN s : k # NoIndex
  BY DEF Slotted, DeletesRead, NoIndex
<1>11. ASSUME NEW k \in DOMAIN n, n[k].cmd = "CMGD"
       PROVE  n[k].idx \in DOMAIN s /\ n[k].idx # NoIndex /\ Have(r, b, Text(s[n[k].idx]))
  <2>1. CASE k = 2
    BY <1>8, <1>10, <2>1
  <2>2. CASE k # 2
    BY <1>6, <1>10, <1>11, <2>2 DEF Slotted, DeletesRead
  <2>3. QED
    BY <2>1, <2>2
<1>12. ASSUME NEW k \in DOMAIN n, NEW l \in DOMAIN n, n[k].cmd = "CMGD", n[l].cmd = "CMGD",
              n[k].idx = n[l].idx
       PROVE  k = l
  <2>1. \A j \in DOMAIN n : j # 2 /\ n[j].cmd = "CMGD" => n[j].idx # i
    BY <1>6 DEF Slotted, DeletesRead
  <2>2. CASE k = 2 \/ l = 2
    BY <1>8, <1>12, <2>1, <2>2
  <2>3. CASE k # 2 /\ l # 2
    BY <1>6, <1>7, <1>12, <2>3 DEF Slotted, DeletesRead
  <2>4. QED
    BY <2>2, <2>3
<1>13. DeletesRead(n, NoIndex, s, r, b)
  BY <1>11, <1>12 DEF DeletesRead
<1>14. QED
  BY <1>3, <1>9, <1>13 DEF Slotted

LEMMA SlottedAppend ==
  ASSUME NEW S, NEW q \in Seq(S), NEW c \in S, NEW i, NEW s, NEW r, NEW b,
         Slotted(q, NoIndex, FALSE, s, r, b), c.cmd = "CMGR", c.idx = i, i # NoIndex,
         i \notin DOMAIN s, NEW s2, DOMAIN s2 = DOMAIN s \union {i},
         \A k \in DOMAIN s : s2[k] = s[k]
  PROVE  Slotted(Append(q, c), i, FALSE, s2, r, b)
<1>1. PICK n \in Seq(S), m \in Nat : n = Append(q, c) /\ m = Len(q) /\ Len(n) = m + 1
  <2>1. Append(q, c) \in Seq(S) /\ Len(Append(q, c)) = Len(q) + 1 /\ Len(q) \in Nat
    OBVIOUS
  <2>2. QED
    BY <2>1, Zenon
<1>2. DOMAIN n = 1 .. m + 1 /\ DOMAIN q = 1 .. m
  BY <1>1
<1>3. n[m + 1] = c /\ \A k \in DOMAIN n : k # m + 1 => k \in DOMAIN q /\ n[k] = q[k]
  BY <1>1, <1>2
<1>4. \A k \in DOMAIN q : q[k].cmd = "CMGD"
  BY DEF Slotted, OneRead
<1>5. OneRead(n, i, FALSE)
  BY <1>3, <1>4 DEF OneRead
<1>6. \A k \in DOMAIN n : n[k].cmd = "CMGD" => k # m + 1
  BY <1>3
<1>7. \A k, l \in DOMAIN n : n[k].cmd = "CMGD" /\ n[l].cmd = "CMGD" /\ n[k].idx = n[l].idx => k = l
  BY <1>3, <1>6 DEF Slotted, DeletesRead
<1>8. \A k \in DOMAIN n : n[k].cmd = "CMGD" =>
        n[k].idx \in DOMAIN s2 /\ n[k].idx # i /\ Have(r, b, Text(s2[n[k].idx]))
  BY <1>3, <1>6 DEF Slotted, DeletesRead
<1>9. DeletesRead(n, i, s2, r, b)
  BY <1>7, <1>8 DEF DeletesRead
<1>10. QED
  BY <1>1, <1>5, <1>9 DEF Slotted

(* The store may also just grow.                                           *)
LEMMA SlottedStore ==
  ASSUME NEW q, NEW i, NEW a, NEW s, NEW r, NEW b, Slotted(q, i, a, s, r, b), NEW s2,
         DOMAIN s \subseteq DOMAIN s2, \A k \in DOMAIN s : s2[k] = s[k]
  PROVE  Slotted(q, i, a, s2, r, b)
BY DEF Slotted, DeletesRead

(* Or lose a slot that is neither being read nor to be deleted.            *)
LEMMA SlottedLess ==
  ASSUME NEW q, NEW i, NEW a, NEW s, NEW r, NEW b, Slotted(q, i, a, s, r, b), NEW s2, NEW d,
         DOMAIN s2 = DOMAIN s \ {d}, \A k \in DOMAIN s2 : s2[k] = s[k], i # d,
         \A k \in DOMAIN q : q[k].cmd = "CMGD" => q[k].idx # d
  PROVE  Slotted(q, i, a, s2, r, b)
BY DEF Slotted, DeletesRead

LEMMA LossInit ==
  ASSUME RefsAreFresh, InInit
  PROVE  LossInv
<1>1. DOMAIN store = {} /\ rows = {} /\ unacked = {} /\ inqueue = <<>> /\ DOMAIN inqueue = {} /\ index = NoIndex
  BY DEF InInit
<1>2. \A p \in Peers : peer[p].sent = <<>> /\ Len(peer[p].sent) = 0
  <2>1. peer = [p \in Peers |-> [ref |-> PeerRef, sent |-> <<>>]]
    BY DEF InInit
  <2>2. \A p \in Peers : peer[p].sent = <<>>
    BY <2>1
  <2>3. QED
    BY <2>2
<1>3. Sent = {}
  <2>1. SUFFICES ASSUME NEW e \in Sent PROVE FALSE
    OBVIOUS
  <2>2. PICK p \in Peers, n \in 1 .. MaxFromPeer : e = <<p, n>>
    BY DEF Sent, SentBy, Messages
  <2>3. n <= Len(peer[p].sent)
    BY <2>2 DEF Sent, SentBy
  <2>4. QED
    BY <1>2, <2>2, <2>3 DEF RefsAreFresh
<1>4. AllHere
  BY <1>3 DEF AllHere, IsPart
<1>5. Slotted(inqueue, index, answered, store, rows, inbox)
  BY <1>1 DEF Slotted, OneRead, DeletesRead
<1>6. QED
  BY <1>1, <1>4, <1>5 DEF LossInv

LEMMA LossSend ==
  ASSUME RefsAreFresh, TablesInv, LossInv, NEW p \in Peers, PeerSends(p)
  PROVE  LossInv'
<1>1. PICK y \in PeerSet : y = peer[p] /\ PeerOk(y)
  BY DEF TablesInv, PeersOk
<1>2. PICK n \in Nat : n = Len(y.sent) /\ n \in 0 .. MaxFromPeer - 1
  <2>1. y.sent \in Seq(0 .. RefMod - 1) /\ Len(y.sent) < MaxFromPeer
    BY <1>1 DEF PeerSends, PeerSet
  <2>2. QED
    BY <2>1 DEF RefsAreFresh
<1>3. smsdb_get_refid(y.ref) = [row |-> Ref(n + 1), res |-> Ref(n + 1)]
  <2>1. y.ref = Ref(n)
    BY <1>1, <1>2 DEF PeerOk
  <2>2. QED
    BY <1>2, <2>1, RefNext
<1>4. PICK k : k = Ref(n + 1)
  OBVIOUS
<1>5. PICK z : z = [ref |-> k, sent |-> Append(y.sent, k)]
  OBVIOUS
<1>6. /\ peer' = [peer EXCEPT ![p] = z]
      /\ net' = net \union {Part(p, n + 1, k, i) : i \in 1 .. Parts}
      /\ UNCHANGED <<dups, store, unread, unacked, inqueue, answered, index, rows, inbox>>
  BY <1>1, <1>2, <1>3, <1>4, <1>5 DEF PeerSends
<1>7. \A q \in Peers : Len(peer'[q].sent) = IF q = p THEN n + 1 ELSE Len(peer[q].sent)
  <2>1. \A q \in Peers : peer'[q] = IF q = p THEN z ELSE peer[q]
    BY <1>6 DEF TablesInv, PeersOk
  <2>2. y.sent \in Seq(0 .. RefMod - 1) /\ k \in 0 .. RefMod - 1
    <3>1. n + 1 \in 0 .. MaxFromPeer
      BY <1>2 DEF RefsAreFresh
    <3>2. QED
      BY <1>1, <1>4, <3>1, RefTypes DEF PeerSet
  <2>3. Len(z.sent) = n + 1
    BY <1>2, <1>5, <2>2
  <2>4. QED
    BY <2>1, <2>3
<1>8. ASSUME NEW x, IsPart(Sent', x) PROVE IsPart(Sent, x) \/ x \in net'
  <2>1. PICK q \in Peers, m \in 1 .. MaxFromPeer, j \in 1 .. Parts :
          <<q, m>> \in Sent' /\ x = Part(q, m, Ref(m), j)
    BY <1>8 DEF IsPart
  <2>2. m <= Len(peer'[q].sent)
    BY <2>1 DEF Sent, SentBy
  <2>3. CASE q = p /\ m = n + 1
    BY <1>4, <1>6, <2>1, <2>3
  <2>4. CASE ~(q = p /\ m = n + 1)
    <3>1. m <= Len(peer[q].sent)
      BY <1>1, <1>2, <1>7, <2>2, <2>4
    <3>2. <<q, m>> \in Sent
      BY <3>1 DEF Sent, SentBy, Messages
    <3>3. QED
      BY <2>1, <3>2 DEF IsPart
  <2>5. QED
    BY <2>3, <2>4
<1>9. AllHere'
  BY <1>6, <1>8 DEF LossInv, AllHere, Here
<1>10. QED
  BY <1>6, <1>9 DEF LossInv

LEMMA HereKept ==
  ASSUME AllHere, peer' = peer, \A t : Have(rows, inbox, t) => Have(rows', inbox', t),
         \A x \in net \union unacked : Here(net', unacked', store', rows', inbox', x),
         \A i \in DOMAIN store : Here(net', unacked', store', rows', inbox', store[i])
  PROVE  AllHere'
<1>1. Sent' = Sent
  BY DEF Sent
<1>2. ASSUME NEW x, IsPart(Sent', x) PROVE Here(net', unacked', store', rows', inbox', x)
  <2>1. Here(net, unacked, store, rows, inbox, x)
    BY <1>1, <1>2 DEF AllHere
  <2>2. CASE x \in net \/ x \in unacked
    BY <2>2
  <2>3. CASE \E i \in DOMAIN store : store[i] = x
    BY <2>3
  <2>4. CASE Have(rows, inbox, Text(x))
    BY <2>4 DEF Here
  <2>5. QED
    BY <2>1, <2>2, <2>3, <2>4 DEF Here
<1>3. QED
  BY <1>2 DEF AllHere

LEMMA LossStored ==
  ASSUME RefsAreFresh, TablesInv, QueueInv, LossInv, NEW x \in net, NEW i \in Slots, Stored(x, i)
  PROVE  LossInv'
<1>1. /\ Delivered(x) /\ i \notin DOMAIN store /\ store' = Set(store, i, x)
      /\ peer' = peer /\ unacked' = unacked /\ answered' = answered /\ answered = FALSE /\ ~Direct
  BY DEF Stored, UrcMayCome, QueueInv
<1>2. rows' = rows /\ inbox' = inbox
  BY StoredDoes
<1>3. net \subseteq net' \union {x}
  BY <1>1 DEF Delivered
<1>4. DOMAIN store' = DOMAIN store \union {i} /\ store'[i] = x
      /\ \A y \in DOMAIN store : store'[y] = store[y]
  <2>1. PICK w : w = Set(store, i, x)
    OBVIOUS
  <2>2. DOMAIN w = DOMAIN store \union {i} /\ w[i] = x /\ \A y \in DOMAIN store : y # i => w[y] = store[y]
    BY <2>1 DEF Set
  <2>3. store' = w
    BY <1>1, <2>1
  <2>4. QED
    BY <1>1, <2>2, <2>3
<1>5. Slotted(inqueue, index, FALSE, store, rows, inbox) /\ i # NoIndex
  <2>1. Slotted(inqueue, index, answered, store, rows, inbox)
    BY <1>1 DEF LossInv
  <2>2. Slotted(inqueue, index, FALSE, store, rows, inbox)
    BY <1>1, <2>1, Zenon
  <2>3. i # NoIndex
    BY DEF RefsAreFresh, NoIndex
  <2>4. QED
    BY <2>2, <2>3
<1>6. Slotted(inqueue', index', FALSE, store', rows, inbox)
  <2>1. CASE inqueue' = inqueue /\ index' = index
    BY <1>4, <1>5, <2>1, SlottedStore
  <2>2. CASE index = NoIndex /\ index' = i /\ inqueue' = Append(inqueue, Cmd("CMGR", i))
    <3>1. PICK c \in Commands : c = Cmd("CMGR", i)
      BY CmdTypes
    <3>2. c.cmd = "CMGR" /\ c.idx = i
      BY <3>1 DEF Cmd
    <3>3. PICK s2 : s2 = store'
      OBVIOUS
    <3>4. Slotted(Append(inqueue, c), i, FALSE, s2, rows, inbox)
      BY <1>1, <1>4, <1>5, <2>2, <3>2, <3>3, SlottedAppend DEF QueueInv
    <3>5. QED
      BY <2>2, <3>1, <3>3, <3>4
  <2>3. QED
    BY <2>1, <2>2, StoredDoes
<1>7. AllHere'
  <2>1. \A y \in net \union unacked : Here(net', unacked', store', rows', inbox', y)
    BY <1>1, <1>3, <1>4 DEF Here
  <2>2. \A y \in DOMAIN store : Here(net', unacked', store', rows', inbox', store[y])
    BY <1>4 DEF Here
  <2>3. QED
    BY <1>1, <1>2, <2>1, <2>2, HereKept DEF LossInv
<1>8. Slotted(inqueue', index', answered', store', rows', inbox')
  BY <1>1, <1>2, <1>6
<1>9. QED
  BY <1>1, <1>2, <1>7, <1>8 DEF LossInv

(* A line that is read keeps what has been read, and its part.             *)
LEMMA LineKeeps ==
  ASSUME RefsAreFresh, TablesInv, LossInv, NEW x, IsPart(Sent, x),
         NEW g \in BOOLEAN, NEW h \in BOOLEAN, ~Costly(x, g, h), Line(g, h, rows, inbox, x, rows', inbox')
  PROVE  /\ \A t : Have(rows, inbox, t) => Have(rows', inbox', t)
         /\ Have(rows', inbox', Text(x))
         /\ \A z \in rows' : ~z.old
<1>1. InRange(x)
  BY DEF IsPart, InRange, Part, RefsAreFresh
<1>2. Put(h, rows, inbox, x, rows', inbox')
  BY <1>1 DEF Line, Costly
<1>0. (Parts # 1 /\ (~h \/ Cardinality(rows) >= Capacity)) => \E z \in rows : z.text = Text(x)
  <2>1. {z \in rows : ~z.old} = rows
    BY DEF LossInv
  <2>2. Parts # 1 => Parts > 1
    BY DEF RefsAreFresh
  <2>3. QED
    BY <2>1, <2>2 DEF Costly, NotPut
<1>3. Sent \subseteq Messages /\ RowsOk(Sent, rows) /\ \A z \in rows : ~z.old
  BY DEF Sent, SentBy, TablesInv, Genuine, LossInv
<1>4. PICK G, r2, b2 : G = Sent /\ r2 = rows' /\ b2 = inbox'
  OBVIOUS
<1>5. /\ \A t : Have(rows, inbox, t) => Have(r2, b2, t)
      /\ Have(r2, b2, Text(x))
      /\ \A z \in r2 : ~z.old
  BY <1>0, <1>2, <1>3, <1>4, PutKeeps
<1>6. QED
  BY <1>4, <1>5

LEMMA LossHanded ==
  ASSUME RefsAreFresh, TablesInv, LossInv, ~harmed',
         NEW x \in net, NEW g \in BOOLEAN, NEW h \in BOOLEAN, HandedOver(x, g, h)
  PROVE  LossInv'
<1>1. /\ Delivered(x) /\ peer' = peer /\ store' = store /\ Direct
      /\ unacked' \subseteq {x} /\ unacked = {} /\ ~Costly(x, g, h)
  BY DEF HandedOver
<1>2. Line(g, h, rows, inbox, x, rows', inbox')
  BY HandedOverDoes
<1>3. net \subseteq net' \union {x}
  BY <1>1 DEF Delivered
<1>4. IsPart(Sent, x)
  BY DEF TablesInv, Genuine
<1>5. /\ \A t : Have(rows, inbox, t) => Have(rows', inbox', t)
      /\ Have(rows', inbox', Text(x))
      /\ \A z \in rows' : ~z.old
  BY <1>1, <1>2, <1>4, LineKeeps
<1>6. AllHere'
  <2>1. \A y \in net \union unacked : Here(net', unacked', store', rows', inbox', y)
    BY <1>1, <1>3, <1>5 DEF Here
  <2>2. \A y \in DOMAIN store : Here(net', unacked', store', rows', inbox', store[y])
    BY <1>1 DEF Here
  <2>3. QED
    BY <1>1, <1>5, <2>1, <2>2, HereKept DEF LossInv
<1>7. QED
  BY <1>1, <1>5, <1>6 DEF LossInv

LEMMA LossReadLine ==
  ASSUME RefsAreFresh, TablesInv, QueueInv, LossInv, ~harmed',
         NEW g \in BOOLEAN, NEW h \in BOOLEAN, ReadLine(g, h)
  PROVE  LossInv'
<1>1. PICK i : i = Head(inqueue).idx
  OBVIOUS
<1>2. /\ i \in DOMAIN store /\ inqueue # <<>> /\ Head(inqueue).cmd = "CMGR" /\ answered = FALSE
      /\ answered' = TRUE /\ ~Costly(store[i], g, h)
      /\ UNCHANGED <<peer, net, store, unacked>>
  BY <1>1 DEF ReadLine, On, QueueInv
<1>3. ~Direct
  BY <1>2 DEF LossInv
<1>4. PICK x : x = store[i] /\ IsPart(Sent, x)
  BY <1>2 DEF TablesInv, Genuine
<1>5. /\ index' = NoIndex /\ inqueue' = Released(inqueue, index)
      /\ Line(g, h, rows, inbox, x, rows', inbox')
  BY <1>1, <1>4, ReadLineDoes
<1>6. /\ \A t : Have(rows, inbox, t) => Have(rows', inbox', t)
      /\ Have(rows', inbox', Text(x))
      /\ \A z \in rows' : ~z.old
  BY <1>2, <1>4, <1>5, LineKeeps
<1>7. PICK r2, b2 : r2 = rows' /\ b2 = inbox'
  OBVIOUS
<1>8. Slotted(inqueue, index, FALSE, store, r2, b2)
  BY <1>2, <1>3, <1>6, <1>7, MoreRead DEF LossInv, Slotted
<1>9. inqueue \in Seq(Commands) /\ 1 \in DOMAIN inqueue /\ inqueue[1] = Head(inqueue)
  <2>1. inqueue \in Seq(Commands)
    BY DEF QueueInv
  <2>2. Len(inqueue) \in Nat \ {0} /\ Head(inqueue) = inqueue[1]
    BY <1>2, <2>1, TailIs
  <2>3. QED
    BY <2>1, <2>2
<1>10. i = index /\ index # NoIndex /\ index \in Slots
  BY <1>1, <1>2, <1>8, <1>9 DEF Slotted, OneRead, QueueInv
<1>11. Slotted(inqueue', NoIndex, TRUE, store, r2, b2)
  <2>1. CASE Autodelete
    <3>1. PICK c \in Commands : c = Cmd("CMGD", index)
      BY <1>10, CmdTypes
    <3>2. c.cmd = "CMGD" /\ c.idx = index /\ inqueue' = AfterHead(inqueue, c)
      BY <1>5, <1>10, <2>1, <3>1 DEF Cmd, Released
    <3>3. DOMAIN store \subseteq Nat
      BY DEF TablesInv, Places, RefsAreFresh
    <3>4. Have(r2, b2, Text(store[index]))
      BY <1>4, <1>6, <1>7, <1>10
    <3>5. Slotted(AfterHead(inqueue, c), NoIndex, TRUE, store, r2, b2)
      BY <1>2, <1>8, <1>9, <1>10, <3>2, <3>3, <3>4, SlottedRead
    <3>6. QED
      BY <3>2, <3>5
  <2>2. CASE ~Autodelete
    <3>1. inqueue' = inqueue
      BY <1>5, <2>2 DEF Released
    <3>2. \A k \in DOMAIN store : k # NoIndex
      BY DEF TablesInv, Places, RefsAreFresh, NoIndex
    <3>3. Slotted(inqueue, NoIndex, TRUE, store, r2, b2)
      BY <1>8, <3>2 DEF Slotted, OneRead, DeletesRead
    <3>4. QED
      BY <3>1, <3>3
  <2>3. QED
    BY <2>1, <2>2
<1>12. AllHere'
  <2>1. \A y \in net \union unacked : Here(net', unacked', store', rows', inbox', y)
    BY <1>2 DEF Here
  <2>2. \A y \in DOMAIN store : Here(net', unacked', store', rows', inbox', store[y])
    BY <1>2 DEF Here
  <2>3. QED
    BY <1>2, <1>6, <2>1, <2>2, HereKept DEF LossInv
<1>13. Slotted(inqueue', index', answered', store', rows', inbox')
  BY <1>2, <1>5, <1>7, <1>11
<1>14. QED
  BY <1>2, <1>3, <1>6, <1>12, <1>13 DEF LossInv

LEMMA LossReadDone ==
  ASSUME RefsAreFresh, TablesInv, QueueInv, LossInv, ReadDone
  PROVE  LossInv'
<1>1. /\ inqueue # <<>> /\ Head(inqueue).cmd = "CMGR" /\ answered' = FALSE
      /\ answered \/ Head(inqueue).idx \notin DOMAIN store
      /\ UNCHANGED <<peer, net, store, unacked>>
  BY DEF ReadDone, On
<1>2. /\ index' = NoIndex /\ inqueue' = Tail(Released(inqueue, index))
      /\ rows' = rows /\ inbox' = inbox
  BY ReadDoneDoes
<1>3. AllHere'
  BY <1>1, <1>2 DEF LossInv, AllHere, Sent
<1>4. ASSUME ~Direct PROVE Slotted(inqueue', index', answered', store', rows', inbox')
  <2>1. PICK q \in Seq(Commands) : q = inqueue /\ q # <<>>
    BY <1>1 DEF QueueInv
  <2>2. Len(q) \in Nat \ {0} /\ Head(q) = q[1] /\ 1 \in DOMAIN q
    BY <2>1, TailIs
  <2>3. Slotted(q, index, answered, store, rows, inbox)
    BY <1>4, <2>1 DEF LossInv
  <2>4. index = NoIndex
    <3>1. CASE answered
      BY <3>1 DEF QueueInv
    <3>2. CASE ~answered
      BY <1>1, <2>1, <2>2, <2>3, <3>2 DEF Slotted, OneRead, DeletesRead
    <3>3. QED
      BY <3>1, <3>2
  <2>5. Released(inqueue, index) = q
    BY <2>1, <2>4 DEF Released
  <2>6. /\ Slotted(Tail(q), index, answered, store, rows, inbox)
        /\ \A k \in DOMAIN Tail(q) : Tail(q)[k].cmd # "CMGR"
    BY <1>1, <2>1, <2>2, <2>3, SlottedTail
  <2>7. PICK t : t = Tail(q)
    OBVIOUS
  <2>8. Slotted(t, NoIndex, FALSE, store, rows, inbox)
    BY <2>4, <2>6, <2>7 DEF Slotted, OneRead
  <2>9. inqueue' = t
    BY <1>2, <2>5, <2>7
  <2>10. QED
    BY <1>1, <1>2, <2>8, <2>9
<1>5. QED
  BY <1>1, <1>2, <1>3, <1>4 DEF LossInv

(* An error costs nothing as long as the message is not deleted for it.    *)
LEMMA LossRefused ==
  ASSUME RefsAreFresh, TablesInv, QueueInv, LossInv, ~harmed', ReadRefused
  PROVE  LossInv'
<1>1. /\ inqueue # <<>> /\ Head(inqueue).cmd = "CMGR" /\ answered = FALSE /\ answered' = FALSE
      /\ ~Autodelete /\ UNCHANGED <<peer, net, store, unacked>>
  BY DEF ReadRefused, On, QueueInv
<1>2. /\ index' = NoIndex /\ inqueue' = Tail(inqueue)
      /\ rows' = rows /\ inbox' = inbox
  BY <1>1, ReadDoneDoes DEF Released
<1>3. AllHere'
  BY <1>1, <1>2 DEF LossInv, AllHere, Sent
<1>4. ASSUME ~Direct PROVE Slotted(inqueue', index', answered', store', rows', inbox')
  <2>1. PICK q \in Seq(Commands) : q = inqueue /\ q # <<>>
    BY <1>1 DEF QueueInv
  <2>2. Len(q) \in Nat \ {0} /\ Head(q) = q[1] /\ 1 \in DOMAIN q
    BY <2>1, TailIs
  <2>3. Slotted(q, index, FALSE, store, rows, inbox)
    BY <1>1, <1>4, <2>1 DEF LossInv
  <2>4. /\ Slotted(Tail(q), index, FALSE, store, rows, inbox)
        /\ \A k \in DOMAIN Tail(q) : Tail(q)[k].cmd # "CMGR"
    BY <1>1, <2>1, <2>2, <2>3, SlottedTail
  <2>5. PICK t : t = Tail(q)
    OBVIOUS
  <2>6. \A k \in DOMAIN store : k # NoIndex
    BY DEF TablesInv, Places, RefsAreFresh, NoIndex
  <2>7. Slotted(t, NoIndex, FALSE, store, rows, inbox)
    BY <2>4, <2>5, <2>6 DEF Slotted, OneRead, DeletesRead
  <2>8. inqueue' = t
    BY <1>2, <2>1, <2>5
  <2>9. QED
    BY <1>1, <1>2, <2>7, <2>8
<1>5. QED
  BY <1>1, <1>2, <1>3, <1>4 DEF LossInv

LEMMA LossDelete ==
  ASSUME RefsAreFresh, TablesInv, QueueInv, LossInv, NEW ok \in BOOLEAN, DeleteDone(ok)
  PROVE  LossInv'
<1>1. PICK d : d = Head(inqueue).idx
  OBVIOUS
<1>2. /\ store' = IF ok THEN Without(store, {d}) ELSE store
      /\ Becomes(Done(Now)) /\ UNCHANGED <<peer, net, unacked, answered>>
      /\ inqueue # <<>> /\ Head(inqueue).cmd = "CMGD"
  BY <1>1 DEF DeleteDone, On
<1>3. rows' = rows /\ inbox' = inbox /\ inqueue' = Tail(inqueue) /\ index' = index
  BY <1>2, DoneNow
<1>4. store' = store \/ (DOMAIN store' = DOMAIN store \ {d} /\ \A y \in DOMAIN store' : store'[y] = store[y])
  <2>1. PICK w : w = Without(store, {d})
    OBVIOUS
  <2>2. DOMAIN w = DOMAIN store \ {d} /\ \A y \in DOMAIN store \ {d} : w[y] = store[y]
    BY <2>1, WithoutIs
  <2>3. store' = store \/ store' = w
    BY <1>2, <2>1
  <2>4. QED
    BY <2>2, <2>3
<1>5. CASE Direct
  <2>1. DOMAIN store = {} /\ DOMAIN store' = {}
    BY <1>4, <1>5 DEF LossInv
  <2>2. \A y \in net \union unacked : Here(net', unacked', store', rows', inbox', y)
    BY <1>2 DEF Here
  <2>3. AllHere'
    BY <1>2, <1>3, <2>1, <2>2, HereKept DEF LossInv
  <2>4. QED
    BY <1>2, <1>3, <1>5, <2>1, <2>3 DEF LossInv
<1>6. CASE ~Direct
  <2>1. PICK q \in Seq(Commands) : q = inqueue /\ q # <<>>
    BY <1>2 DEF QueueInv
  <2>2. Len(q) \in Nat \ {0} /\ Head(q) = q[1] /\ 1 \in DOMAIN q
    BY <2>1, TailIs
  <2>3. Slotted(q, index, answered, store, rows, inbox)
    BY <1>6, <2>1 DEF LossInv
  <2>4. d \in DOMAIN store /\ d # index /\ Have(rows, inbox, Text(store[d]))
    BY <1>1, <1>2, <2>1, <2>2, <2>3 DEF Slotted, DeletesRead
  <2>5. PICK t : t = Tail(q)
    OBVIOUS
  <2>6. /\ Slotted(t, index, answered, store, rows, inbox)
        /\ \A k \in DOMAIN t : t[k].cmd = "CMGD" => t[k].idx # d
    BY <1>1, <1>2, <2>1, <2>2, <2>3, <2>5, SlottedTail
  <2>7. Slotted(t, index, answered, store', rows, inbox)
    <3>1. CASE store' = store
      BY <2>6, <3>1
    <3>2. CASE DOMAIN store' = DOMAIN store \ {d} /\ \A y \in DOMAIN store' : store'[y] = store[y]
      <4>1. PICK s2 : s2 = store'
        OBVIOUS
      <4>2. Slotted(t, index, answered, s2, rows, inbox)
        BY <2>4, <2>6, <3>2, <4>1, SlottedLess
      <4>3. QED
        BY <4>1, <4>2
    <3>3. QED
      BY <1>4, <3>1, <3>2
  <2>8. Slotted(inqueue', index', answered', store', rows', inbox')
    BY <1>2, <1>3, <2>1, <2>5, <2>7
  <2>9. \A y \in net \union unacked : Here(net', unacked', store', rows', inbox', y)
    BY <1>2 DEF Here
  <2>10. \A y \in DOMAIN store : Here(net', unacked', store', rows', inbox', store[y])
    <3>1. TAKE y \in DOMAIN store
    <3>2. CASE y = d
      BY <1>3, <2>4, <3>2 DEF Here
    <3>3. CASE y # d
      BY <1>4, <3>3 DEF Here
    <3>4. QED
      BY <3>2, <3>3
  <2>11. AllHere'
    BY <1>2, <1>3, <2>9, <2>10, HereKept DEF LossInv
  <2>12. QED
    BY <1>2, <1>3, <1>6, <2>8, <2>11 DEF LossInv
<1>7. QED
  BY <1>5, <1>6

(* Only AT+CMGR and AT+CMGD are sent while parts are stored and the link   *)
(* holds.                                                                  *)
LEMMA OnlyReads ==
  ASSUME QueueInv, LossInv, ~Direct, NEW cmd, On(cmd)
  PROVE  cmd \in {"CMGR", "CMGD"}
<1>1. inqueue \in Seq(Commands) /\ inqueue # <<>> /\ Head(inqueue).cmd = cmd
  BY DEF QueueInv, On
<1>2. Len(inqueue) \in Nat \ {0} /\ Head(inqueue) = inqueue[1]
  BY <1>1, TailIs
<1>3. 1 \in DOMAIN inqueue
  BY <1>1, <1>2
<1>4. QED
  BY <1>1, <1>2, <1>3 DEF LossInv, Slotted, OneRead

LEMMA LossNext ==
  ASSUME RefsAreFresh, TablesInv, QueueInv, LossInv, ~harmed', [InNext]_inVars
  PROVE  LossInv'
<1>1. ASSUME NEW p \in Peers, PeerSends(p) PROVE LossInv'
  BY <1>1, LossSend
<1>2. ASSUME NEW x \in net, NEW i \in Slots, Stored(x, i) PROVE LossInv'
  BY <1>2, LossStored
<1>3. ASSUME NEW x \in net, NEW g \in BOOLEAN, NEW h \in BOOLEAN, HandedOver(x, g, h) PROVE LossInv'
  BY <1>3, LossHanded
<1>4. CASE RowsGetOld
  BY <1>4 DEF RowsGetOld
<1>5. CASE ReadDone \/ ReadRefused
  BY <1>5, LossReadDone, LossRefused
<1>6. ASSUME NEW g \in BOOLEAN, NEW h \in BOOLEAN, ReadLine(g, h) PROVE LossInv'
  BY <1>6, LossReadLine
<1>7. ASSUME NEW ok \in BOOLEAN, DeleteDone(ok) PROVE LossInv'
  BY <1>7, LossDelete
<1>8. CASE AckDone
  <2>1. Direct
    <3>1. On("CNMA")
      BY <1>8 DEF AckDone
    <3>2. QED
      BY <3>1, OnlyReads
  <2>2. Becomes(Done(Now)) /\ unacked' = {} /\ UNCHANGED <<peer, net, store>>
    BY <1>8 DEF AckDone
  <2>3. rows' = rows /\ inbox' = inbox
    BY <2>2, DoneNow
  <2>4. \A y \in net \union unacked : Here(net', unacked', store', rows', inbox', y)
    BY <2>2, <2>3 DEF Here, LossInv
  <2>5. \A y \in DOMAIN store : Here(net', unacked', store', rows', inbox', store[y])
    BY <2>2 DEF Here
  <2>6. AllHere'
    BY <2>2, <2>3, <2>4, <2>5, HereKept DEF LossInv
  <2>7. QED
    BY <2>1, <2>2, <2>3, <2>6 DEF LossInv
<1>9. CASE ListDone
  <2>1. Direct
    <3>1. On("CMGL")
      BY <1>9 DEF ListDone
    <3>2. QED
      BY <3>1, OnlyReads
  <2>2. Becomes(Done(Now)) /\ UNCHANGED <<peer, net, store, unacked>>
    BY <1>9 DEF ListDone
  <2>3. rows' = rows /\ inbox' = inbox
    BY <2>2, DoneNow
  <2>4. AllHere'
    BY <2>2, <2>3 DEF LossInv, AllHere, Sent
  <2>5. QED
    BY <2>1, <2>2, <2>3, <2>4 DEF LossInv
<1>10. ASSUME NEW i \in Slots, NEW g \in BOOLEAN, NEW h \in BOOLEAN, ListLine(i, g, h) PROVE LossInv'
  <2>1. On("CMGL") /\ i \in DOMAIN store
    BY <1>10 DEF ListLine, TablesInv, Places
  <2>2. Direct /\ ~Direct
    BY <2>1, OnlyReads DEF LossInv
  <2>3. QED
    BY <2>2
<1>11. CASE Reconnect
  <2>1. Direct /\ net' = net \union unacked /\ unacked' = {} /\ UNCHANGED <<peer, store, rows, inbox>>
    BY <1>11 DEF Reconnect
  <2>2. \A y \in net \union unacked : Here(net', unacked', store', rows', inbox', y)
    BY <2>1 DEF Here
  <2>3. \A y \in DOMAIN store : Here(net', unacked', store', rows', inbox', store[y])
    BY <2>1 DEF Here
  <2>4. AllHere'
    BY <2>1, <2>2, <2>3, HereKept DEF LossInv
  <2>5. QED
    BY <2>1, <2>4 DEF LossInv
<1>12. CASE UNCHANGED inVars
  BY <1>12 DEF inVars, LossInv, AllHere, Sent
<1>13. QED
  BY <1>1, <1>2, <1>3, <1>4, <1>5, <1>6, <1>7, <1>8, <1>9, <1>10, <1>11, <1>12 DEF InNext, Answer

LEMMA AllHereIsKept ==
  ASSUME RefsAreFresh, TablesInv, LossInv
  PROVE  AllKept
<1>0. DOMAIN peer = Peers
  BY DEF TablesInv, PeersOk
<1>1. SUFFICES ASSUME NEW p \in Peers, NEW n \in DOMAIN peer[p].sent,
                      NEW k \in 1 .. Parts, NEW x, x = Part(p, n, peer[p].sent[n], k)
               PROVE  \/ x \in net \union unacked
                      \/ \E i \in DOMAIN store : store[i] = x
                      \/ \E r \in rows : r.text = Text(x)
                      \/ Text(x) \in Assembled
  BY <1>0, Zenon DEF AllKept
<1>2. PICK s \in Seq(0 .. RefMod - 1) : s = peer[p].sent /\ Len(s) <= MaxFromPeer
  BY <1>1 DEF TablesInv, PeersOk, PeerSet, PeerOk
<1>3. n \in 1 .. Len(s) /\ n \in 1 .. MaxFromPeer
  BY <1>2 DEF RefsAreFresh
<1>4. s[n] = Ref(n)
  BY <1>1, <1>2, <1>3 DEF TablesInv, PeersOk, PeerOk
<1>5. <<p, n>> \in Sent
  BY <1>2, <1>3 DEF Sent, SentBy, Messages
<1>6. IsPart(Sent, x)
  BY <1>1, <1>2, <1>3, <1>4, <1>5 DEF IsPart
<1>7. Here(net, unacked, store, rows, inbox, x)
  BY <1>1, <1>6 DEF LossInv, AllHere
<1>8. ASSUME NEW m \in inbox, NEW i \in 1 .. Len(m), m[i] = Text(x) PROVE Text(x) \in Assembled
  <2>1. PICK A : A = {m[j] : j \in 1 .. Len(m)}
    OBVIOUS
  <2>2. m[i] \in A
    BY <2>1
  <2>3. A \in {{e[j] : j \in 1 .. Len(e)} : e \in inbox}
    BY <2>1
  <2>4. m[i] \in UNION {{e[j] : j \in 1 .. Len(e)} : e \in inbox}
    BY <2>2, <2>3, Zenon
  <2>5. QED
    BY <1>8, <2>4, Zenon DEF Assembled
<1>9. QED
  BY <1>7, <1>8 DEF Here, Have

-----------------------------------------------------------------------------
(* What has been harmed stays so.                                          *)
HarmedOk == harmed \in BOOLEAN

KeptInv == ~harmed => LossInv

LEMMA HarmedStays ==
  ASSUME [InNext]_inVars, harmed
  PROVE  harmed'
<1>1. CASE UNCHANGED inVars
  BY <1>1 DEF inVars
<1>2. CASE InNext
  BY <1>2, Zenon DEF InNext, Answer, PeerSends, Stored, HandedOver, RowsGetOld, ReadLine, ReadDone,
     ReadRefused, DeleteDone, AckDone, ListLine, ListDone, Reconnect
<1>3. QED
  BY <1>1, <1>2

LEMMA HarmedNext ==
  ASSUME [InNext]_inVars, HarmedOk
  PROVE  HarmedOk'
<1>1. CASE UNCHANGED inVars
  BY <1>1 DEF inVars, HarmedOk
<1>2. CASE InNext
  BY <1>2, Zenon DEF HarmedOk, InNext, Answer, PeerSends, Stored, HandedOver, RowsGetOld, ReadLine,
     ReadDone, ReadRefused, DeleteDone, AckDone, ListLine, ListDone, Reconnect
<1>3. QED
  BY <1>1, <1>2

LEMMA HarmedAlways == InSpec => []HarmedOk
<1>1. InInit => HarmedOk
  BY DEF InInit, HarmedOk
<1>2. HarmedOk /\ [InNext]_inVars => HarmedOk'
  BY HarmedNext
<1>3. QED
  BY <1>1, <1>2, PTL DEF InSpec

(* The types of the model of receiving hold; the rows are never more than  *)
(* the table has room for (smsdb_put).                                     *)
THEOREM ReceivingTypes ==
  ASSUME RefsAreFresh
  PROVE  InSpec => []InTypeOK
<1>1. TablesInv /\ QueueInv /\ HarmedOk => InTypeOK
  BY DEF TablesInv, PeersOk, PeerSet, Places, Genuine, QueueInv, InTypeOK, Commands, Codes,
     HarmedOk
<1>2. InSpec => []TablesInv
  BY TablesAlways
<1>3. QED
  BY <1>1, <1>2, QueueAlways, HarmedAlways, PTL

LEMMA KeptNext ==
  ASSUME RefsAreFresh, TablesInv, QueueInv, KeptInv, [InNext]_inVars
  PROVE  KeptInv'
<1>1. SUFFICES ASSUME ~harmed' PROVE LossInv'
  BY Zenon DEF KeptInv
<1>2. ~harmed
  BY <1>1, HarmedStays
<1>3. LossInv
  BY <1>2 DEF KeptInv
<1>4. QED
  BY <1>1, <1>3, LossNext

LEMMA KeptAlways ==
  ASSUME RefsAreFresh
  PROVE  InSpec => []KeptInv
<1>1. InInit => KeptInv
  BY LossInit DEF KeptInv
<1>2. TablesInv /\ QueueInv /\ KeptInv /\ [InNext]_inVars => KeptInv'
  BY KeptNext
<1>3. InSpec => []TablesInv
  BY TablesAlways
<1>4. QED
  BY <1>1, <1>2, <1>3, QueueAlways, PTL DEF InSpec

(* Until a line is unreadable, a row expires, a part finds the table full  *)
(* or BEGIN refused, AT+CMGR is refused for a message that autodeletesms   *)
(* deletes or, with messages read from the store, a session ends, no part  *)
(* is lost between the network and the dialplan: handed over, not even     *)
(* when links are lost at any moment (AT+CNMA follows smsdb_put); read     *)
(* from the store, each slot is deleted once and after its part was put    *)
(* (AT+CMGD follows smsdb_put).                                            *)
THEOREM NoPartIsLost ==
  ASSUME RefsAreFresh
  PROVE  InSpec => []NothingLost
<1>1. TablesInv /\ KeptInv => NothingLost
  BY AllHereIsKept DEF KeptInv, NothingLost
<1>2. InSpec => []TablesInv
  BY TablesAlways
<1>3. InSpec => []KeptInv
  BY KeptAlways
<1>4. QED
  BY <1>1, <1>2, <1>3, PTL

-----------------------------------------------------------------------------
(* A part that has been sent finds room, and nothing is harmed.            *)
Unharmed == ~harmed

LEMMA RoomForAll ==
  ASSUME RefsAreFresh, RowsEnough, Reliable, TablesInv, LossInv, NEW x, IsPart(Sent, x),
         NEW g \in BOOLEAN, NEW h \in BOOLEAN, MayFare(g, h)
  PROVE  ~Costly(x, g, h)
<1>1. {r \in rows : ~r.old} = rows
  BY DEF LossInv
<1>2. Sent \subseteq Messages /\ RowsOk(Sent, rows)
  BY DEF Sent, SentBy, TablesInv, Genuine
<1>3. PICK G : G = Sent
  OBVIOUS
<1>4. Cardinality(rows) >= Capacity => \E z \in rows : z.text = Text(x)
  BY <1>2, <1>3, FullHasAll
<1>5. ~NotPut(x, h)
  BY <1>1, <1>4 DEF NotPut, MayFare, Reliable
<1>6. QED
  BY <1>5 DEF Costly, MayFare, Reliable

LEMMA UnharmedNext ==
  ASSUME RefsAreFresh, RowsEnough, Reliable, TablesInv, KeptInv, Unharmed, [InNext]_inVars
  PROVE  Unharmed'
<1>1. LossInv
  BY DEF KeptInv, Unharmed
<1>2. ASSUME NEW x, IsPart(Sent, x), NEW g \in BOOLEAN, NEW h \in BOOLEAN, MayFare(g, h),
             harmed' = (harmed \/ Costly(x, g, h))
      PROVE  Unharmed'
  <2>1. ~Costly(x, g, h)
    BY <1>1, <1>2, RoomForAll
  <2>2. QED
    BY <1>2, <2>1 DEF Unharmed
<1>3. ASSUME NEW x \in net, NEW g \in BOOLEAN, NEW h \in BOOLEAN, HandedOver(x, g, h) PROVE Unharmed'
  <2>1. IsPart(Sent, x)
    BY DEF TablesInv, Genuine
  <2>2. QED
    BY <1>2, <1>3, <2>1 DEF HandedOver
<1>4. ASSUME NEW g \in BOOLEAN, NEW h \in BOOLEAN, ReadLine(g, h) PROVE Unharmed'
  <2>1. PICK x : x = store[Head(inqueue).idx]
    OBVIOUS
  <2>2. IsPart(Sent, x)
    BY <1>4, <2>1 DEF ReadLine, TablesInv, Genuine
  <2>3. MayFare(g, h) /\ harmed' = (harmed \/ Costly(x, g, h))
    BY <1>4, <2>1 DEF ReadLine
  <2>4. QED
    BY <1>2, <2>2, <2>3
<1>5. ASSUME NEW i \in Slots, NEW g \in BOOLEAN, NEW h \in BOOLEAN, ListLine(i, g, h) PROVE Unharmed'
  <2>1. PICK x : x = store[i]
    OBVIOUS
  <2>2. IsPart(Sent, x)
    BY <1>5, <2>1 DEF ListLine, TablesInv, Genuine, Places
  <2>3. MayFare(g, h) /\ harmed' = (harmed \/ Costly(x, g, h))
    BY <1>5, <2>1 DEF ListLine
  <2>4. QED
    BY <1>2, <2>2, <2>3
<1>6. CASE RowsGetOld
  BY <1>6 DEF RowsGetOld, Reliable
<1>7. CASE Reconnect
  BY <1>7 DEF Reconnect, Reliable, Unharmed
<1>8. CASE harmed' = harmed
  BY <1>8 DEF Unharmed
<1>10. ~ReadRefused
  BY DEF ReadRefused, Reliable
<1>11. QED
  BY <1>3, <1>4, <1>5, <1>6, <1>7, <1>8, <1>10
     DEF InNext, Answer, inVars, PeerSends, Stored, ReadDone, DeleteDone, AckDone, ListDone

(* While no line is unreadable, no row expires and nothing is refused,     *)
(* with rows enough for what is sent, every part stays on its way, stored, *)
(* in the database or assembled, forever: handed over, out of any number   *)
(* of lost links; read from the store, as long as the session holds.       *)
THEOREM ReliableKeepsAll ==
  ASSUME RefsAreFresh, RowsEnough, Reliable
  PROVE  InSpec => []AllKept
<1>1. TablesInv /\ KeptInv /\ Unharmed => AllKept
  BY AllHereIsKept DEF KeptInv, Unharmed
<1>2. InInit => Unharmed
  BY DEF InInit, Unharmed
<1>3. TablesInv /\ KeptInv /\ Unharmed /\ [InNext]_inVars => Unharmed'
  BY UnharmedNext
<1>4. InSpec => []TablesInv
  BY TablesAlways
<1>5. InSpec => []KeptInv
  BY KeptAlways
<1>6. QED
  BY <1>1, <1>2, <1>3, <1>4, <1>5, PTL DEF InSpec
=============================================================================
