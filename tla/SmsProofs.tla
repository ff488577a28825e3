------------------------------ MODULE SmsProofs ------------------------------
(***************************************************************************)
(* Messages, for any number of them, any destinations and any number of    *)
(* parts, and the transactions of any number of threads.                   *)
(***************************************************************************)
EXTENDS SmsOut, SmsTx, FiniteSetTheorems, SequenceTheorems, TLAPS

-----------------------------------------------------------------------------
(* Sending: the inductive invariant.                                       *)

(* What is still in the table, or was never sent, the dialplan has not     *)
(* heard of.                                                               *)
Untold == \A u \in Uids : u > db.last \/ u \in DOMAIN db.msgs => told[u] = <<>>

(* The parts a task has still to send are not sent, and no two tasks send  *)
(* the same message.                                                       *)
TasksAhead ==
  /\ \A i \in DOMAIN queue :
       /\ queue[i].uid <= db.last /\ queue[i].left <= mail[queue[i].uid].cnt
       /\ sent[queue[i].uid] \subseteq 1 .. mail[queue[i].uid].cnt - queue[i].left
  /\ \A i, j \in DOMAIN queue : queue[i].uid = queue[j].uid => i = j

(* Every part in the table was sent, and a message is in it as it was      *)
(* asked for.                                                              *)
RowsTrue ==
  /\ \A u \in DOMAIN db.msgs : db.msgs[u].cnt = mail[u].cnt
  /\ \A u \in 1 .. db.last :
       /\ sent[u] \subseteq 1 .. mail[u].cnt
       /\ IsFiniteSet(PartsOf(db, u))
       /\ Cardinality(PartsOf(db, u)) <= Cardinality(sent[u])
  /\ \A u \in Uids : u > db.last => sent[u] = {}

(* Reference b was given out k references after a; the first reference of  *)
(* a new row is one ahead of the row.                                      *)
After(a, k, new, b) ==
  \E q \in Int : a + k = b + (IF new THEN 1 ELSE 0) + q * RefMod

(* Message m, and row r of its destination.                                *)
UpTo(m, r) ==
  /\ r.row # NoRow /\ m.nth <= r.given
  /\ After(m.ref, r.given - m.nth, m.new, r.row)

(* Message m, and a later one n to the same destination.                   *)
Later(m, n) ==
  /\ m.nth < n.nth
  /\ After(m.ref, n.nth - m.nth, m.new, n.ref)

(* The references given out for a destination since message u.             *)
RefsAhead ==
  /\ \A u \in 1 .. db.last : UpTo(mail[u], ref[mail[u].dst])
  /\ \A u, v \in 1 .. db.last : u < v /\ mail[u].dst = mail[v].dst => Later(mail[u], mail[v])

IInv == TypeOK /\ Untold /\ ToldOnce /\ PartsBelong /\ TasksAhead /\ RowsTrue /\ SentIsTrue

-----------------------------------------------------------------------------
(* The tables.                                                             *)

(* A message is taken out with its parts.                                  *)
LEMMA ClearDb ==
  ASSUME NEW d, IsDb(d), NEW uid, NEW c, c = outgoing_clear(d, uid)
  PROVE  /\ IsDb(c) /\ c.last = d.last
         /\ DOMAIN c.msgs = DOMAIN d.msgs \ {uid}
         /\ \A u \in DOMAIN c.msgs : c.msgs[u] = d.msgs[u]
         /\ DOMAIN c.parts = DOMAIN d.parts \ PartsOf(d, uid)
         /\ \A k \in DOMAIN c.parts : c.parts[k] = d.parts[k]
<1> DEFINE m == Without(d.msgs, {uid})
           p == Without(d.parts, PartsOf(d, uid))
<1>1. c = [last |-> d.last, msgs |-> m, parts |-> p]
  <2>1. c = [d EXCEPT !.msgs = m, !.parts = p]
    BY DEF outgoing_clear
  <2>2. d = [last |-> d.last, msgs |-> d.msgs, parts |-> d.parts]
    BY DEF IsDb
  <2> HIDE DEF m, p
  <2> QED BY <2>1, <2>2
<1>2. DOMAIN m = DOMAIN d.msgs \ {uid} /\ \A u \in DOMAIN m : m[u] = d.msgs[u]
  BY DEF Without
<1>3. DOMAIN p = DOMAIN d.parts \ PartsOf(d, uid) /\ \A k \in DOMAIN p : p[k] = d.parts[k]
  BY DEF Without
<1> HIDE DEF m, p
<1>4. c.last = d.last /\ c.msgs = m /\ c.parts = p
  BY <1>1
<1>5. IsDb(c)
  <2>1. DOMAIN c.msgs \subseteq 1 .. c.last /\ \A u \in DOMAIN c.msgs : c.msgs[u] \in Message
    BY <1>2, <1>4 DEF IsDb
  <2>2. DOMAIN c.parts \subseteq Dsts \X (0 .. MrMod - 1)
    BY <1>3, <1>4 DEF IsDb
  <2>3. \A k \in DOMAIN c.parts : c.parts[k] \in Row
    BY <1>3, <1>4 DEF IsDb
  <2> QED BY <1>1, <1>4, <2>1, <2>2, <2>3 DEF IsDb
<1> QED BY <1>2, <1>3, <1>4, <1>5

WithRow(d, k, r) == [d EXCEPT !.parts = Set(@, k, r)]

(* The tables with a part of message uid under reference k.                *)
WithPart(d, k, uid) == WithRow(d, k, [uid |-> uid, st |-> None])

(* A row of outgoing_part is written.                                      *)
LEMMA PutDb ==
  ASSUME NEW d, IsDb(d), NEW k \in Dsts \X (0 .. MrMod - 1), NEW r \in Row,
         NEW c, c = WithRow(d, k, r)
  PROVE  /\ IsDb(c) /\ c.last = d.last /\ c.msgs = d.msgs
         /\ DOMAIN c.parts = DOMAIN d.parts \union {k}
         /\ c.parts[k] = r /\ \A j \in DOMAIN d.parts \ {k} : c.parts[j] = d.parts[j]
<1> DEFINE p == Set(d.parts, k, r)
<1>1. c = [last |-> d.last, msgs |-> d.msgs, parts |-> p]
  <2>1. c = [d EXCEPT !.parts = p]
    BY DEF WithRow
  <2>2. d = [last |-> d.last, msgs |-> d.msgs, parts |-> d.parts]
    BY DEF IsDb
  <2> HIDE DEF p
  <2> QED BY <2>1, <2>2
<1>2. /\ DOMAIN p = DOMAIN d.parts \union {k}
      /\ p[k] = r /\ \A j \in DOMAIN d.parts \ {k} : p[j] = d.parts[j]
  BY DEF Set
<1> HIDE DEF p
<1>3. c.last = d.last /\ c.msgs = d.msgs /\ c.parts = p
  BY <1>1
<1>4. IsDb(c)
  <2>1. DOMAIN c.parts \subseteq Dsts \X (0 .. MrMod - 1)
    BY <1>2, <1>3 DEF IsDb
  <2>2. \A j \in DOMAIN c.parts : c.parts[j] \in Row
    BY <1>2, <1>3 DEF IsDb
  <2> QED BY <1>1, <1>3, <2>1, <2>2 DEF IsDb
<1> QED BY <1>2, <1>3, <1>4

-----------------------------------------------------------------------------
(* Steps that take messages out of the tables, and tell of them.           *)

TablesTrimmed ==
  /\ IsDb(db') /\ db'.last = db.last
  /\ DOMAIN db'.msgs \subseteq DOMAIN db.msgs
  /\ \A u \in DOMAIN db'.msgs : db'.msgs[u].cnt = db.msgs[u].cnt
  /\ PartsBelong'
  /\ \A u \in Uids : PartsOf(db', u) \subseteq PartsOf(db, u)

TellsOf(what) ==
  \E uid \in DOMAIN db.msgs : uid \notin DOMAIN db'.msgs /\ Tell(uid, what)

(* Clearing a message trims the tables.                                    *)
LEMMA ClearTrims ==
  ASSUME IInv, NEW uid, db' = outgoing_clear(db, uid)
  PROVE  TablesTrimmed /\ uid \notin DOMAIN db'.msgs
<1>1. /\ IsDb(db') /\ db'.last = db.last
      /\ DOMAIN db'.msgs = DOMAIN db.msgs \ {uid}
      /\ \A u \in DOMAIN db'.msgs : db'.msgs[u] = db.msgs[u]
      /\ DOMAIN db'.parts = DOMAIN db.parts \ PartsOf(db, uid)
      /\ \A k \in DOMAIN db'.parts : db'.parts[k] = db.parts[k]
  BY ClearDb DEF IInv, TypeOK
<1>2. PartsBelong'
  BY <1>1 DEF IInv, PartsBelong, PartsOf
<1>3. \A u \in Uids : PartsOf(db', u) \subseteq PartsOf(db, u)
  BY <1>1 DEF PartsOf
<1> QED BY <1>1, <1>2, <1>3 DEF TablesTrimmed

(* A message that is told of and taken out is told of once.                *)
LEMMA ToldKept ==
  ASSUME IInv, db'.last = db.last, DOMAIN db'.msgs \subseteq DOMAIN db.msgs,
         NEW what \in Ends, UNCHANGED told \/ TellsOf(what)
  PROVE  /\ Untold' /\ ToldOnce' /\ told' \in [Uids -> Seq(Ends)]
         /\ \A u \in Uids : told'[u] = told[u] \/ told'[u] = <<what>>
<1>1. told \in [Uids -> Seq(Ends)] /\ db.last \in 0 .. MaxMessages /\ MaxMessages \in Nat
      /\ DOMAIN db.msgs \subseteq Uids
  BY OutAssumption DEF IInv, TypeOK, IsDb, Uids
<1>2. CASE UNCHANGED told
  BY <1>1, <1>2 DEF IInv, Untold, ToldOnce, Uids
<1>3. CASE TellsOf(what)
  <2>1. PICK uid \in DOMAIN db.msgs : uid \notin DOMAIN db'.msgs /\ Tell(uid, what)
    BY <1>3 DEF TellsOf
  <2>2. uid \in Uids /\ told[uid] = <<>>
    BY <1>1 DEF IInv, Untold
  <2>3. Append(<<>>, what) = <<what>> /\ <<what>> \in Seq(Ends) /\ Len(<<what>>) = 1
    OBVIOUS
  <2>4. told' = [told EXCEPT ![uid] = <<what>>]
    BY <2>1, <2>2, <2>3 DEF Tell
  <2>5. told'[uid] = <<what>> /\ \A u \in Uids \ {uid} : told'[u] = told[u]
    BY <1>1, <2>2, <2>4
  <2>6. told' \in [Uids -> Seq(Ends)]
    BY <1>1, <2>2, <2>3, <2>4
  <2>7. ~(uid > db.last)
    <3>1. uid \in 1 .. db.last
      BY DEF IInv, TypeOK, IsDb
    <3> QED BY <1>1, <3>1
  <2>8. Untold'
    BY <2>1, <2>5, <2>7 DEF IInv, Untold, Uids
  <2>9. ToldOnce'
    <3>1. \A u \in Uids : Len(told[u]) <= 1
      BY DEF IInv, ToldOnce
    <3>2. Len(told'[uid]) <= 1
      BY <2>3, <2>5
    <3>3. \A u \in Uids : Len(told'[u]) <= 1
      BY <2>5, <3>1, <3>2
    <3> QED BY <3>3 DEF ToldOnce, Uids
  <2> QED BY <2>5, <2>6, <2>8, <2>9
<1> QED BY <1>2, <1>3

(* Dropping tasks keeps what is said of them.                              *)
LEMMA TasksDropped ==
  ASSUME IInv, queue' \in {queue, <<>>} \/ (queue # <<>> /\ queue' = Tail(queue)),
         db'.last = db.last, UNCHANGED <<mail, sent>>
  PROVE  TasksAhead' /\ queue' \in Seq(Task)
<1>1. queue \in Seq(Task)
  BY DEF IInv, TypeOK
<1>2. CASE queue' = queue
  BY <1>1, <1>2 DEF IInv, TasksAhead
<1>3. CASE queue' = <<>>
  <2>1. DOMAIN queue' = {} /\ queue' \in Seq(Task)
    BY <1>3
  <2> QED BY <2>1 DEF TasksAhead
<1>4. CASE queue # <<>> /\ queue' = Tail(queue)
  <2>1. /\ queue' \in Seq(Task) /\ Len(queue) \in Nat /\ DOMAIN queue = 1 .. Len(queue)
        /\ DOMAIN queue' = 1 .. Len(queue) - 1
        /\ \A i \in 1 .. Len(queue) - 1 : queue'[i] = queue[i + 1]
    BY <1>1, <1>4, HeadTailProperties
  <2>2. \A i \in DOMAIN queue' : i \in Nat /\ i + 1 \in DOMAIN queue /\ queue'[i] = queue[i + 1]
    BY <2>1
  <2>3. \A i \in DOMAIN queue' :
          /\ queue'[i].uid <= db'.last /\ queue'[i].left <= mail'[queue'[i].uid].cnt
          /\ sent'[queue'[i].uid] \subseteq 1 .. mail'[queue'[i].uid].cnt - queue'[i].left
    BY <2>2 DEF IInv, TasksAhead
  <2>4. \A i, j \in DOMAIN queue' : queue'[i].uid = queue'[j].uid => i + 1 = j + 1
    BY <2>2 DEF IInv, TasksAhead
  <2>5. \A i, j \in DOMAIN queue' : queue'[i].uid = queue'[j].uid => i = j
    BY <2>2, <2>4
  <2> QED BY <2>1, <2>3, <2>5 DEF TasksAhead
<1> QED BY <1>2, <1>3, <1>4

(* With fewer rows every row is still of a part that was sent.             *)
LEMMA RowsKept ==
  ASSUME IInv, TablesTrimmed, UNCHANGED <<mail, sent>>
  PROVE  RowsTrue'
<1>1. db.last \in 0 .. MaxMessages /\ MaxMessages \in Nat /\ sent \in [Uids -> SUBSET (1 .. MaxParts)]
  BY OutAssumption DEF IInv, TypeOK, IsDb
<1>2. ASSUME NEW u \in 1 .. db.last
      PROVE  /\ IsFiniteSet(PartsOf(db', u))
             /\ Cardinality(PartsOf(db', u)) <= Cardinality(sent[u])
  <2>1. u \in Uids
    BY <1>1 DEF Uids
  <2>2. /\ IsFiniteSet(PartsOf(db, u)) /\ Cardinality(PartsOf(db, u)) <= Cardinality(sent[u])
        /\ PartsOf(db', u) \subseteq PartsOf(db, u)
    BY <2>1 DEF IInv, RowsTrue, TablesTrimmed
  <2>3. IsFiniteSet(sent[u])
    <3>1. sent[u] \subseteq 1 .. MaxParts
      BY <1>1, <2>1
    <3>2. IsFiniteSet(1 .. MaxParts)
      BY FS_Interval, OutAssumption
    <3> QED BY <3>1, <3>2, FS_Subset
  <2>4. IsFiniteSet(PartsOf(db', u)) /\ Cardinality(PartsOf(db', u)) <= Cardinality(PartsOf(db, u))
    BY <2>2, FS_Subset
  <2>5. /\ Cardinality(PartsOf(db', u)) \in Nat /\ Cardinality(PartsOf(db, u)) \in Nat
        /\ Cardinality(sent[u]) \in Nat
    BY <2>2, <2>3, <2>4, FS_CardinalityType
  <2> QED BY <2>2, <2>4, <2>5
<1>3. \A u \in DOMAIN db'.msgs : db'.msgs[u].cnt = mail[u].cnt
  BY DEF IInv, RowsTrue, TablesTrimmed
<1>4. \A u \in 1 .. db.last : sent[u] \subseteq 1 .. mail[u].cnt
  BY DEF IInv, RowsTrue
<1>5. \A u \in Uids : u > db.last => sent[u] = {}
  BY DEF IInv, RowsTrue
<1>6. db'.last = db.last
  BY DEF TablesTrimmed
<1> HIDE DEF PartsOf
<1>7. (\A u \in DOMAIN db.msgs : db.msgs[u].cnt = mail[u].cnt)'
  BY <1>3
<1>8. (\A u \in 1 .. db.last : /\ sent[u] \subseteq 1 .. mail[u].cnt
                               /\ IsFiniteSet(PartsOf(db, u))
                               /\ Cardinality(PartsOf(db, u)) <= Cardinality(sent[u]))'
  BY <1>2, <1>4, <1>6
<1>9. (\A u \in Uids : u > db.last => sent[u] = {})'
  BY <1>5, <1>6 DEF Uids
<1> QED BY <1>7, <1>8, <1>9 DEF RowsTrue

(* Together: a step of this kind keeps the invariant.                      *)
LEMMA TrimInv ==
  ASSUME IInv, TablesTrimmed, UNCHANGED <<ref, mail, mr, sent>>,
         queue' \in {queue, <<>>} \/ (queue # <<>> /\ queue' = Tail(queue)),
         air' \subseteq Flying, final' \in [Uids -> SUBSET (1 .. MaxParts)],
         NEW what \in Ends \ {"sent"}, UNCHANGED told \/ TellsOf(what)
  PROVE  IInv'
<1>1. /\ Untold' /\ ToldOnce' /\ told' \in [Uids -> Seq(Ends)]
      /\ \A u \in Uids : told'[u] = told[u] \/ told'[u] = <<what>>
  BY ToldKept DEF TablesTrimmed
<1>2. TasksAhead' /\ queue' \in Seq(Task)
  BY TasksDropped DEF TablesTrimmed
<1>3. RowsTrue'
  BY RowsKept
<1>4. db'.last = db.last /\ IsDb(db') /\ PartsBelong'
  BY DEF TablesTrimmed
<1>5. Uids' = Uids /\ Task' = Task /\ Flying' = Flying /\ Asked' = Asked
  BY DEF Uids, Task, Flying, Asked
<1>6. TypeOK'
  BY <1>1, <1>2, <1>4, <1>5 DEF IInv, TypeOK
<1>7. SentIsTrue'
  <2>1. <<what>> # <<"sent">>
    OBVIOUS
  <2>2. \A u \in 1 .. db.last : u \in Uids
    BY OutAssumption DEF IInv, TypeOK, IsDb, Uids
  <2>3. \A u \in 1 .. db.last : told'[u] = <<"sent">> => told[u] = <<"sent">>
    BY <1>1, <2>1, <2>2
  <2>4. \A u \in 1 .. db.last : told[u] = <<"sent">> => sent[u] = 1 .. mail[u].cnt
    BY DEF IInv, SentIsTrue
  <2>5. \A u \in 1 .. db.last : told'[u] = <<"sent">> => sent[u] = 1 .. mail[u].cnt
    BY <2>3, <2>4
  <2> QED BY <1>4, <2>5 DEF SentIsTrue
<1> QED BY <1>1, <1>2, <1>3, <1>4, <1>6, <1>7 DEF IInv

WithStatus(d, k, st) == [d EXCEPT !.parts[k].st = st]

(* A report sets the status of a part.                                     *)
LEMMA StatusDb ==
  ASSUME NEW d, IsDb(d), NEW k \in DOMAIN d.parts, NEW st \in Reports,
         NEW c, c = WithStatus(d, k, st)
  PROVE  /\ IsDb(c) /\ c.last = d.last /\ c.msgs = d.msgs
         /\ DOMAIN c.parts = DOMAIN d.parts
         /\ \A j \in DOMAIN d.parts : c.parts[j].uid = d.parts[j].uid
<1> DEFINE p == [d.parts EXCEPT ![k].st = st]
<1>1. c = [last |-> d.last, msgs |-> d.msgs, parts |-> p]
  <2>1. c = [d EXCEPT !.parts = p]
    BY DEF WithStatus
  <2>2. d = [last |-> d.last, msgs |-> d.msgs, parts |-> d.parts]
    BY DEF IsDb
  <2> HIDE DEF p
  <2> QED BY <2>1, <2>2
<1>2. \A j \in DOMAIN d.parts : d.parts[j] \in Row
  BY DEF IsDb
<1>3. /\ DOMAIN p = DOMAIN d.parts
      /\ p[k] = [d.parts[k] EXCEPT !.st = st] /\ \A j \in DOMAIN d.parts \ {k} : p[j] = d.parts[j]
  OBVIOUS
<1> HIDE DEF p
<1>4. p[k] \in Row /\ p[k].uid = d.parts[k].uid
  BY <1>2, <1>3 DEF Row
<1>5. c.last = d.last /\ c.msgs = d.msgs /\ c.parts = p
  BY <1>1
<1>6. IsDb(c)
  <2>1. DOMAIN c.parts \subseteq Dsts \X (0 .. MrMod - 1)
    BY <1>3, <1>5 DEF IsDb
  <2>2. \A j \in DOMAIN c.parts : c.parts[j] \in Row
    BY <1>2, <1>3, <1>4, <1>5
  <2> QED BY <1>1, <1>5, <2>1, <2>2 DEF IsDb
<1>7. \A j \in DOMAIN d.parts : c.parts[j].uid = d.parts[j].uid
  BY <1>3, <1>4, <1>5
<1> QED BY <1>3, <1>5, <1>6, <1>7

(* Tables that stay as they are count as trimmed.                          *)
LEMMA SameTrims ==
  ASSUME IInv, UNCHANGED db
  PROVE  TablesTrimmed
BY DEF IInv, TypeOK, TablesTrimmed, PartsBelong, PartsOf

(* AT+CMGS or the text is refused, or the session ends, or a report is     *)
(* lost.                                                                   *)
LEMMA GivesUpInv ==
  ASSUME IInv, at_response_cmgs_error \/ Disconnect \/ (\E a \in air : Lost(a))
  PROVE  IInv'
<1>1. air \subseteq Flying /\ final \in [Uids -> SUBSET (1 .. MaxParts)]
  BY DEF IInv, TypeOK
<1>2. "error" \in Ends \ {"sent"}
  BY DEF Ends
<1>3. CASE at_response_cmgs_error
  <2> DEFINE uid == queue[1].uid
  <2>1. /\ queue # <<>> /\ queue' = Tail(queue)
        /\ UNCHANGED <<ref, mail, mr, air, sent, final>>
        /\ \/ uid \in DOMAIN db.msgs /\ db' = outgoing_clear(db, uid) /\ Tell(uid, "error")
           \/ UNCHANGED <<db, told>>
    BY <1>3 DEF at_response_cmgs_error
  <2>2. CASE uid \in DOMAIN db.msgs /\ db' = outgoing_clear(db, uid) /\ Tell(uid, "error")
    <3>1. TablesTrimmed /\ uid \notin DOMAIN db'.msgs
      BY <2>2, ClearTrims
    <3>2. TellsOf("error")
      BY <2>2, <3>1 DEF TellsOf
    <3> QED BY <1>1, <1>2, <2>1, <3>1, <3>2, TrimInv
  <2>3. CASE UNCHANGED <<db, told>>
    BY <1>1, <1>2, <2>1, <2>3, SameTrims, TrimInv
  <2> QED BY <2>1, <2>2, <2>3
<1>4. CASE Disconnect
  BY <1>1, <1>2, <1>4, SameTrims, TrimInv DEF Disconnect
<1>5. ASSUME NEW a \in air, Lost(a)
      PROVE  IInv'
  <2>1. air' \subseteq Flying
    BY <1>1, <1>5 DEF Lost
  <2> QED BY <1>1, <1>2, <1>5, <2>1, SameTrims, TrimInv DEF Lost
<1> QED BY <1>3, <1>4, <1>5

(* A status report: the row is set, and with the last one the message goes. *)
LEMMA ReportInv ==
  ASSUME IInv, NEW a \in air, NEW st \in Reports, StatusReport(a, st)
  PROVE  IInv'
<1> DEFINE key == <<a.dst, a.mr>>
           uid == db.parts[key].uid
           set == WithStatus(db, key, st)
<1>1. air' \subseteq Flying /\ final' \in [Uids -> SUBSET (1 .. MaxParts)]
  <2>1. a.uid \in Uids /\ a.part \in 1 .. MaxParts /\ air \subseteq Flying
    BY DEF IInv, TypeOK, Flying
  <2>2. air' \in {air, air \ {a}}
    BY DEF StatusReport
  <2>3. final' \in {final, [final EXCEPT ![a.uid] = @ \union {a.part}]}
    BY DEF StatusReport
  <2>4. final \in [Uids -> SUBSET (1 .. MaxParts)]
    BY DEF IInv, TypeOK
  <2>5. final' \in [Uids -> SUBSET (1 .. MaxParts)]
    BY <2>1, <2>3, <2>4
  <2> QED BY <2>1, <2>2, <2>5
<1>2. UNCHANGED <<ref, mail, queue, mr, sent>>
  BY DEF StatusReport
<1>3. "status" \in Ends \ {"sent"}
  BY DEF Ends
<1>4. \/ db' = db /\ UNCHANGED told
      \/ /\ key \in DOMAIN db.parts
         /\ \/ db' = set /\ UNCHANGED told
            \/ uid \in DOMAIN db.msgs /\ db' = outgoing_clear(set, uid) /\ Tell(uid, "status")
  <2> DEFINE r == smsdb_outgoing_part_status(db, a.dst, a.mr, st)
  <2>1. db' = r.db /\ (IF r.res = 0 THEN Tell(r.uid, "status") ELSE UNCHANGED told)
    BY DEF StatusReport
  <2>2. \/ r = [db |-> db, res |-> -1, uid |-> 0]
        \/ /\ key \in DOMAIN db.parts
           /\ \/ uid \in DOMAIN db.msgs /\ r = [db |-> outgoing_clear(set, uid), res |-> 0, uid |-> uid]
              \/ r = [db |-> set, res |-> -1, uid |-> uid]
    BY DEF smsdb_outgoing_part_status, WithStatus
  <2> HIDE DEF r, key, uid, set
  <2> QED BY <2>1, <2>2
<1>5. CASE db' = db /\ UNCHANGED told
  BY <1>1, <1>2, <1>3, <1>5, SameTrims, TrimInv
<1>6. ASSUME key \in DOMAIN db.parts
      PROVE  /\ IsDb(set) /\ set.last = db.last /\ set.msgs = db.msgs
             /\ DOMAIN set.parts = DOMAIN db.parts
             /\ \A j \in DOMAIN db.parts : set.parts[j].uid = db.parts[j].uid
  <2>1. IsDb(db)
    BY DEF IInv, TypeOK
  <2> HIDE DEF key
  <2> QED BY <1>6, <2>1, StatusDb
<1> HIDE DEF key, uid, set
<1>7. CASE key \in DOMAIN db.parts /\ db' = set /\ UNCHANGED told
  <2>1. TablesTrimmed
    BY <1>6, <1>7 DEF IInv, TablesTrimmed, PartsBelong, PartsOf
  <2> QED BY <1>1, <1>2, <1>3, <1>7, <2>1, TrimInv
<1>8. CASE /\ key \in DOMAIN db.parts /\ uid \in DOMAIN db.msgs
           /\ db' = outgoing_clear(set, uid) /\ Tell(uid, "status")
  <2>1. /\ IsDb(db') /\ db'.last = db.last
        /\ DOMAIN db'.msgs = DOMAIN db.msgs \ {uid}
        /\ \A u \in DOMAIN db'.msgs : db'.msgs[u] = db.msgs[u]
        /\ DOMAIN db'.parts = DOMAIN db.parts \ PartsOf(set, uid)
        /\ \A k \in DOMAIN db'.parts : db'.parts[k] = set.parts[k]
    BY <1>6, <1>8, ClearDb
  <2>2. PartsOf(set, uid) = PartsOf(db, uid)
    BY <1>6, <1>8 DEF PartsOf
  <2>3. \A k \in DOMAIN db'.parts : db'.parts[k].uid = db.parts[k].uid
    BY <1>6, <1>8, <2>1
  <2>4. PartsBelong'
    BY <2>1, <2>2, <2>3 DEF IInv, PartsBelong, PartsOf
  <2>5. \A u \in Uids : PartsOf(db', u) \subseteq PartsOf(db, u)
    BY <2>1, <2>3 DEF PartsOf
  <2>6. TablesTrimmed
    BY <2>1, <2>4, <2>5 DEF TablesTrimmed
  <2>7. TellsOf("status")
    BY <1>8, <2>1 DEF TellsOf
  <2> QED BY <1>1, <1>2, <1>3, <2>6, <2>7, TrimInv
<1> QED BY <1>4, <1>5, <1>7, <1>8

(* The validity of a message passes, and it is taken out.                  *)
LEMMA ExpiryInv ==
  ASSUME IInv, (\E uid \in DOMAIN db.msgs : Expires(uid)) \/ handle_expired_reports
  PROVE  IInv'
<1>1. air \subseteq Flying /\ final \in [Uids -> SUBSET (1 .. MaxParts)]
  BY DEF IInv, TypeOK
<1>2. "expired" \in Ends \ {"sent"}
  BY DEF Ends
<1>3. ASSUME NEW uid \in DOMAIN db.msgs, Expires(uid)
      PROVE  IInv'
  <2> DEFINE m == [db.msgs EXCEPT ![uid].expired = TRUE]
  <2>1. UNCHANGED <<ref, mail, queue, mr, air, sent, final, told>>
    BY <1>3 DEF Expires
  <2>2. db' = [db EXCEPT !.msgs = m]
    BY <1>3 DEF Expires
  <2>3. IsDb(db) /\ \A u \in DOMAIN db.msgs : db.msgs[u] \in Message
    BY DEF IInv, TypeOK, IsDb
  <2>4. /\ DOMAIN m = DOMAIN db.msgs
        /\ m[uid] = [db.msgs[uid] EXCEPT !.expired = TRUE]
        /\ \A u \in DOMAIN db.msgs \ {uid} : m[u] = db.msgs[u]
    OBVIOUS
  <2> HIDE DEF m
  <2>5. m[uid] \in Message /\ m[uid].cnt = db.msgs[uid].cnt
    BY <2>3, <2>4 DEF Message
  <2>6. /\ db' = [last |-> db.last, msgs |-> m, parts |-> db.parts]
        /\ db'.last = db.last /\ db'.msgs = m /\ db'.parts = db.parts
    BY <2>2, <2>3 DEF IsDb
  <2>7. IsDb(db')
    <3>1. \A u \in DOMAIN db'.msgs : db'.msgs[u] \in Message
      BY <2>3, <2>4, <2>5, <2>6
    <3> QED BY <2>3, <2>4, <2>6, <3>1 DEF IsDb
  <2>8. \A u \in DOMAIN db'.msgs : db'.msgs[u].cnt = db.msgs[u].cnt
    BY <2>4, <2>5, <2>6
  <2>9. TablesTrimmed
    BY <2>4, <2>6, <2>7, <2>8 DEF IInv, TablesTrimmed, PartsBelong, PartsOf
  <2> QED BY <1>1, <1>2, <2>1, <2>9, TrimInv
<1>4. CASE handle_expired_reports
  <2>1. PICK uid \in DOMAIN db.msgs : db' = outgoing_clear(db, uid) /\ Tell(uid, "expired")
    BY <1>4 DEF handle_expired_reports, Expired
  <2>2. UNCHANGED <<ref, mail, queue, mr, air, sent, final>>
    BY <1>4 DEF handle_expired_reports
  <2>3. TablesTrimmed /\ uid \notin DOMAIN db'.msgs
    BY <2>1, ClearTrims
  <2>4. TellsOf("expired")
    BY <2>1, <2>3 DEF TellsOf
  <2> QED BY <1>1, <1>2, <2>2, <2>3, <2>4, TrimInv
<1> QED BY <1>3, <1>4

-----------------------------------------------------------------------------
(* Parts are sent.                                                         *)

(* The next part of the task at the head is a new one.                     *)
LEMMA NextPartNew ==
  ASSUME IInv, queue # <<>>
  PROVE  LET uid  == queue[1].uid
             part == mail[uid].cnt - queue[1].left + 1
         IN  /\ uid \in Uids /\ uid \in 1 .. db.last /\ 1 \in DOMAIN queue
             /\ part \in 1 .. mail[uid].cnt /\ part \in 1 .. MaxParts
             /\ mail[uid] \in Asked /\ queue[1] \in Task
             /\ part \notin sent[uid] /\ sent[uid] \subseteq 1 .. part - 1
<1> DEFINE uid  == queue[1].uid
           part == mail[uid].cnt - queue[1].left + 1
<1>1. queue \in Seq(Task) /\ 1 \in DOMAIN queue /\ queue[1] \in Task
  <2>1. queue \in Seq(Task)
    BY DEF IInv, TypeOK
  <2>2. Len(queue) \in Nat /\ Len(queue) # 0 /\ DOMAIN queue = 1 .. Len(queue)
    BY <2>1, EmptySeq, LenProperties
  <2>3. 1 \in DOMAIN queue
    BY <2>2
  <2> QED BY <2>1, <2>2, <2>3, ElementOfSeq
<1>2. uid \in Uids /\ queue[1].left \in 1 .. MaxParts
  BY <1>1 DEF Task
<1>3. uid <= db.last /\ sent[uid] \subseteq 1 .. mail[uid].cnt - queue[1].left
  BY <1>1 DEF IInv, TasksAhead
<1>4. uid \in 1 .. db.last
  <2>1. db.last \in Nat
    BY OutAssumption DEF IInv, TypeOK, IsDb
  <2> QED BY <1>2, <1>3, <2>1, OutAssumption DEF Uids
<1>5. mail[uid] \in Asked /\ mail[uid].cnt \in 1 .. MaxParts
  BY <1>4 DEF IInv, TypeOK, Asked
<1>6. queue[1].left <= mail[uid].cnt
  BY <1>1 DEF IInv, TasksAhead
<1> HIDE DEF uid
<1>7. part \in 1 .. mail[uid].cnt /\ part \in 1 .. MaxParts /\ part - 1 = mail[uid].cnt - queue[1].left
  BY <1>2, <1>5, <1>6, OutAssumption
<1>8. part \notin sent[uid] /\ sent[uid] \subseteq 1 .. part - 1
  BY <1>3, <1>7
<1> QED BY <1>1, <1>2, <1>4, <1>5, <1>7, <1>8 DEF uid

(* What the modem takes, whatever becomes of the tables.                   *)
LEMMA TakenEffect ==
  ASSUME IInv, queue # <<>>, Taken, queue' = TaskAdvanced, db'.last = db.last, UNCHANGED mail
  PROVE  LET uid == queue[1].uid
         IN  /\ TasksAhead' /\ queue' \in Seq(Task)
             /\ mr' \in 0 .. MrMod - 1 /\ air' \subseteq Flying
             /\ sent' \in [Uids -> SUBSET (1 .. MaxParts)]
             /\ \A u \in Uids \ {uid} : sent'[u] = sent[u]
             /\ sent'[uid] \subseteq 1 .. mail[uid].cnt
             /\ IsFiniteSet(sent[uid]) /\ IsFiniteSet(sent'[uid])
             /\ Cardinality(sent'[uid]) = Cardinality(sent[uid]) + 1
             /\ sent[uid] # 1 .. mail[uid].cnt
<1> DEFINE uid  == queue[1].uid
           m    == mail[uid]
           part == m.cnt - queue[1].left + 1
<1>1. /\ uid \in Uids /\ uid \in 1 .. db.last /\ 1 \in DOMAIN queue
      /\ part \in 1 .. m.cnt /\ part \in 1 .. MaxParts
      /\ m \in Asked /\ queue[1] \in Task
      /\ part \notin sent[uid] /\ sent[uid] \subseteq 1 .. part - 1
  BY NextPartNew
<1>2. /\ mr' = (mr + 1) % MrMod
      /\ sent' = [sent EXCEPT ![uid] = @ \union {part}]
      /\ air' \in {air, air \union {[uid |-> uid, part |-> part, dst |-> m.dst, mr |-> mr]}}
  BY DEF Taken
<1>3. /\ mr \in 0 .. MrMod - 1 /\ air \subseteq Flying
      /\ sent \in [Uids -> SUBSET (1 .. MaxParts)] /\ queue \in Seq(Task)
  BY DEF IInv, TypeOK
<1>4. mr' \in 0 .. MrMod - 1
  <2>1. mr + 1 \in Int /\ MrMod \in Nat \ {0}
    BY <1>3, OutAssumption
  <2> QED BY <1>2, <2>1
<1>5. m.dst \in Dsts /\ m.cnt \in 1 .. MaxParts /\ queue[1].left \in 1 .. MaxParts
  BY <1>1 DEF Asked, Task
<1>6. part = m.cnt - queue[1].left + 1 /\ part - 1 = m.cnt - queue[1].left
  BY <1>5, OutAssumption
<1> HIDE DEF part, m
<1>7. air' \subseteq Flying
  <2>1. [uid |-> uid, part |-> part, dst |-> m.dst, mr |-> mr] \in Flying
    BY <1>1, <1>3, <1>5 DEF Flying
  <2> QED BY <1>2, <1>3, <2>1
<1>8. /\ sent' \in [Uids -> SUBSET (1 .. MaxParts)]
      /\ \A u \in Uids \ {uid} : sent'[u] = sent[u]
      /\ sent'[uid] = sent[uid] \union {part}
  BY <1>1, <1>2, <1>3
<1>9. sent'[uid] \subseteq 1 .. part /\ 1 .. part \subseteq 1 .. m.cnt
  BY <1>1, <1>5, <1>8, OutAssumption
<1>10. /\ IsFiniteSet(sent[uid]) /\ IsFiniteSet(sent'[uid])
       /\ Cardinality(sent'[uid]) = Cardinality(sent[uid]) + 1
  <2>1. IsFiniteSet(1 .. MaxParts) /\ sent[uid] \subseteq 1 .. MaxParts
    <3>1. MaxParts \in Nat
      BY OutAssumption
    <3>2. IsFiniteSet(1 .. MaxParts)
      BY <3>1, FS_Interval
    <3> QED BY <1>1, <1>3, <3>2
  <2>2. IsFiniteSet(sent[uid])
    BY <2>1, FS_Subset
  <2>3. part \notin sent[uid] /\ sent'[uid] = sent[uid] \union {part}
    BY <1>1, <1>8
  <2> HIDE DEF uid
  <2> QED BY <2>2, <2>3, FS_AddElement
<1>11. sent[uid] # 1 .. m.cnt
  BY <1>1
<1>12. \A i \in DOMAIN queue : i # 1 => queue[i].uid # uid
  BY <1>1 DEF IInv, TasksAhead
<1>13. Len(queue) \in Nat /\ DOMAIN queue = 1 .. Len(queue) /\ \A i \in DOMAIN queue : queue[i] \in Task
  BY <1>3, LenProperties, ElementOfSeq
<1>14. TasksAhead' /\ queue' \in Seq(Task)
  <2>1. \A i \in DOMAIN queue : i # 1 =>
          /\ queue[i].uid <= db'.last /\ queue[i].left <= mail'[queue[i].uid].cnt
          /\ sent'[queue[i].uid] \subseteq 1 .. mail'[queue[i].uid].cnt - queue[i].left
    <3>1. \A i \in DOMAIN queue : queue[i].uid \in Uids
      BY <1>13 DEF Task
    <3> QED BY <1>8, <1>12, <3>1 DEF IInv, TasksAhead
  <2>2. CASE queue[1].left = 1
    <3>1. queue' = Tail(queue)
      BY <2>2 DEF TaskAdvanced
    <3>2. /\ queue' \in Seq(Task) /\ DOMAIN queue' = 1 .. Len(queue) - 1
          /\ \A i \in 1 .. Len(queue) - 1 : queue'[i] = queue[i + 1]
      BY <1>3, <3>1, HeadTailProperties
    <3>3. \A i \in DOMAIN queue' : i \in Nat /\ i + 1 # 1 /\ i + 1 \in DOMAIN queue /\ queue'[i] = queue[i + 1]
      BY <1>13, <3>2
    <3>4. \A i \in DOMAIN queue' :
            /\ queue'[i].uid <= db'.last /\ queue'[i].left <= mail'[queue'[i].uid].cnt
            /\ sent'[queue'[i].uid] \subseteq 1 .. mail'[queue'[i].uid].cnt - queue'[i].left
      BY <2>1, <3>3
    <3>5. \A i, j \in DOMAIN queue' : queue'[i].uid = queue'[j].uid => i + 1 = j + 1
      BY <3>3 DEF IInv, TasksAhead
    <3>6. \A i, j \in DOMAIN queue' : queue'[i].uid = queue'[j].uid => i = j
      BY <3>3, <3>5
    <3> QED BY <3>2, <3>4, <3>6 DEF TasksAhead
  <2>3. CASE queue[1].left # 1
    <3> DEFINE t == [queue[1] EXCEPT !.left = @ - 1]
    <3>1. queue' = [queue EXCEPT ![1] = t]
      BY <2>3 DEF TaskAdvanced
    <3>2. t \in Task /\ t.uid = uid /\ t.left = queue[1].left - 1
      BY <1>1, <1>5, <2>3, OutAssumption DEF Task
    <3> HIDE DEF t
    <3>3. /\ queue' \in Seq(Task) /\ DOMAIN queue' = DOMAIN queue
          /\ queue'[1] = t /\ \A i \in DOMAIN queue : i # 1 => queue'[i] = queue[i]
      BY <1>1, <1>3, <1>13, <3>1, <3>2
    <3>4. /\ t.uid <= db'.last /\ t.left <= mail'[t.uid].cnt
          /\ sent'[t.uid] \subseteq 1 .. mail'[t.uid].cnt - t.left
      <4>1. m.cnt - t.left = part /\ t.left <= m.cnt
        BY <1>1, <1>5, <1>6, <3>2, OutAssumption
      <4>2. uid <= db.last
        BY <1>1 DEF IInv, TasksAhead
      <4> QED BY <1>9, <3>2, <4>1, <4>2 DEF m
    <3>5. \A i \in DOMAIN queue' :
            /\ queue'[i].uid <= db'.last /\ queue'[i].left <= mail'[queue'[i].uid].cnt
            /\ sent'[queue'[i].uid] \subseteq 1 .. mail'[queue'[i].uid].cnt - queue'[i].left
      BY <2>1, <3>3, <3>4
    <3>6. \A i \in DOMAIN queue : queue'[i].uid = queue[i].uid
      BY <3>2, <3>3
    <3>7. \A i, j \in DOMAIN queue' : queue'[i].uid = queue'[j].uid => i = j
      BY <3>3, <3>6 DEF IInv, TasksAhead
    <3> QED BY <3>3, <3>5, <3>7 DEF TasksAhead
  <2> QED BY <2>2, <2>3
<1> QED BY <1>4, <1>7, <1>8, <1>9, <1>10, <1>11, <1>14 DEF m

(* What AT+CMGS does to the tables: nothing, a row more, or, with the last *)
(* part, the message goes and is told of as sent.                          *)
LEMMA PartPutEffect ==
  ASSUME IInv, queue # <<>>, at_response_cmgs
  PROVE  LET uid == queue[1].uid
         IN  \/ UNCHANGED <<db, told>>
             \/ \E k \in Dsts \X (0 .. MrMod - 1) :
                  LET put == WithPart(db, k, uid)
                  IN  /\ k \notin DOMAIN db.parts /\ uid \in DOMAIN db.msgs
                      /\ \/ db' = put /\ UNCHANGED told
                         \/ /\ db' = outgoing_clear(put, uid) /\ Tell(uid, "sent")
                            /\ Cardinality(PartsOf(put, uid)) = db.msgs[uid].cnt
<1> DEFINE uid == queue[1].uid
           k   == <<db.msgs[uid].dst, mr>>
           put == WithPart(db, k, uid)
           r   == smsdb_outgoing_part_put(db, uid, mr)
<1>1. db' = r.db /\ (IF r.res = 0 THEN Tell(uid, "sent") ELSE UNCHANGED told)
  BY DEF at_response_cmgs
<1>2. \/ r = [db |-> db, res |-> -1]
      \/ /\ k \notin DOMAIN db.parts /\ uid \in DOMAIN db.msgs
         /\ \/ r = [db |-> put, res |-> -2]
            \/ r = [db |-> put, res |-> -1]
            \/ /\ r = [db |-> outgoing_clear(put, uid), res |-> 0]
               /\ Cardinality(PartsOf(put, uid)) = db.msgs[uid].cnt
  BY DEF smsdb_outgoing_part_put, WithPart, WithRow
<1>3. uid \in DOMAIN db.msgs => k \in Dsts \X (0 .. MrMod - 1)
  BY DEF IInv, TypeOK, IsDb, Message
<1> HIDE DEF r, k, put
<1>4. \/ db' = db /\ UNCHANGED told
      \/ /\ k \notin DOMAIN db.parts /\ uid \in DOMAIN db.msgs
         /\ \/ db' = put /\ UNCHANGED told
            \/ /\ db' = outgoing_clear(put, uid) /\ Tell(uid, "sent")
               /\ Cardinality(PartsOf(put, uid)) = db.msgs[uid].cnt
  BY <1>1, <1>2
<1> QED BY <1>3, <1>4, Zenon DEF put

(* One element more, or none.                                              *)
LEMMA OneMore ==
  ASSUME NEW S, IsFiniteSet(S), NEW K, K = {} \/ \E k : K = {k}
  PROVE  IsFiniteSet(S \union K) /\ Cardinality(S \union K) <= Cardinality(S) + 1
<1>1. Cardinality(S) \in Nat
  BY FS_CardinalityType
<1>2. CASE K = {}
  <2>1. S \union K = S
    BY <1>2
  <2>2. Cardinality(S) <= Cardinality(S) + 1
    BY <1>1
  <2> QED BY <2>1, <2>2, Zenon
<1>3. ASSUME NEW k, K = {k}
      PROVE  IsFiniteSet(S \union {k}) /\ Cardinality(S \union {k}) <= Cardinality(S) + 1
  <2>1. /\ IsFiniteSet(S \union {k})
        /\ Cardinality(S \union {k}) = IF k \in S THEN Cardinality(S) ELSE Cardinality(S) + 1
    BY FS_AddElement
  <2> QED BY <1>1, <2>1
<1> QED BY <1>2, <1>3

(* A part more sent, with or without a row more.                           *)
LEMMA PartRows ==
  ASSUME IInv, queue # <<>>, Taken, queue' = TaskAdvanced, UNCHANGED mail,
         NEW d, IsDb(d), d.last = db.last,
         NEW K, d.msgs = db.msgs,
         PartsOf(d, queue[1].uid) = PartsOf(db, queue[1].uid) \union K,
         K = {} \/ \E k : K = {k},
         \A u \in Uids \ {queue[1].uid} : PartsOf(d, u) = PartsOf(db, u),
         db'.last = db.last
  PROVE  \A u \in 1 .. db.last :
           /\ sent'[u] \subseteq 1 .. mail[u].cnt
           /\ IsFiniteSet(PartsOf(d, u))
           /\ Cardinality(PartsOf(d, u)) <= Cardinality(sent'[u])
<1> DEFINE uid == queue[1].uid
<1>1. /\ \A u \in Uids \ {uid} : sent'[u] = sent[u]
      /\ sent'[uid] \subseteq 1 .. mail[uid].cnt
      /\ IsFiniteSet(sent[uid]) /\ IsFiniteSet(sent'[uid])
      /\ Cardinality(sent'[uid]) = Cardinality(sent[uid]) + 1
  BY TakenEffect
<1>2. \A u \in 1 .. db.last :
        /\ u \in Uids /\ sent[u] \subseteq 1 .. mail[u].cnt
        /\ IsFiniteSet(PartsOf(db, u)) /\ Cardinality(PartsOf(db, u)) <= Cardinality(sent[u])
  <2>1. \A u \in 1 .. db.last : u \in Uids
    BY OutAssumption DEF IInv, TypeOK, IsDb, Uids
  <2> QED BY <2>1 DEF IInv, RowsTrue
<1>3. uid \in 1 .. db.last
  BY NextPartNew
<1> HIDE DEF uid
<1>4. /\ IsFiniteSet(PartsOf(db, uid) \union K)
      /\ Cardinality(PartsOf(db, uid) \union K) <= Cardinality(PartsOf(db, uid)) + 1
  <2>1. IsFiniteSet(PartsOf(db, uid)) /\ Cardinality(PartsOf(db, uid)) \in Nat
    BY <1>2, <1>3, FS_CardinalityType
  <2> QED BY <2>1, OneMore
<1>5. PartsOf(d, uid) = PartsOf(db, uid) \union K
  BY DEF uid
<1>6. Cardinality(PartsOf(d, uid)) <= Cardinality(sent'[uid]) /\ IsFiniteSet(PartsOf(d, uid))
  <2>1. /\ Cardinality(PartsOf(db, uid)) \in Nat /\ Cardinality(PartsOf(d, uid)) \in Nat
        /\ Cardinality(sent[uid]) \in Nat
    BY <1>1, <1>2, <1>3, <1>4, <1>5, FS_CardinalityType
  <2>2. /\ Cardinality(PartsOf(d, uid)) <= Cardinality(PartsOf(db, uid)) + 1
        /\ Cardinality(PartsOf(db, uid)) <= Cardinality(sent[uid])
    BY <1>2, <1>3, <1>4, <1>5
  <2> QED BY <1>1, <1>4, <1>5, <2>1, <2>2
<1> QED
  <2> TAKE u \in 1 .. db.last
  <2>1. CASE u = uid
    BY <1>1, <1>6, <2>1
  <2>2. CASE u # uid
    <3>1. PartsOf(d, u) = PartsOf(db, u) /\ sent'[u] = sent[u]
      BY <1>1, <1>2, <2>2 DEF uid
    <3> QED BY <1>2, <3>1
  <2> QED BY <2>1, <2>2

(* A part of a message in the table is entered under a new reference.      *)
LEMMA PartEntered ==
  ASSUME NEW d, IsDb(d), NEW k \in Dsts \X (0 .. MrMod - 1), k \notin DOMAIN d.parts,
         NEW uid \in Uids, NEW put, put = WithPart(d, k, uid)
  PROVE  /\ IsDb(put) /\ put.last = d.last /\ put.msgs = d.msgs
         /\ \A j \in DOMAIN put.parts : put.parts[j].uid = uid
                                      \/ (j \in DOMAIN d.parts /\ put.parts[j] = d.parts[j])
         /\ PartsOf(put, uid) = PartsOf(d, uid) \union {k}
         /\ \A u \in Uids \ {uid} : PartsOf(put, u) = PartsOf(d, u)
<1> DEFINE row == [uid |-> uid, st |-> None]
<1>1. row \in Row /\ row.uid = uid
  BY DEF Row
<1> HIDE DEF row
<1>2. put = WithRow(d, k, row)
  BY DEF row, WithPart
<1>3. /\ IsDb(put) /\ put.last = d.last /\ put.msgs = d.msgs
      /\ DOMAIN put.parts = DOMAIN d.parts \union {k}
      /\ put.parts[k] = row /\ \A j \in DOMAIN d.parts \ {k} : put.parts[j] = d.parts[j]
  BY <1>1, <1>2, PutDb
<1>4. \A j \in DOMAIN put.parts : put.parts[j].uid = uid
                                \/ (j \in DOMAIN d.parts /\ put.parts[j] = d.parts[j])
  BY <1>1, <1>3
<1>5. PartsOf(put, uid) = PartsOf(d, uid) \union {k}
  BY <1>1, <1>3 DEF PartsOf
<1>6. \A u \in Uids \ {uid} : PartsOf(put, u) = PartsOf(d, u)
  BY <1>1, <1>3 DEF PartsOf
<1> QED BY <1>3, <1>4, <1>5, <1>6

(* The modem takes a part: the answer is read, or not.                     *)
LEMMA PartSentInv ==
  ASSUME IInv, at_response_cmgs \/ CmgsUnreadable
  PROVE  IInv'
<1>1. PICK uid \in Uids : uid = queue[1].uid /\ uid \in 1 .. db.last
  BY NextPartNew DEF at_response_cmgs, CmgsUnreadable
<1>2. /\ queue # <<>> /\ Taken /\ queue' = TaskAdvanced /\ UNCHANGED <<ref, mail, final>>
  BY DEF at_response_cmgs, CmgsUnreadable
<1>3. /\ ref \in [Dsts -> Counter] /\ mail \in [1 .. db.last -> Asked]
      /\ final \in [Uids -> SUBSET (1 .. MaxParts)] /\ IsDb(db) /\ db.last \in 0 .. MaxMessages
      /\ told \in [Uids -> Seq(Ends)]
  BY DEF IInv, TypeOK, IsDb
<1>4. \A u \in 1 .. db.last : u \in Uids
  BY <1>3, OutAssumption DEF Uids
<1>5. Uids' = Uids /\ Task' = Task /\ Flying' = Flying /\ Asked' = Asked /\ Counter' = Counter
  BY DEF Uids, Task, Flying, Asked, Counter
<1>6. ASSUME db'.last = db.last
      PROVE  /\ TasksAhead' /\ queue' \in Seq(Task)
             /\ mr' \in 0 .. MrMod - 1 /\ air' \subseteq Flying
             /\ sent' \in [Uids -> SUBSET (1 .. MaxParts)]
             /\ \A u \in Uids \ {uid} : sent'[u] = sent[u]
             /\ sent'[uid] \subseteq 1 .. mail[uid].cnt
             /\ IsFiniteSet(sent'[uid])
             /\ sent[uid] # 1 .. mail[uid].cnt
  BY <1>1, <1>2, <1>6, TakenEffect
(* Common to all outcomes.                                                 *)
<1>7. ASSUME IsDb(db'), db'.last = db.last, PartsBelong',
             Untold', ToldOnce', told' \in [Uids -> Seq(Ends)],
             \A u \in DOMAIN db'.msgs : db'.msgs[u].cnt = mail[u].cnt,
             \A u \in 1 .. db.last : /\ sent'[u] \subseteq 1 .. mail[u].cnt
                                     /\ IsFiniteSet(PartsOf(db', u))
                                     /\ Cardinality(PartsOf(db', u)) <= Cardinality(sent'[u]),
             \A u \in 1 .. db.last : told'[u] = <<"sent">> => sent'[u] = 1 .. mail[u].cnt
      PROVE  IInv'
  <2>1. TypeOK'
    BY <1>2, <1>3, <1>5, <1>6, <1>7 DEF TypeOK
  <2>2. SentIsTrue'
    BY <1>2, <1>7 DEF SentIsTrue
  <2>3. \A u \in Uids : u > db.last => sent'[u] = {}
    <3>1. \A u \in Uids : u > db.last => sent[u] = {}
      BY DEF IInv, RowsTrue
    <3>2. ~(uid > db.last)
      BY <1>1, <1>3, OutAssumption
    <3> QED BY <1>6, <1>7, <3>1, <3>2
  <2>4. RowsTrue'
    <3>1. (\A u \in DOMAIN db.msgs : db.msgs[u].cnt = mail[u].cnt)'
      BY <1>2, <1>7
    <3>2. (\A u \in 1 .. db.last : /\ sent[u] \subseteq 1 .. mail[u].cnt
                                   /\ IsFiniteSet(PartsOf(db, u))
                                   /\ Cardinality(PartsOf(db, u)) <= Cardinality(sent[u]))'
      BY <1>2, <1>7
    <3>3. (\A u \in Uids : u > db.last => sent[u] = {})'
      BY <1>5, <1>7, <2>3
    <3> QED BY <3>1, <3>2, <3>3 DEF RowsTrue
  <2> QED BY <1>6, <1>7, <2>1, <2>2, <2>4 DEF IInv
(* A message that is not complete was not told of as sent.                 *)
<1>8. ASSUME db'.last = db.last, UNCHANGED told
      PROVE  \A u \in 1 .. db.last : told'[u] = <<"sent">> => sent'[u] = 1 .. mail[u].cnt
  <2>1. \A u \in 1 .. db.last : told[u] = <<"sent">> => sent[u] = 1 .. mail[u].cnt
    BY DEF IInv, SentIsTrue
  <2>2. told[uid] # <<"sent">>
    BY <1>1, <1>6, <1>8, <2>1
  <2> QED BY <1>4, <1>6, <1>8, <2>1, <2>2
<1>9. \A u \in DOMAIN db.msgs : db.msgs[u].cnt = mail[u].cnt
  BY DEF IInv, RowsTrue
<1>10. CASE UNCHANGED <<db, told>>
  <2>1. \A u \in 1 .. db.last : /\ sent'[u] \subseteq 1 .. mail[u].cnt
                                /\ IsFiniteSet(PartsOf(db, u))
                                /\ Cardinality(PartsOf(db, u)) <= Cardinality(sent'[u])
    <3>1. PartsOf(db, queue[1].uid) = PartsOf(db, queue[1].uid) \union {}
      OBVIOUS
    <3>2. db'.last = db.last
      BY <1>10
    <3> QED BY <1>2, <1>3, <3>1, <3>2, PartRows
  <2>2. Untold' /\ ToldOnce' /\ PartsBelong'
    BY <1>5, <1>10 DEF IInv, Untold, ToldOnce, PartsBelong
  <2> QED BY <1>3, <1>7, <1>8, <1>9, <1>10, <2>1, <2>2
<1>11. ASSUME NEW k \in Dsts \X (0 .. MrMod - 1), k \notin DOMAIN db.parts, uid \in DOMAIN db.msgs,
              NEW put, put = WithPart(db, k, uid)
       PROVE  /\ IsDb(put) /\ put.last = db.last /\ put.msgs = db.msgs
              /\ \A j \in DOMAIN put.parts : put.parts[j].uid \in DOMAIN db.msgs
              /\ db'.last = db.last =>
                   \A u \in 1 .. db.last : /\ sent'[u] \subseteq 1 .. mail[u].cnt
                                            /\ IsFiniteSet(PartsOf(put, u))
                                            /\ Cardinality(PartsOf(put, u)) <= Cardinality(sent'[u])
  <2>1. /\ IsDb(put) /\ put.last = db.last /\ put.msgs = db.msgs
        /\ \A j \in DOMAIN put.parts : put.parts[j].uid = uid
                                     \/ (j \in DOMAIN db.parts /\ put.parts[j] = db.parts[j])
        /\ PartsOf(put, uid) = PartsOf(db, uid) \union {k}
        /\ \A u \in Uids \ {uid} : PartsOf(put, u) = PartsOf(db, u)
    BY <1>3, <1>11, PartEntered
  <2> HIDE DEF PartsOf
  <2>2. \A j \in DOMAIN put.parts : put.parts[j].uid \in DOMAIN db.msgs
    <3>1. \A j \in DOMAIN db.parts : db.parts[j].uid \in DOMAIN db.msgs
      BY DEF IInv, PartsBelong
    <3>2. uid \in DOMAIN db.msgs
      BY <1>11
    <3> QED BY <2>1, <3>1, <3>2, Zenon
  <2>3. ASSUME db'.last = db.last
        PROVE  \A u \in 1 .. db.last : /\ sent'[u] \subseteq 1 .. mail[u].cnt
                                        /\ IsFiniteSet(PartsOf(put, u))
                                        /\ Cardinality(PartsOf(put, u)) <= Cardinality(sent'[u])
    BY <1>1, <1>2, <2>1, <2>3, PartRows
  <2> QED BY <2>1, <2>2, <2>3, Zenon
<1>12. ASSUME NEW k \in Dsts \X (0 .. MrMod - 1), k \notin DOMAIN db.parts, uid \in DOMAIN db.msgs,
              NEW put, put = WithPart(db, k, uid),
              db' = put, UNCHANGED told
       PROVE  IInv'
  <2>1. /\ IsDb(put) /\ put.last = db.last /\ put.msgs = db.msgs
        /\ \A j \in DOMAIN put.parts : put.parts[j].uid \in DOMAIN db.msgs
        /\ db'.last = db.last =>
             \A u \in 1 .. db.last : /\ sent'[u] \subseteq 1 .. mail[u].cnt
                                      /\ IsFiniteSet(PartsOf(put, u))
                                      /\ Cardinality(PartsOf(put, u)) <= Cardinality(sent'[u])
    BY <1>11, <1>12, Zenon
  <2>2. db' = put /\ UNCHANGED told
    BY <1>12
  <2>3. Untold' /\ ToldOnce' /\ PartsBelong'
    BY <1>5, <2>1, <2>2 DEF IInv, Untold, ToldOnce, PartsBelong
  <2> QED BY <1>3, <1>7, <1>8, <1>9, <2>1, <2>2, <2>3
<1>13. ASSUME NEW k \in Dsts \X (0 .. MrMod - 1), k \notin DOMAIN db.parts, uid \in DOMAIN db.msgs,
              NEW put, put = WithPart(db, k, uid),
              db' = outgoing_clear(put, uid), Tell(uid, "sent"),
              Cardinality(PartsOf(put, uid)) = db.msgs[uid].cnt
       PROVE  IInv'
  <2>0. /\ IsDb(put) /\ put.last = db.last /\ put.msgs = db.msgs
        /\ \A j \in DOMAIN put.parts : put.parts[j].uid \in DOMAIN db.msgs
        /\ db'.last = db.last =>
             \A u \in 1 .. db.last : /\ sent'[u] \subseteq 1 .. mail[u].cnt
                                      /\ IsFiniteSet(PartsOf(put, u))
                                      /\ Cardinality(PartsOf(put, u)) <= Cardinality(sent'[u])
    BY <1>11, <1>13, Zenon
  <2>1. IsDb(put) /\ put.last = db.last /\ put.msgs = db.msgs
    BY <2>0
  <2>2. /\ IsDb(db') /\ db'.last = put.last
        /\ DOMAIN db'.msgs = DOMAIN put.msgs \ {uid}
        /\ \A u \in DOMAIN db'.msgs : db'.msgs[u] = put.msgs[u]
        /\ DOMAIN db'.parts = DOMAIN put.parts \ PartsOf(put, uid)
        /\ \A j \in DOMAIN db'.parts : db'.parts[j] = put.parts[j]
    <3>1. db' = outgoing_clear(put, uid)
      BY <1>13
    <3> QED BY <2>1, <3>1, ClearDb
  <2>3. /\ \A j \in DOMAIN put.parts : put.parts[j].uid \in DOMAIN db.msgs
        /\ \A u \in 1 .. db.last : /\ sent'[u] \subseteq 1 .. mail[u].cnt
                                    /\ IsFiniteSet(PartsOf(put, u))
                                    /\ Cardinality(PartsOf(put, u)) <= Cardinality(sent'[u])
    BY <2>0, <2>2, Zenon
  <2>4. PartsBelong'
    BY <2>1, <2>2, <2>3 DEF PartsBelong, PartsOf
  <2>5. TellsOf("sent") /\ "sent" \in Ends
    BY <1>13, <2>1, <2>2 DEF TellsOf, Ends
  <2>6. /\ Untold' /\ ToldOnce' /\ told' \in [Uids -> Seq(Ends)]
    BY <2>1, <2>2, <2>5, ToldKept
  <2>7. ASSUME NEW u \in 1 .. db.last
        PROVE  /\ IsFiniteSet(PartsOf(db', u))
               /\ Cardinality(PartsOf(db', u)) <= Cardinality(sent'[u])
    <3>1. PartsOf(db', u) \subseteq PartsOf(put, u)
      BY <2>2 DEF PartsOf
    <3>2. /\ IsFiniteSet(PartsOf(put, u)) /\ Cardinality(PartsOf(put, u)) <= Cardinality(sent'[u])
          /\ IsFiniteSet(sent'[u])
      <4>1. u \in Uids
        BY <1>4
      <4>2. sent'[u] \subseteq 1 .. MaxParts
        BY <1>6, <2>1, <2>2, <4>1
      <4>3. IsFiniteSet(1 .. MaxParts)
        BY FS_Interval, OutAssumption
      <4>4. IsFiniteSet(sent'[u])
        BY <4>2, <4>3, FS_Subset
      <4> QED BY <2>3, <4>4, Zenon
    <3>3. IsFiniteSet(PartsOf(db', u)) /\ Cardinality(PartsOf(db', u)) <= Cardinality(PartsOf(put, u))
      BY <3>1, <3>2, FS_Subset
    <3>4. /\ Cardinality(PartsOf(db', u)) \in Nat /\ Cardinality(PartsOf(put, u)) \in Nat
          /\ Cardinality(sent'[u]) \in Nat
      BY <3>2, <3>3, FS_CardinalityType
    <3> QED BY <3>2, <3>3, <3>4
  <2>8. sent'[uid] = 1 .. mail[uid].cnt
    <3>1. Cardinality(PartsOf(put, uid)) = mail[uid].cnt
      BY <1>9, <1>13
    <3>2. mail[uid].cnt \in Nat
      BY <1>1, <1>3, OutAssumption DEF Asked
    <3>3. IsFiniteSet(1 .. mail[uid].cnt) /\ Cardinality(1 .. mail[uid].cnt) = mail[uid].cnt
      <4>1. /\ IsFiniteSet(1 .. mail[uid].cnt)
            /\ Cardinality(1 .. mail[uid].cnt) = IF 1 > mail[uid].cnt THEN 0 ELSE mail[uid].cnt - 1 + 1
        <5> DEFINE n == mail[uid].cnt
        <5>1. n \in Int /\ 1 \in Int
          BY <3>2
        <5> HIDE DEF n
        <5>2. IsFiniteSet(1 .. n) /\ Cardinality(1 .. n) = IF 1 > n THEN 0 ELSE n - 1 + 1
          BY <5>1, FS_Interval
        <5> QED BY <5>2 DEF n
      <4> QED BY <3>2, <4>1
    <3>4. sent'[uid] \subseteq 1 .. mail[uid].cnt /\ IsFiniteSet(sent'[uid])
      BY <1>6, <2>1, <2>2
    <3>5. Cardinality(sent'[uid]) <= mail[uid].cnt /\ Cardinality(sent'[uid]) \in Nat
      BY <3>3, <3>4, FS_Subset, FS_CardinalityType
    <3>6. mail[uid].cnt <= Cardinality(sent'[uid])
      BY <1>1, <2>3, <3>1
    <3>7. Cardinality(1 .. mail[uid].cnt) = Cardinality(sent'[uid])
      BY <3>2, <3>3, <3>5, <3>6
    <3> QED BY <3>3, <3>4, <3>7, FS_Subset
  <2>9. \A u \in 1 .. db.last : told'[u] = <<"sent">> => sent'[u] = 1 .. mail[u].cnt
    <3>1. \A u \in 1 .. db.last : told[u] = <<"sent">> => sent[u] = 1 .. mail[u].cnt
      BY DEF IInv, SentIsTrue
    <3>2. \A u \in Uids \ {uid} : told'[u] = told[u]
      BY <1>3, <1>13 DEF Tell
    <3> QED BY <1>4, <1>6, <2>1, <2>2, <2>8, <3>1, <3>2
  <2>10. \A u \in DOMAIN db'.msgs : db'.msgs[u].cnt = mail[u].cnt
    BY <1>9, <2>1, <2>2
  <2>11. db'.last = db.last /\ IsDb(db')
    BY <2>1, <2>2
  <2> QED BY <1>7, <2>3, <2>4, <2>6, <2>7, <2>9, <2>10, <2>11
<1>14. CASE at_response_cmgs
  BY <1>1, <1>2, <1>10, <1>12, <1>13, <1>14, PartPutEffect
<1>15. CASE CmgsUnreadable
  BY <1>10, <1>15 DEF CmgsUnreadable
<1> QED BY <1>14, <1>15

-----------------------------------------------------------------------------
(* A message is asked for.                                                 *)

(* smsdb_outgoing_add gives the message the next uid.                      *)
LEMMA AddDb ==
  ASSUME NEW d, IsDb(d), d.last < MaxMessages,
         NEW dst \in Dsts, NEW cnt \in 1 .. MaxParts, NEW srr \in BOOLEAN,
         NEW c, c = smsdb_outgoing_add(d, dst, cnt, srr)
  PROVE  /\ IsDb(c) /\ c.last = d.last + 1 /\ c.parts = d.parts
         /\ DOMAIN c.msgs = DOMAIN d.msgs \union {d.last + 1}
         /\ c.msgs[d.last + 1].cnt = cnt
         /\ \A u \in DOMAIN d.msgs : c.msgs[u] = d.msgs[u]
<1> DEFINE new == [dst |-> dst, cnt |-> cnt, srr |-> srr, expired |-> FALSE]
           m   == Set(d.msgs, d.last + 1, new)
<1>1. new \in Message /\ new.cnt = cnt
  BY DEF Message
<1>2. c = [last |-> d.last + 1, msgs |-> m, parts |-> d.parts]
  <2>1. c = [d EXCEPT !.last = d.last + 1, !.msgs = m]
    BY DEF smsdb_outgoing_add
  <2>2. d = [last |-> d.last, msgs |-> d.msgs, parts |-> d.parts]
    BY DEF IsDb
  <2> HIDE DEF m
  <2> QED BY <2>1, <2>2
<1> HIDE DEF new
<1>3. DOMAIN m = DOMAIN d.msgs \union {d.last + 1} /\ m[d.last + 1] = new
      /\ \A u \in DOMAIN d.msgs \ {d.last + 1} : m[u] = d.msgs[u]
  BY DEF Set
<1> HIDE DEF m
<1>4. c.last = d.last + 1 /\ c.msgs = m /\ c.parts = d.parts
  BY <1>2
<1>5. d.last \in 0 .. MaxMessages /\ MaxMessages \in Nat /\ DOMAIN d.msgs \subseteq 1 .. d.last
  BY OutAssumption DEF IsDb
<1>6. d.last + 1 \notin DOMAIN d.msgs /\ c.last \in 0 .. MaxMessages
      /\ DOMAIN c.msgs \subseteq 1 .. c.last
  BY <1>3, <1>4, <1>5
<1>7. \A u \in DOMAIN d.msgs : c.msgs[u] = d.msgs[u]
  BY <1>3, <1>4, <1>6
<1>8. IsDb(c)
  <2>1. \A u \in DOMAIN c.msgs : c.msgs[u] \in Message
    BY <1>1, <1>3, <1>4, <1>7 DEF IsDb
  <2> QED BY <1>2, <1>4, <1>6, <2>1 DEF IsDb
<1> QED BY <1>1, <1>3, <1>4, <1>7, <1>8

(* smsdb_get_refid returns and stores references.                          *)
LEMMA RefidType ==
  ASSUME NEW row \in {NoRow} \union 0 .. RefMod - 1
  PROVE  /\ smsdb_get_refid(row).row \in 0 .. RefMod - 1
         /\ smsdb_get_refid(row).res \in 0 .. RefMod - 1
<1>1. RefMod \in Nat /\ RefMod # 0
  BY DbAssumption
<1>2. CASE row = NoRow
  BY <1>1, <1>2 DEF smsdb_get_refid
<1>3. CASE row # NoRow
  BY <1>1, <1>3 DEF smsdb_get_refid
<1> QED BY <1>2, <1>3

(* A reference is given out for a destination.                             *)
LEMMA ReferencedType ==
  ASSUME ref \in [Dsts -> Counter], NEW dst \in Dsts, Referenced(dst)
  PROVE  /\ ref' \in [Dsts -> Counter]
         /\ ref'[dst].row = smsdb_get_refid(ref[dst].row).row
         /\ ref'[dst].given = ref[dst].given + 1
         /\ ref[dst].given + 1 \in 1 .. MaxRefs
         /\ smsdb_get_refid(ref[dst].row).res \in 0 .. RefMod - 1
         /\ \A d \in Dsts \ {dst} : ref'[d] = ref[d]
<1>1. ref[dst].row \in {NoRow} \union 0 .. RefMod - 1 /\ ref[dst].given \in 0 .. MaxRefs
  BY DEF Counter
<1>2. PICK row \in 0 .. RefMod - 1, res \in 0 .. RefMod - 1 :
        row = smsdb_get_refid(ref[dst].row).row /\ res = smsdb_get_refid(ref[dst].row).res
  BY <1>1, RefidType
<1>3. PICK n \in 1 .. MaxRefs : n = ref[dst].given + 1
  BY <1>1, OutAssumption DEF Referenced
<1>4. ref' = [ref EXCEPT ![dst] = [row |-> row, given |-> n]]
  BY <1>2, <1>3 DEF Referenced
<1>5. [row |-> row, given |-> n] \in Counter
  BY OutAssumption DEF Counter
<1> QED BY <1>2, <1>3, <1>4, <1>5

(* at_enqueue_sms that stops after the reference keeps the invariant.      *)
LEMMA RefusedInv ==
  ASSUME IInv, NEW dst \in Dsts, SendRefused(dst)
  PROVE  IInv'
<1>1. ref' \in [Dsts -> Counter]
  BY ReferencedType DEF IInv, TypeOK, SendRefused
<1>2. UNCHANGED <<db, mail, queue, mr, air, sent, final, told>>
  BY DEF SendRefused
<1>3. Counter' = Counter /\ Uids' = Uids /\ Asked' = Asked /\ Task' = Task /\ Flying' = Flying
  BY DEF Counter, Uids, Asked, Task, Flying
<1>4. TypeOK'
  BY <1>1, <1>2, <1>3 DEF IInv, TypeOK
<1>5. (Untold /\ ToldOnce /\ PartsBelong /\ TasksAhead /\ RowsTrue /\ SentIsTrue)'
  BY <1>2 DEF IInv, Untold, ToldOnce, PartsBelong, TasksAhead, RowsTrue, SentIsTrue
<1> QED BY <1>4, <1>5 DEF IInv

(* at_enqueue_sms keeps the invariant.                                     *)
LEMMA SendInv ==
  ASSUME IInv, NEW dst \in Dsts, NEW cnt \in 1 .. MaxParts, NEW srr \in BOOLEAN,
         Send(dst, cnt, srr)
  PROVE  IInv'
<1>1. /\ ref \in [Dsts -> Counter] /\ mail \in [1 .. db.last -> Asked]
      /\ IsDb(db) /\ db.last \in Nat /\ MaxMessages \in Nat /\ db.last < MaxMessages
      /\ queue \in Seq(Task)
  BY OutAssumption DEF IInv, TypeOK, IsDb, Send
<1>2. PICK uid \in Uids : uid = db.last + 1
  BY <1>1 DEF Uids
<1>3. PICK ask \in Asked : /\ ask.cnt = cnt
                           /\ mail' = Set(mail, uid, ask)
  <2> DEFINE ask == [dst |-> dst, ref |-> smsdb_get_refid(ref[dst].row).res, cnt |-> cnt, srr |-> srr,
                     nth |-> ref[dst].given + 1, new |-> ref[dst].row = NoRow]
  <2>1. smsdb_get_refid(ref[dst].row).res \in 0 .. RefMod - 1 /\ ref[dst].given + 1 \in 1 .. MaxRefs
    BY <1>1, ReferencedType DEF Send
  <2>2. (ref[dst].row = NoRow) \in BOOLEAN
    OBVIOUS
  <2>3. ask \in Asked /\ ask.cnt = cnt
    BY <2>1, <2>2 DEF Asked
  <2>4. mail' = Set(mail, uid, ask)
    BY <1>2 DEF Send
  <2> QED BY <2>3, <2>4
<1>4. PICK task \in Task : /\ task.uid = uid /\ task.left = cnt
                           /\ queue' = Append(queue, task) \/ queue' = queue
  <2> DEFINE task == [uid |-> uid, left |-> cnt]
  <2>1. task \in Task
    BY DEF Task
  <2>2. queue' = Append(queue, task) \/ queue' = queue
    BY <1>2 DEF Send
  <2> QED BY <2>1, <2>2
<1>5. ref' \in [Dsts -> Counter]
  BY <1>1, ReferencedType DEF Send
<1>6. /\ IsDb(db') /\ db'.last = uid /\ db'.parts = db.parts
      /\ DOMAIN db'.msgs = DOMAIN db.msgs \union {uid}
      /\ db'.msgs[uid].cnt = cnt
      /\ \A u \in DOMAIN db.msgs : db'.msgs[u] = db.msgs[u]
  <2>1. db' = smsdb_outgoing_add(db, dst, cnt, srr)
    BY DEF Send
  <2> QED BY <1>1, <1>2, <2>1, AddDb
<1>7. /\ mail' \in [1 .. db'.last -> Asked] /\ mail'[uid].cnt = cnt
      /\ \A u \in 1 .. db.last : mail'[u] = mail[u]
  <2>1. /\ DOMAIN mail' = 1 .. db.last \union {uid} /\ mail'[uid] = ask
        /\ \A y \in (1 .. db.last) \ {uid} : mail'[y] = mail[y]
    BY <1>1, <1>3 DEF Set
  <2>2. 1 .. db.last \union {uid} = 1 .. db'.last /\ uid \notin 1 .. db.last
    BY <1>1, <1>2, <1>6
  <2>3. mail' = [u \in 1 .. db'.last |-> mail'[u]]
    BY <1>3, <2>1, <2>2 DEF Set
  <2>4. \A u \in 1 .. db'.last : mail'[u] \in Asked
    BY <1>1, <2>1, <2>2
  <2> QED BY <1>3, <2>1, <2>2, <2>3, <2>4
<1>8. UNCHANGED <<mr, air, sent, final, told>>
  BY DEF Send
<1>9. /\ Uids' = Uids /\ Task' = Task /\ Flying' = Flying /\ Asked' = Asked /\ Counter' = Counter
  BY DEF Uids, Task, Flying, Asked, Counter
<1>10. /\ queue' \in Seq(Task) /\ Len(queue) \in Nat /\ DOMAIN queue = 1 .. Len(queue)
       /\ \A i \in 1 .. Len(queue) : queue'[i] = queue[i]
       /\ \/ DOMAIN queue' = DOMAIN queue
          \/ /\ DOMAIN queue' = 1 .. Len(queue) + 1
             /\ queue'[Len(queue) + 1] = task
  <2>1. CASE queue' = queue
    BY <1>1, <2>1
  <2>2. CASE queue' = Append(queue, task)
    BY <1>1, <2>2, AppendProperties
  <2> QED BY <1>4, <2>1, <2>2
<1>11. TypeOK'
  BY <1>5, <1>6, <1>7, <1>8, <1>9, <1>10 DEF IInv, TypeOK
<1>12. sent[uid] = {} /\ told[uid] = <<>>
  <2>1. uid > db.last
    BY <1>1, <1>2
  <2> QED BY <2>1 DEF IInv, RowsTrue, Untold
<1>13. Untold'
  <2>1. \A u \in Uids : u > uid \/ u \in DOMAIN db.msgs \/ u = uid => told[u] = <<>>
    <3>1. \A u \in Uids : u > uid => u > db.last
      BY <1>1, <1>2 DEF Uids
    <3> QED BY <1>12, <3>1 DEF IInv, Untold
  <2> QED BY <1>6, <1>8, <1>9, <2>1 DEF Untold
<1>14. ToldOnce'
  BY <1>8, <1>9 DEF IInv, ToldOnce
<1>15. PartsBelong'
  BY <1>6 DEF IInv, PartsBelong
<1>16. TasksAhead'
  <2>1. ASSUME NEW i \in 1 .. Len(queue)
        PROVE  /\ queue'[i] = queue[i] /\ queue[i].uid \in 1 .. db.last /\ queue[i].uid # uid
               /\ queue'[i].uid <= db'.last /\ queue'[i].left <= mail'[queue'[i].uid].cnt
               /\ sent'[queue'[i].uid] \subseteq 1 .. mail'[queue'[i].uid].cnt - queue'[i].left
    <3>1. queue'[i] = queue[i] /\ queue[i] \in Task
      BY <1>1, <1>10
    <3>2. /\ queue[i].uid <= db.last /\ queue[i].left <= mail[queue[i].uid].cnt
          /\ sent[queue[i].uid] \subseteq 1 .. mail[queue[i].uid].cnt - queue[i].left
      BY <1>10 DEF IInv, TasksAhead
    <3>3. queue[i].uid \in 1 .. db.last
      BY <1>1, <3>1, <3>2 DEF Task, Uids
    <3>4. mail'[queue[i].uid] = mail[queue[i].uid] /\ queue[i].uid <= db'.last
      BY <1>1, <1>2, <1>6, <1>7, <3>3
    <3> QED BY <1>1, <1>2, <1>8, <3>1, <3>2, <3>3, <3>4
  <2>2. \A i, j \in 1 .. Len(queue) : queue[i].uid = queue[j].uid => i = j
    BY <1>10 DEF IInv, TasksAhead
  <2>3. CASE DOMAIN queue' = DOMAIN queue
    <3>1. \A i, j \in DOMAIN queue' : queue'[i].uid = queue'[j].uid => i = j
      BY <1>10, <2>2, <2>3
    <3>2. \A i \in DOMAIN queue' :
            /\ queue'[i].uid <= db'.last /\ queue'[i].left <= mail'[queue'[i].uid].cnt
            /\ sent'[queue'[i].uid] \subseteq 1 .. mail'[queue'[i].uid].cnt - queue'[i].left
      BY <1>10, <2>1, <2>3
    <3> QED BY <3>1, <3>2 DEF TasksAhead
  <2>4. CASE DOMAIN queue' = 1 .. Len(queue) + 1 /\ queue'[Len(queue) + 1] = task
    <3>1. queue'[Len(queue) + 1].uid = uid /\ queue'[Len(queue) + 1].left = cnt
      BY <1>4, <2>4
    <3>2. uid <= db'.last /\ cnt <= mail'[uid].cnt
      BY <1>1, <1>2, <1>6, <1>7, OutAssumption
    <3>3. sent'[uid] \subseteq 1 .. mail'[uid].cnt - cnt
      BY <1>8, <1>12
    <3>4. DOMAIN queue' = 1 .. Len(queue) \union {Len(queue) + 1}
          /\ Len(queue) + 1 \notin 1 .. Len(queue)
      BY <1>10, <2>4
    <3>5. \A i, j \in DOMAIN queue' : queue'[i].uid = queue'[j].uid => i = j
      BY <2>1, <2>2, <3>1, <3>4
    <3>6. \A i \in DOMAIN queue' :
            /\ queue'[i].uid <= db'.last /\ queue'[i].left <= mail'[queue'[i].uid].cnt
            /\ sent'[queue'[i].uid] \subseteq 1 .. mail'[queue'[i].uid].cnt - queue'[i].left
      BY <2>1, <3>1, <3>2, <3>3, <3>4
    <3> QED BY <3>5, <3>6 DEF TasksAhead
  <2> QED BY <1>10, <2>3, <2>4
<1>17. 1 .. db'.last = 1 .. db.last \union {uid}
  BY <1>1, <1>2, <1>6
<1>18. RowsTrue'
  <2>1. \A u \in DOMAIN db'.msgs : db'.msgs[u].cnt = mail'[u].cnt
    <3>1. \A u \in DOMAIN db.msgs : u \in 1 .. db.last /\ db.msgs[u].cnt = mail[u].cnt
      BY DEF IInv, RowsTrue, TypeOK, IsDb
    <3> QED BY <1>6, <1>7, <3>1
  <2>2. \A u : PartsOf(db', u) = PartsOf(db, u)
    BY <1>6 DEF PartsOf
  <2>3. PartsOf(db, uid) = {}
    <3>1. uid \notin DOMAIN db.msgs
      BY <1>1, <1>2 DEF IsDb
    <3> QED BY <3>1 DEF IInv, PartsBelong, PartsOf
  <2>4. \A u \in 1 .. db.last : /\ sent[u] \subseteq 1 .. mail[u].cnt
                                /\ IsFiniteSet(PartsOf(db, u))
                                /\ Cardinality(PartsOf(db, u)) <= Cardinality(sent[u])
    BY DEF IInv, RowsTrue
  <2>5. /\ sent[uid] \subseteq 1 .. mail'[uid].cnt /\ IsFiniteSet(PartsOf(db, uid))
        /\ Cardinality(PartsOf(db, uid)) <= Cardinality(sent[uid])
    BY <1>12, <2>3, FS_EmptySet
  <2> HIDE DEF PartsOf
  <2>6. \A u \in 1 .. db'.last : /\ sent'[u] \subseteq 1 .. mail'[u].cnt
                                 /\ IsFiniteSet(PartsOf(db', u))
                                 /\ Cardinality(PartsOf(db', u)) <= Cardinality(sent'[u])
    BY <1>7, <1>8, <1>17, <2>2, <2>4, <2>5
  <2>7. \A u \in Uids : u > db'.last => sent'[u] = {}
    <3>1. \A u \in Uids : u > db'.last => u > db.last
      BY <1>1, <1>2, <1>6 DEF Uids
    <3> QED BY <1>8, <3>1 DEF IInv, RowsTrue
  <2> QED BY <1>9, <2>1, <2>6, <2>7 DEF RowsTrue
<1>19. SentIsTrue'
  <2>1. \A u \in 1 .. db.last : told[u] = <<"sent">> => sent[u] = 1 .. mail[u].cnt
    BY DEF IInv, SentIsTrue
  <2>2. told[uid] # <<"sent">>
    BY <1>12
  <2>3. \A u \in 1 .. db'.last : told'[u] = <<"sent">> => sent'[u] = 1 .. mail'[u].cnt
    BY <1>7, <1>8, <1>17, <2>1, <2>2
  <2> QED BY <2>3 DEF SentIsTrue
<1> QED BY <1>11, <1>13, <1>14, <1>15, <1>16, <1>18, <1>19 DEF IInv

(* Nothing was sent.                                                       *)
LEMMA InitInv == Init => IInv
<1> SUFFICES ASSUME Init PROVE IInv
  OBVIOUS
<1>1. /\ db.last = 0 /\ db.msgs = <<>> /\ db.parts = <<>>
      /\ db = [last |-> db.last, msgs |-> db.msgs, parts |-> db.parts]
  BY DEF Init, NoMessages
<1>2. DOMAIN <<>> = {} /\ 1 .. 0 = {}
  OBVIOUS
<1>3. IsDb(db)
  BY <1>1, <1>2, OutAssumption DEF IsDb
<1>4. TypeOK
  <2>1. mail \in [1 .. db.last -> Asked]
    BY <1>1, <1>2 DEF Init
  <2>2. ref \in [Dsts -> Counter]
    <3>1. [row : FirstRefs, given : {0}] \subseteq Counter
      BY OutAssumption DEF Counter
    <3> QED BY <3>1 DEF Init
  <2>3. queue \in Seq(Task) /\ mr \in 0 .. MrMod - 1 /\ air \subseteq Flying
    BY OutAssumption DEF Init
  <2>4. /\ sent \in [Uids -> SUBSET (1 .. MaxParts)] /\ final \in [Uids -> SUBSET (1 .. MaxParts)]
        /\ told \in [Uids -> Seq(Ends)]
    BY DEF Init
  <2> QED BY <1>3, <2>1, <2>2, <2>3, <2>4 DEF TypeOK
<1>5. Untold /\ ToldOnce
  BY DEF Init, Untold, ToldOnce
<1>6. PartsBelong /\ TasksAhead
  BY <1>1, <1>2 DEF Init, PartsBelong, TasksAhead
<1>7. RowsTrue /\ SentIsTrue
  BY <1>1, <1>2 DEF Init, RowsTrue, SentIsTrue
<1> QED BY <1>4, <1>5, <1>6, <1>7 DEF IInv

(* Every step keeps the invariant.                                         *)
LEMMA NextInv ==
  ASSUME IInv, [Next]_vars
  PROVE  IInv'
<1>1. ASSUME NEW dst \in Dsts, NEW cnt \in 1 .. MaxParts, NEW srr \in BOOLEAN, Send(dst, cnt, srr)
      PROVE  IInv'
  BY <1>1, SendInv
<1>2. CASE at_response_cmgs \/ CmgsUnreadable
  BY <1>2, PartSentInv
<1>3. CASE at_response_cmgs_error \/ Disconnect \/ \E a \in air : Lost(a)
  BY <1>3, GivesUpInv
<1>4. ASSUME NEW a \in air, NEW st \in Reports, StatusReport(a, st)
      PROVE  IInv'
  BY <1>4, ReportInv
<1>5. CASE (\E uid \in DOMAIN db.msgs : Expires(uid)) \/ handle_expired_reports
  BY <1>5, ExpiryInv
<1>6. CASE UNCHANGED vars
  BY <1>6 DEF vars, IInv, TypeOK, Untold, ToldOnce, PartsBelong, TasksAhead, RowsTrue, SentIsTrue
<1>7. ASSUME NEW dst \in Dsts, SendRefused(dst)
      PROVE  IInv'
  BY <1>7, RefusedInv
<1> QED BY <1>1, <1>2, <1>3, <1>4, <1>5, <1>6, <1>7 DEF Next

(* The invariant, of every behaviour.                                      *)
THEOREM SendingInductive == Spec => []IInv
<1>1. IInv /\ [Next]_vars => IInv'
  BY NextInv
<1> QED BY <1>1, InitInv, PTL DEF Spec

(* ToldOnce: the dialplan hears of the end of a message once, for any      *)
(* number of messages, parts and destinations.  The row of outgoing_msg    *)
(* decides: whoever tells takes it out in the same transaction (Untold).   *)
THEOREM EndsToldOnce == Spec => []ToldOnce
<1>1. IInv => ToldOnce
  BY DEF IInv
<1> QED BY <1>1, SendingInductive, PTL

-----------------------------------------------------------------------------
(* References.                                                             *)

NextRef(row) == IF row + 1 = RefMod THEN 0 ELSE row + 1

(* From the second message on, smsdb_get_refid counts.                     *)
LEMMA RefidNext ==
  ASSUME NEW row \in 0 .. RefMod - 1
  PROVE  smsdb_get_refid(row) = [row |-> NextRef(row), res |-> NextRef(row)]
<1>1. RefMod \in Nat /\ RefMod # 0 /\ row # NoRow
  BY DbAssumption DEF NoRow
<1>2. (row + 1) % RefMod = NextRef(row)
  BY <1>1 DEF NextRef
<1> QED BY <1>1, <1>2 DEF smsdb_get_refid

(* A reference one further, possibly past the last.                        *)
LEMMA OneFurther ==
  ASSUME NEW a \in Int, NEW b \in 0 .. RefMod - 1, NEW k \in Int, NEW new \in BOOLEAN,
         After(a, k, new, b)
  PROVE  After(a, k + 1, new, NextRef(b))
<1>1. RefMod \in Nat
  BY DbAssumption
<1>2. PICK off \in {0, 1} : off = IF new THEN 1 ELSE 0
  OBVIOUS
<1>3. PICK q \in Int : a + k = b + off + q * RefMod
  BY <1>2 DEF After
<1>4. q * RefMod \in Int /\ (q + 1) * RefMod = q * RefMod + RefMod
  BY <1>1
<1>5. \E p \in Int : a + (k + 1) = NextRef(b) + off + p * RefMod
  <2>1. CASE b + 1 = RefMod
    <3>1. a + (k + 1) = NextRef(b) + off + (q + 1) * RefMod
      BY <1>1, <1>2, <1>3, <1>4, <2>1 DEF NextRef
    <3> QED BY <3>1
  <2>2. CASE b + 1 # RefMod
    <3>1. a + (k + 1) = NextRef(b) + off + q * RefMod
      BY <1>1, <1>2, <1>3, <1>4, <2>2 DEF NextRef
    <3> QED BY <3>1
  <2> QED BY <2>1, <2>2
<1> QED BY <1>2, <1>5 DEF After

(* A reference given out is one further than the last.                     *)
LEMMA RowMoves ==
  ASSUME IInv, RefsAhead, NEW dst \in Dsts, Referenced(dst), NEW u \in 1 .. db.last
  PROVE  UpTo(mail[u], ref'[mail[u].dst])
<1>1. /\ ref \in [Dsts -> Counter] /\ mail[u] \in Asked /\ RefMod \in Nat /\ RefMod # 0
      /\ UpTo(mail[u], ref[mail[u].dst])
  BY DbAssumption DEF IInv, TypeOK, RefsAhead
<1>2. CASE mail[u].dst # dst
  <2>1. mail[u].dst \in Dsts \ {dst}
    BY <1>1, <1>2 DEF Asked
  <2>2. ref'[mail[u].dst] = ref[mail[u].dst]
    BY <1>1, <2>1, ReferencedType
  <2> QED BY <1>1, <2>2
<1>3. CASE mail[u].dst = dst
  <2>1. PICK row \in 0 .. RefMod - 1 : row = ref[dst].row
    BY <1>1, <1>3 DEF UpTo, Counter
  <2>2. PICK n \in Nat : n = ref[dst].given
    BY <1>1, OutAssumption DEF Counter
  <2>3. PICK a \in Int, k \in Nat, new \in BOOLEAN :
          a = mail[u].ref /\ k = mail[u].nth /\ new = mail[u].new
    BY <1>1, DbAssumption DEF Asked
  <2>4. k <= n /\ After(a, n - k, new, row)
    BY <1>1, <1>3, <2>1, <2>2, <2>3 DEF UpTo
  <2>5. smsdb_get_refid(row).row = NextRef(row) /\ NextRef(row) # NoRow
    BY <1>1, RefidNext DEF NextRef, NoRow
  <2>6. ref'[dst].row = NextRef(row) /\ ref'[dst].given = n + 1
    BY <1>1, <2>1, <2>2, <2>5, ReferencedType
  <2>7. After(a, (n - k) + 1, new, NextRef(row))
    <3>1. n - k \in Int
      OBVIOUS
    <3> QED BY <2>4, <3>1, OneFurther
  <2>8. (n + 1) - k = (n - k) + 1 /\ k <= n + 1
    BY <2>4
  <2> QED BY <1>3, <2>3, <2>5, <2>6, <2>7, <2>8 DEF UpTo
<1> QED BY <1>2, <1>3

(* The next message of a destination has a reference one further.          *)
LEMMA SendCounts ==
  ASSUME IInv, RefsAhead, NEW dst \in Dsts, NEW cnt \in 1 .. MaxParts, NEW srr \in BOOLEAN,
         Send(dst, cnt, srr), IInv'
  PROVE  RefsAhead'
<1>1. /\ ref \in [Dsts -> Counter] /\ mail \in [1 .. db.last -> Asked]
      /\ db.last \in Nat /\ RefMod \in Nat /\ RefMod # 0 /\ Referenced(dst)
      /\ IsDb(db) /\ db.last < MaxMessages
  BY DbAssumption DEF IInv, TypeOK, IsDb, Send
<1>2. PICK uid \in Nat : uid = db.last + 1
  BY <1>1
<1>3. /\ mail'[uid].dst = dst /\ mail'[uid].ref = smsdb_get_refid(ref[dst].row).res
      /\ mail'[uid].nth = ref[dst].given + 1 /\ mail'[uid].new = (ref[dst].row = NoRow)
      /\ \A u \in 1 .. db.last : mail'[u] = mail[u]
  <2> DEFINE ask == [dst |-> dst, ref |-> smsdb_get_refid(ref[dst].row).res, cnt |-> cnt, srr |-> srr,
                     nth |-> ref[dst].given + 1, new |-> ref[dst].row = NoRow]
  <2>1. mail' = Set(mail, uid, ask)
    BY <1>2 DEF Send
  <2>2. /\ ask.dst = dst /\ ask.ref = smsdb_get_refid(ref[dst].row).res
        /\ ask.nth = ref[dst].given + 1 /\ ask.new = (ref[dst].row = NoRow)
    OBVIOUS
  <2> HIDE DEF ask
  <2>3. uid \notin 1 .. db.last
    BY <1>1, <1>2
  <2> QED BY <1>1, <2>1, <2>2, <2>3 DEF Set
<1>4. db'.last = uid
  <2>1. db' = smsdb_outgoing_add(db, dst, cnt, srr)
    BY DEF Send
  <2> QED BY <1>1, <1>2, <2>1, AddDb
<1>5. 1 .. uid = 1 .. db.last \union {uid} /\ uid \notin 1 .. db.last
  BY <1>1, <1>2
<1>6. /\ ref'[dst].row = smsdb_get_refid(ref[dst].row).row
      /\ ref'[dst].given = ref[dst].given + 1 /\ ref[dst].given \in Nat
  BY <1>1, OutAssumption, ReferencedType DEF Counter
<1>7. \A u \in 1 .. db.last : UpTo(mail[u], ref'[mail[u].dst])
  BY <1>1, RowMoves
<1>8. UpTo(mail'[uid], ref'[dst])
  <2>1. PICK n \in Nat : n = ref'[dst].given /\ n = mail'[uid].nth
    BY <1>3, <1>6
  <2>2. n <= n /\ n - n = 0
    BY <2>1
  <2>3. CASE ref[dst].row = NoRow
    <3>1. mail'[uid].ref = 1 % RefMod /\ ref'[dst].row = 0 /\ mail'[uid].new = TRUE
      BY <1>3, <1>6, <2>3 DEF smsdb_get_refid
    <3>2. After(1 % RefMod, 0, TRUE, 0)
      <4>1. CASE RefMod = 1
        <5>1. (1 % RefMod) + 0 = 0 + 1 + (-1) * RefMod
          BY <4>1
        <5> QED BY <5>1 DEF After
      <4>2. CASE RefMod # 1
        <5>1. (1 % RefMod) + 0 = 0 + 1 + 0 * RefMod
          BY <1>1, <4>2
        <5> QED BY <5>1 DEF After
      <4> QED BY <4>1, <4>2
    <3>3. 0 # NoRow
      BY DEF NoRow
    <3> QED BY <2>1, <2>2, <3>1, <3>2, <3>3 DEF UpTo
  <2>4. CASE ref[dst].row # NoRow
    <3>1. PICK row \in 0 .. RefMod - 1 : row = ref[dst].row
      BY <1>1, <2>4 DEF Counter
    <3>2. smsdb_get_refid(row) = [row |-> NextRef(row), res |-> NextRef(row)]
      BY RefidNext
    <3>3. PICK next \in Nat : next = NextRef(row)
      BY <1>1 DEF NextRef
    <3>4. mail'[uid].ref = next /\ ref'[dst].row = next
      BY <1>3, <1>6, <3>1, <3>2, <3>3
    <3>7. mail'[uid].new = FALSE
      BY <1>3, <2>4, Zenon
    <3>5. After(next, 0, FALSE, next)
      <4>1. next + 0 = next + 0 + 0 * RefMod
        BY <1>1
      <4> QED BY <4>1 DEF After
    <3>6. next # NoRow
      BY DEF NoRow
    <3> QED BY <2>1, <2>2, <3>4, <3>5, <3>6, <3>7 DEF UpTo
  <2> QED BY <2>3, <2>4
<1>9. ASSUME NEW u \in 1 .. db.last, mail[u].dst = dst
      PROVE  Later(mail[u], mail'[uid])
  <2>1. /\ UpTo(mail[u], ref[dst]) /\ UpTo(mail[u], ref'[dst])
    BY <1>7, <1>9 DEF RefsAhead
  <2>2. PICK row \in 0 .. RefMod - 1 : row = ref[dst].row
    BY <1>1, <2>1 DEF UpTo, Counter
  <2>3. smsdb_get_refid(row).res = smsdb_get_refid(row).row
    BY RefidNext
  <2>4. mail'[uid].ref = ref'[dst].row /\ mail'[uid].nth = ref'[dst].given
    BY <1>3, <1>6, <2>2, <2>3
  <2>5. mail[u].nth < mail'[uid].nth
    <3>1. mail[u].nth <= ref[dst].given
      BY <2>1 DEF UpTo
    <3>2. mail[u].nth \in Nat
      BY <1>1, OutAssumption DEF Asked
    <3> QED BY <1>3, <1>6, <3>1, <3>2
  <2> QED BY <2>1, <2>4, <2>5 DEF UpTo, Later
<1>10. ASSUME NEW u \in 1 .. uid
       PROVE  UpTo(mail'[u], ref'[mail'[u].dst])
  BY <1>3, <1>5, <1>7, <1>8
<1>11. ASSUME NEW u \in 1 .. uid, NEW v \in 1 .. uid, u < v, mail'[u].dst = mail'[v].dst
       PROVE  Later(mail'[u], mail'[v])
  <2>1. u \in 1 .. db.last
    BY <1>1, <1>2, <1>11
  <2>2. CASE v = uid
    BY <1>3, <1>9, <1>11, <2>1, <2>2
  <2>3. CASE v \in 1 .. db.last
    BY <1>3, <1>11, <2>1, <2>3 DEF RefsAhead
  <2> QED BY <1>5, <2>2, <2>3
<1> QED BY <1>4, <1>10, <1>11 DEF RefsAhead

(* A reference that is used up.                                            *)
LEMMA RefusedCounts ==
  ASSUME IInv, RefsAhead, NEW dst \in Dsts, SendRefused(dst)
  PROVE  RefsAhead'
<1>1. \A u \in 1 .. db.last : UpTo(mail[u], ref'[mail[u].dst])
  BY RowMoves DEF SendRefused
<1>2. UNCHANGED <<db, mail>>
  BY DEF SendRefused
<1> QED BY <1>1, <1>2 DEF RefsAhead

(* No other step gives out a reference.                                    *)
LEMMA OthersDoNotCount ==
  ASSUME IInv, RefsAhead, UNCHANGED <<ref, mail>>, IInv'
  PROVE  RefsAhead'
<1>1. DOMAIN mail = 1 .. db.last /\ DOMAIN mail' = 1 .. db'.last
  BY DEF IInv, TypeOK
<1>2. db.last \in Nat /\ db'.last \in Nat
  BY OutAssumption DEF IInv, TypeOK, IsDb
<1>3. db'.last = db.last
  BY <1>1, <1>2
<1> QED BY <1>3 DEF RefsAhead

(* References that differ by fewer than RefMod steps differ, but for the   *)
(* first of a new row.                                                     *)
LEMMA CountingIsFresh ==
  ASSUME IInv, RefsAhead
  PROVE  FreshReferences
<1> SUFFICES ASSUME NEW u \in 1 .. db.last, NEW v \in 1 .. db.last,
                    u < v, mail[u].dst = mail[v].dst, mail[u].ref = mail[v].ref
             PROVE  mail[v].nth - mail[u].nth >= RefMod \/ (mail[u].new /\ mail[v].nth = mail[u].nth + 1)
  BY DEF FreshReferences
<1>1. Later(mail[u], mail[v])
  BY DEF RefsAhead
<1>2. mail[u] \in Asked /\ mail[v] \in Asked /\ RefMod \in Nat
  BY DbAssumption DEF IInv, TypeOK
<1>3. PICK a \in Int, k \in Nat, n \in Nat :
        a = mail[u].ref /\ a = mail[v].ref /\ k = mail[u].nth /\ n = mail[v].nth
  BY <1>2, DbAssumption, OutAssumption DEF Asked
<1>4. PICK off \in {0, 1} : off = IF mail[u].new THEN 1 ELSE 0
  OBVIOUS
<1>5. PICK q \in Int : k < n /\ a + (n - k) = a + off + q * RefMod
  BY <1>1, <1>3, <1>4 DEF Later, After
<1>6. q * RefMod \in Int
  BY <1>2
<1>7. n - k = off + q * RefMod
  BY <1>3, <1>4, <1>5, <1>6
<1>8. CASE q < 0
  <2>1. PICK p \in Nat : q = -1 - p
    BY <1>8
  <2>2. p * RefMod \in Nat /\ (-1 - p) * RefMod = -RefMod - p * RefMod
    BY <1>2
  <2>3. q * RefMod <= -RefMod /\ n - k >= 1
    BY <1>2, <1>5, <2>1, <2>2
  <2>4. RefMod # 0
    BY DbAssumption
  <2> QED BY <1>2, <1>4, <1>6, <1>7, <2>3, <2>4
<1>9. CASE q = 0
  <2>1. q * RefMod = 0
    BY <1>2, <1>9
  <2>2. off = 1 /\ n = k + 1
    BY <1>4, <1>5, <1>7, <2>1
  <2> QED BY <1>3, <1>4, <2>2
<1>10. CASE q > 0
  <2>1. PICK p \in Nat : q = p + 1
    BY <1>10
  <2>2. p * RefMod \in Nat /\ (p + 1) * RefMod = p * RefMod + RefMod
    BY <1>2
  <2>3. n - k >= RefMod
    BY <1>2, <1>4, <1>7, <2>1, <2>2
  <2> QED BY <1>3, <2>3
<1> QED BY <1>8, <1>9, <1>10

(* OutgoingIsTrue, for any number of messages, parts and destinations, any *)
(* range of references and any rows to begin with: the rows of             *)
(* outgoing_part belong to messages, "sent" is told when every part was    *)
(* accepted, and two messages to one destination have the same reference   *)
(* only when RefMod references were given out between them, or when they   *)
(* are the first two of a destination that had no row.                     *)
THEOREM TablesTellTheTruth == Spec => []OutgoingIsTrue
<1>1. Init => RefsAhead
  <2> SUFFICES ASSUME Init PROVE RefsAhead
    OBVIOUS
  <2>1. db.last = 0
    BY DEF Init, NoMessages
  <2>2. 1 .. db.last = {}
    BY <2>1
  <2> QED BY <2>2 DEF Init, RefsAhead
<1>2. IInv /\ IInv' /\ RefsAhead /\ [Next]_vars => RefsAhead'
  <2> SUFFICES ASSUME IInv, IInv', RefsAhead, [Next]_vars PROVE RefsAhead'
    OBVIOUS
  <2>1. ASSUME NEW dst \in Dsts, NEW cnt \in 1 .. MaxParts, NEW srr \in BOOLEAN, Send(dst, cnt, srr)
        PROVE  RefsAhead'
    BY <2>1, SendCounts
  <2>2. ASSUME NEW dst \in Dsts, SendRefused(dst)
        PROVE  RefsAhead'
    BY <2>2, RefusedCounts
  <2>3. CASE UNCHANGED <<ref, mail>>
    BY <2>3, OthersDoNotCount
  <2>4. \/ \E dst \in Dsts, cnt \in 1 .. MaxParts, srr \in BOOLEAN : Send(dst, cnt, srr)
        \/ \E dst \in Dsts : SendRefused(dst)
        \/ UNCHANGED <<ref, mail>>
    BY DEF Next, vars, at_response_cmgs, CmgsUnreadable, at_response_cmgs_error, Disconnect,
           Lost, StatusReport, Expires, handle_expired_reports
  <2> QED BY <2>1, <2>2, <2>3, <2>4
<1>3. IInv /\ RefsAhead => OutgoingIsTrue
  BY CountingIsFresh DEF IInv, OutgoingIsTrue
<1> QED BY <1>1, <1>2, <1>3, SendingInductive, PTL DEF Spec

-----------------------------------------------------------------------------
(* The shared connection.                                                  *)

(* A transaction belongs to a thread.                                      *)
TxTyped ==
  /\ left \in [Threads -> Int]
  /\ tx \in Threads \union {NoTx}
  /\ OwnTransaction

(* OwnTransaction: the statements of a thread run in the transaction it    *)
(* began itself, for any number of threads and operations and whichever    *)
(* COMMIT fails; it takes that commit_transaction does nothing when BEGIN  *)
(* failed.                                                                 *)
THEOREM EachItsOwn ==
  ASSUME NoTx \notin Threads, Statements \in Nat
  PROVE  TxSpec => []OwnTransaction
<1>1. TxInit => TxTyped
  BY DEF TxInit, TxTyped, OwnTransaction, Idle
<1>2. ASSUME TxTyped, [TxNext]_txVars
      PROVE  TxTyped'
  <2>1. ASSUME NEW t \in Threads, SplitBegin(t)
        PROVE  TxTyped'
    BY <1>2, <2>1 DEF TxTyped, SplitBegin, Begins, commit_transaction,
                      OwnTransaction, Idle
  <2>2. ASSUME NEW t \in Threads, SplitStatement(t)
        PROVE  TxTyped'
    BY <1>2, <2>2 DEF TxTyped, SplitStatement, OwnTransaction, Idle
  <2>3. ASSUME NEW t \in Threads, NEW ok \in BOOLEAN, SplitCommit(t, ok)
        PROVE  TxTyped'
    BY <1>2, <2>3 DEF TxTyped, SplitCommit, commit_transaction, OwnTransaction, Idle
  <2>4. ASSUME NEW t \in Threads, NEW ok \in BOOLEAN, Whole(t, ok)
        PROVE  TxTyped'
    BY <1>2, <2>4 DEF TxTyped, Whole, Begins, commit_transaction,
                      OwnTransaction, Idle
  <2>5. CASE UNCHANGED txVars
    BY <1>2, <2>5 DEF TxTyped, txVars, OwnTransaction
  <2> QED BY <1>2, <2>1, <2>2, <2>3, <2>4, <2>5 DEF TxNext
<1>3. TxTyped => OwnTransaction
  BY DEF TxTyped
<1> QED BY <1>1, <1>2, <1>3, PTL DEF TxSpec
=============================================================================
