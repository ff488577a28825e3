------------------------------- MODULE SmsOut -------------------------------
(***************************************************************************)
(* Messages sent by one device: at_enqueue_sms, the answers to AT+CMGS and *)
(* to the text, status reports, expiry.  The queue holds one task per      *)
(* message, a pair of commands per part (modules AtQueue and AtSession say *)
(* how a task proceeds; here a pair is one step, which succeeds or fails). *)
(* The database is a file that outlives a session with the modem.          *)
(***************************************************************************)
EXTENDS SmsDb

CONSTANTS
  Dsts,         \* destinations
  MaxParts,     \* bound: parts of a message (255)
  MaxMessages,  \* bound: messages sent
  MaxRefs,      \* bound: references given out for a destination
  MrMod,        \* 256: message references the modem gives to the parts it sends
  FirstRefs,    \* rows of outgoing_ref to begin with; NoRow in a new database
  Reports,      \* statuses a network may report, among "ok", "failed", "trying"
  LinesGarble   \* whether a line "+CMGS:" may be unreadable

ASSUME OutAssumption ==
  /\ MaxParts \in Nat /\ MaxMessages \in Nat /\ MaxRefs \in Nat /\ MrMod \in Nat \ {0}
  /\ FirstRefs \subseteq {NoRow} \union 0 .. RefMod - 1
  /\ Reports \subseteq {"ok", "failed", "trying"}
  /\ LinesGarble \in BOOLEAN

VARIABLES
  db,       \* outgoing_msg and outgoing_part
  ref,      \* outgoing_ref, with the references given out: [row, given]
  mail,     \* history: the messages in the table, by uid
  queue,    \* tasks [uid, left]: the parts still to be sent
  mr,       \* the modem's next message reference
  air,      \* parts the network will report on: [uid, part, dst, mr]
  sent,     \* parts of every message that the modem accepted
  final,    \* parts of every message that a final report was handled for
  told      \* history: what the dialplan was told of a message, beyond "enqueued"

vars == <<db, ref, mail, queue, mr, air, sent, final, told>>

Uids == 1 .. MaxMessages
Ends == {"sent", "error", "expired", "status"}

(* The dialplan is told (channel_start_local_report).                      *)
Tell(uid, what) == told' = [told EXCEPT ![uid] = Append(@, what)]

(* at_enqueue_sms asks for a reference,                                    *)
Referenced(dst) ==
  /\ ref[dst].given < MaxRefs
  /\ ref' = [ref EXCEPT ![dst] = [row |-> smsdb_get_refid(@.row).row, given |-> @.given + 1]]

(* enters the message and enqueues its parts; when it is entered but its   *)
(* task cannot be made (pdus_enqueue), it stays in the table.              *)
Send(dst, cnt, srr) ==
  /\ db.last < MaxMessages
  /\ Referenced(dst)
  /\ LET uid == db.last + 1
     IN  /\ mail' = Set(mail, uid, [dst |-> dst, ref |-> smsdb_get_refid(ref[dst].row).res,
                                    cnt |-> cnt, srr |-> srr, nth |-> ref[dst].given + 1,
                                    new |-> ref[dst].row = NoRow])
         /\ db' = smsdb_outgoing_add(db, dst, cnt, srr)
         /\ queue' \in {Append(queue, [uid |-> uid, left |-> cnt]), queue}
  /\ UNCHANGED <<mr, air, sent, final, told>>

(* The text makes no message (pdus_build) or cannot be entered: the        *)
(* reference is used up.                                                   *)
SendRefused(dst) ==
  /\ Referenced(dst)
  /\ UNCHANGED <<db, mail, queue, mr, air, sent, final, told>>

(* at_queue_remove_cmd, after the OK of a part.                            *)
TaskAdvanced ==
  IF queue[1].left = 1 THEN Tail(queue) ELSE [queue EXCEPT ![1].left = @ - 1]

(* The network takes the part; with a status report requested it will      *)
(* report on it.                                                           *)
Taken ==
  LET uid  == queue[1].uid
      m    == mail[uid]
      part == m.cnt - queue[1].left + 1
  IN  /\ mr' = (mr + 1) % MrMod
      /\ sent' = [sent EXCEPT ![uid] = @ \union {part}]
      /\ air' = IF m.srr THEN air \union {[uid |-> uid, part |-> part, dst |-> m.dst, mr |-> mr]}
                         ELSE air

(* at_response_cmgs.                                                       *)
at_response_cmgs ==
  /\ queue # <<>>
  /\ Taken
  /\ queue' = TaskAdvanced
  /\ LET r == smsdb_outgoing_part_put(db, queue[1].uid, mr)
     IN  /\ db' = r.db
         /\ IF r.res = 0 THEN Tell(queue[1].uid, "sent") ELSE UNCHANGED told
  /\ UNCHANGED <<ref, mail, final>>

(* The same with a line "+CMGS:" that cannot be parsed.                    *)
CmgsUnreadable ==
  /\ LinesGarble
  /\ queue # <<>>
  /\ Taken
  /\ queue' = TaskAdvanced
  /\ UNCHANGED <<db, ref, mail, final, told>>

(* Seeded fault: the message stays in the database.                        *)
CmgsErrorForgets ==
  /\ queue # <<>>
  /\ LET uid == queue[1].uid
     IN  /\ db' = db
         /\ IF uid \in DOMAIN db.msgs THEN Tell(uid, "error") ELSE UNCHANGED told
  /\ queue' = Tail(queue)
  /\ UNCHANGED <<ref, mail, mr, air, sent, final>>

(* AT+CMGS or the text is refused: the task is dropped, at_response_cmgs_error.  *)
at_response_cmgs_error ==
  /\ queue # <<>>
  /\ LET uid == queue[1].uid
     IN  IF uid \in DOMAIN db.msgs
           THEN db' = outgoing_clear(db, uid) /\ Tell(uid, "error")
           ELSE UNCHANGED <<db, told>>
  /\ queue' = Tail(queue)
  /\ UNCHANGED <<ref, mail, mr, air, sent, final>>

(* The session with the modem ends: the queue is flushed.                  *)
Disconnect ==
  /\ queue # <<>>
  /\ queue' = <<>>
  /\ UNCHANGED <<db, ref, mail, mr, air, sent, final, told>>

(* A status report arrives, at_response_msg: a temporary status, or the    *)
(* last one for its part.                                                  *)
StatusReport(a, st) ==
  /\ a \in air
  /\ air' = IF Final(st) THEN air \ {a} ELSE air
  /\ final' = IF Final(st) THEN [final EXCEPT ![a.uid] = @ \union {a.part}] ELSE final
  /\ LET r == smsdb_outgoing_part_status(db, a.dst, a.mr, st)
     IN  /\ db' = r.db
         /\ IF r.res = 0 THEN Tell(r.uid, "status") ELSE UNCHANGED told
  /\ UNCHANGED <<ref, mail, queue, mr, sent>>

(* A report is lost.                                                       *)
Lost(a) ==
  /\ a \in air
  /\ air' = air \ {a}
  /\ UNCHANGED <<db, ref, mail, queue, mr, sent, final, told>>

(* The validity of a message passes.                                       *)
Expires(uid) ==
  /\ uid \in DOMAIN db.msgs
  /\ ~db.msgs[uid].expired
  /\ db' = [db EXCEPT !.msgs[uid].expired = TRUE]
  /\ UNCHANGED <<ref, mail, queue, mr, air, sent, final, told>>

(* handle_expired_reports, a job of the monitor thread.                    *)
handle_expired_reports ==
  /\ \E uid \in Expired(db) :
       /\ db' = outgoing_clear(db, uid)
       /\ Tell(uid, "expired")
  /\ UNCHANGED <<ref, mail, queue, mr, air, sent, final>>

Init ==
  /\ db = NoMessages
  /\ ref \in [Dsts -> [row : FirstRefs, given : {0}]]
  /\ mail = <<>>
  /\ queue = <<>>
  /\ mr = 0
  /\ air = {}
  /\ sent = [u \in Uids |-> {}]
  /\ final = [u \in Uids |-> {}]
  /\ told = [u \in Uids |-> <<>>]

Next ==
  \/ \E dst \in Dsts, cnt \in 1 .. MaxParts, srr \in BOOLEAN : Send(dst, cnt, srr)
  \/ \E dst \in Dsts : SendRefused(dst)
  \/ at_response_cmgs \/ CmgsUnreadable \/ at_response_cmgs_error \/ Disconnect
  \/ \E a \in air : Lost(a) \/ \E st \in Reports : StatusReport(a, st)
  \/ \E uid \in DOMAIN db.msgs : Expires(uid)
  \/ handle_expired_reports

Spec == Init /\ [][Next]_vars

(* Time passes, and the monitor thread hands out its job again and again.  *)
Fairness ==
  /\ WF_vars(handle_expired_reports)
  /\ \A uid \in Uids : WF_vars(Expires(uid))

FairSpec == Spec /\ Fairness

-----------------------------------------------------------------------------
Message == [dst : Dsts, cnt : 1 .. MaxParts, srr : BOOLEAN, expired : BOOLEAN]
Row     == [uid : Uids, st : {None} \union Reports]
Asked   == [dst : Dsts, ref : 0 .. RefMod - 1, cnt : 1 .. MaxParts, srr : BOOLEAN,
            nth : 1 .. MaxRefs, new : BOOLEAN]
Counter == [row : {NoRow} \union 0 .. RefMod - 1, given : 0 .. MaxRefs]
Task    == [uid : Uids, left : 1 .. MaxParts]
Flying  == [uid : Uids, part : 1 .. MaxParts, dst : Dsts, mr : 0 .. MrMod - 1]

IsDb(d) ==
  /\ d = [last |-> d.last, msgs |-> d.msgs, parts |-> d.parts]
  /\ d.last \in 0 .. MaxMessages
  /\ DOMAIN d.msgs \subseteq 1 .. d.last
  /\ \A u \in DOMAIN d.msgs : d.msgs[u] \in Message
  /\ DOMAIN d.parts \subseteq Dsts \X (0 .. MrMod - 1)
  /\ \A k \in DOMAIN d.parts : d.parts[k] \in Row

TypeOK ==
  /\ IsDb(db)
  /\ ref \in [Dsts -> Counter]
  /\ mail \in [1 .. db.last -> Asked]
  /\ queue \in Seq(Task)
  /\ mr \in 0 .. MrMod - 1
  /\ air \subseteq Flying
  /\ sent \in [Uids -> SUBSET (1 .. MaxParts)]
  /\ final \in [Uids -> SUBSET (1 .. MaxParts)]
  /\ told \in [Uids -> Seq(Ends)]

(* The dialplan hears of the end of a message once: sent, refused, expired *)
(* and reported on exclude each other, although errors, late reports and   *)
(* the expiry race (the row of outgoing_msg decides).                      *)
ToldOnce == \A u \in Uids : Len(told[u]) <= 1

(* No part outlives its message: a row left behind would take the reports  *)
(* of a later message with the same reference.                             *)
PartsBelong == \A k \in DOMAIN db.parts : db.parts[k].uid \in DOMAIN db.msgs

(* "Sent" is only told of a message every part of which was accepted,      *)
(* although references wrap around and collide with older rows.            *)
SentIsTrue ==
  \A u \in 1 .. db.last : told[u] = <<"sent">> => sent[u] = 1 .. mail[u].cnt

(* Messages to one destination have different references until the        *)
(* references run out, so that a receiver tells their parts apart, but for *)
(* the first two after a database is made: the row smsdb_get_refid inserts *)
(* says 0 when 1 was returned, and 1 is returned once more.                *)
FreshReferences ==
  \A u, v \in 1 .. db.last :
    LET a == mail[u]
        b == mail[v]
    IN  u < v /\ a.dst = b.dst /\ a.ref = b.ref =>
          b.nth - a.nth >= RefMod \/ (a.new /\ b.nth = a.nth + 1)

(* Rows of the tables tell the truth although errors, reports and expiry   *)
(* race and references wrap: no part outlives its message, "sent" is only  *)
(* told when every part was accepted, and messages to one number differ in *)
(* their references until these run out, the first two after a database is *)
(* made excepted (smsdb_outgoing_part_put, outgoing_clear,                 *)
(* smsdb_get_refid).                                                       *)
OutgoingIsTrue == PartsBelong /\ SentIsTrue /\ FreshReferences

(* Every message comes to an end that the dialplan hears of.               *)
EveryMessageEnds == \A u \in Uids : (db.last >= u) ~> (told[u] # <<>>)

(* A message that is to be reported on is forgotten only when "everything  *)
(* is finished" (smsdb.c:879): once all of its reports are in, the         *)
(* dialplan knows the status.                                              *)
StatusIsTold ==
  \A u \in 1 .. db.last :
    mail[u].srr /\ final[u] = 1 .. mail[u].cnt => told[u] # <<"sent">>

(* A message that was "Successfully sent" (at_response.c:1433) is not      *)
(* reported as failed when its validity has passed.                        *)
SentDoesNotExpire ==
  \A u \in 1 .. db.last : told[u] = <<"expired">> => sent[u] # 1 .. mail[u].cnt
=============================================================================
