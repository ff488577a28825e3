-------------------------------- MODULE SmsIn --------------------------------
(***************************************************************************)
(* Messages received by one device.  Peers that run the same code give     *)
(* each message its reference (smsdb_get_refid) and send it in parts; the  *)
(* network delivers the parts in any order and some of them twice; the     *)
(* modem stores them and notifies (+CMTI), or hands them over (+CMT).  The *)
(* device reads, stores, assembles and deletes them.                       *)
(*                                                                         *)
(* The queue holds the commands of this exchange only; module AtQueue      *)
(* models the whole of it.                                                 *)
(***************************************************************************)
EXTENDS SmsDb

CONSTANTS
  Peers,        \* addresses of senders
  Parts,        \* parts of every message
  MaxFromPeer,  \* bound: messages a peer sends
  PeerRef,      \* the peers' outgoing_ref to begin with
  Slots,        \* places of the modem's message store
  Direct,       \* msg_direct: parts are handed over and not stored
  Acks,         \* msg_service > 0: what is handed over has to be acknowledged
  Autodelete,   \* autodeletesms
  MaxDups,      \* bound: parts the network delivers once more
  RowsAge,      \* whether the time to live of a row may pass
  LinkFails,    \* whether the session with the modem may end
  PartsGarble,  \* whether the line of a message may be unreadable
  Refusals      \* whether AT+CMGR, AT+CMGL and BEGIN may be refused

VARIABLES
  peer,       \* of each sender: [ref, sent], its outgoing_ref and its messages' references
  net,        \* parts on their way
  dups,       \* duplicates still to come
  store,      \* the modem's store: the parts by slot
  unread,     \* slots whose message was not read yet
  unacked,    \* parts handed over and not acknowledged
  inqueue,    \* commands [cmd, idx]; the first one is on the wire
  answered,   \* the line of the first command (AT+CMGR) has been handled
  index,      \* incoming_sms_index
  rows,       \* incoming_msg
  inbox,      \* what the dialplan was given: the parts of every message
  harmed      \* a ghost: whether something has happened that costs a part

inVars ==
  <<peer, net, dups, store, unread, unacked, inqueue, answered, index, rows, inbox, harmed>>

NoIndex == -1

(* A part knows its message (a ghost: the text) and what its header says.  *)
Part(p, n, ref, k) == [addr |-> p, msg |-> n, ref |-> ref, order |-> k]

Cmd(cmd, idx) == [cmd |-> cmd, idx |-> idx]

(* at_queue_insert, at the end or, with priority, after the head.          *)
AtEnd(q, c) == Append(q, c)
AfterHead(q, c) == IF q = <<>> THEN <<c>> ELSE <<Head(q), c>> \o Tail(q)

-----------------------------------------------------------------------------
(* What a handler of a line makes of [queue, index, rows, inbox].          *)

Now == [queue |-> inqueue, index |-> index, rows |-> rows, inbox |-> inbox]

Becomes(s) == inqueue' = s.queue /\ index' = s.index /\ rows' = s.rows /\ inbox' = s.inbox

at_enqueue_delete_sms(s, idx) == [s EXCEPT !.queue = AfterHead(@, Cmd("CMGD", idx))]

at_sms_retrieved(s) ==
  [(IF s.index # NoIndex /\ Autodelete THEN at_enqueue_delete_sms(s, s.index) ELSE s)
     EXCEPT !.index = NoIndex]

RetrieveAgain(s, idx) ==   \* seeded fault: does not look whether one is being read
  [s EXCEPT !.index = idx, !.queue = AtEnd(@, Cmd("CMGR", idx))]

at_enqueue_retrieve_sms(s, idx) ==
  IF s.index # NoIndex
    THEN s   \* "already in progress"
    ELSE [s EXCEPT !.index = idx, !.queue = AtEnd(@, Cmd("CMGR", idx))]

(* The part of at_response_msg that all messages share: the state, and     *)
(* whether the message is complete (msg_complete), which a part that could *)
(* not be put counts as.                                                   *)
Received(s, part, begun) ==
  LET new == [addr |-> part.addr, ref |-> part.ref, parts |-> Parts, order |-> part.order,
              text |-> <<part.addr, part.msg, part.order>>, old |-> FALSE]
      r   == smsdb_put(s.rows, new, begun)
  IN  IF Parts <= 1
        THEN [s |-> [s EXCEPT !.inbox = @ \union {<<new.text>>}], complete |-> TRUE]
        ELSE [s |-> [s EXCEPT !.rows = r.rows,
                       !.inbox = IF r.res = Parts THEN @ \union {r.out} ELSE @],
              complete |-> r.res <= 0 \/ r.res = Parts]

(* at_response_msg for +CMGR, +CMT and a line of +CMGL; an unreadable line *)
(* is treated as read.                                                     *)
MsgCmgr(s, part, garbled, begun) ==
  at_sms_retrieved(IF garbled THEN s ELSE Received(s, part, begun).s)

MsgCmt(s, part, garbled, begun) ==
  LET r == IF garbled THEN s ELSE Received(s, part, begun).s
  IN  IF Acks THEN [r EXCEPT !.queue = AfterHead(@, Cmd("CNMA", 0))] ELSE r

MsgCmgl(s, part, idx, garbled, begun) ==
  IF garbled
    THEN s
    ELSE LET r == Received(s, part, begun)
         IN  IF Autodelete /\ r.complete THEN at_enqueue_delete_sms(r.s, idx) ELSE r.s

-----------------------------------------------------------------------------
(* Peers and network.                                                      *)

PeerSends(p) ==
  /\ Len(peer[p].sent) < MaxFromPeer
  /\ LET r == smsdb_get_refid(peer[p].ref)
         n == Len(peer[p].sent) + 1
     IN  /\ peer' = [peer EXCEPT ![p] = [ref |-> r.row, sent |-> Append(@.sent, r.res)]]
         /\ net' = net \union {Part(p, n, r.res, k) : k \in 1 .. Parts}
  /\ UNCHANGED <<dups, store, unread, unacked, inqueue, answered, index, rows, inbox, harmed>>

(* A part leaves the network, or will be delivered once more.              *)
Delivered(part) ==
  \/ net' = net \ {part} /\ UNCHANGED dups
  \/ dups > 0 /\ dups' = dups - 1 /\ UNCHANGED net

(* A part is lost with a line that cannot be read, and when smsdb_put has  *)
(* no room for it or no transaction, which does not keep the device from   *)
(* acknowledging or deleting it.                                           *)
Text(part) == <<part.addr, part.msg, part.order>>

NotPut(part, begun) ==
  /\ Parts > 1 /\ (~begun \/ Cardinality({r \in rows : ~r.old}) >= Capacity)
  /\ \A r \in rows : r.text # Text(part)

Costly(part, garbled, begun) == garbled \/ NotPut(part, begun)

(* How the line of a part may fare.                                        *)
MayFare(garbled, begun) == (garbled => PartsGarble) /\ (begun \/ Refusals)

(* at_read_result_iov cuts the line of AT+CMGR at the OK that follows it,  *)
(* so that no other line is handled between the two.                       *)
UrcMayCome == ~answered

(* The modem stores a part and notifies: at_response_cmti.                 *)
Stored(part, idx) ==
  /\ ~Direct
  /\ UrcMayCome
  /\ part \in net /\ idx \notin DOMAIN store
  /\ Delivered(part)
  /\ store' = Set(store, idx, part)
  /\ unread' = unread \union {idx}
  /\ Becomes(at_enqueue_retrieve_sms(Now, idx))
  /\ UNCHANGED <<peer, unacked, answered, harmed>>

(* The modem hands a part over.                                            *)
HandedOver(part, garbled, begun) ==
  /\ Direct
  /\ UrcMayCome
  /\ part \in net /\ unacked = {}
  /\ MayFare(garbled, begun)
  /\ Delivered(part)
  /\ unacked' = IF Acks THEN {part} ELSE {}
  /\ Becomes(MsgCmt(Now, part, garbled, begun))
  /\ harmed' = (harmed \/ Costly(part, garbled, begun))
  /\ UNCHANGED <<peer, store, unread, answered>>

(* The time to live of the rows passes.                                    *)
RowsGetOld ==
  /\ RowsAge
  /\ \E r \in rows : ~r.old
  /\ rows' = {[r EXCEPT !.old = TRUE] : r \in rows}
  /\ harmed' = TRUE
  /\ UNCHANGED <<peer, net, dups, store, unread, unacked, inqueue, answered, index, inbox>>

-----------------------------------------------------------------------------
(* The answers of the modem to the first command.                          *)

On(cmd) == inqueue # <<>> /\ Head(inqueue).cmd = cmd

Done(s) == [s EXCEPT !.queue = Tail(@)]   \* at_queue_remove, after the handler

(* The line of AT+CMGR.  The delete command goes behind the head.          *)
ReadLine(garbled, begun) ==
  /\ On("CMGR") /\ ~answered
  /\ Head(inqueue).idx \in DOMAIN store
  /\ MayFare(garbled, begun)
  /\ unread' = unread \ {Head(inqueue).idx}
  /\ Becomes(MsgCmgr(Now, store[Head(inqueue).idx], garbled, begun))
  /\ harmed' = (harmed \/ Costly(store[Head(inqueue).idx], garbled, begun))
  /\ answered' = TRUE
  /\ UNCHANGED <<peer, net, dups, store, unacked>>

(* OK of AT+CMGR, with the line before it or without one (an empty slot),  *)
(* or an error for an empty slot.                                          *)
ReadDone ==
  /\ On("CMGR")
  /\ answered \/ Head(inqueue).idx \notin DOMAIN store
  /\ Becomes(Done(at_sms_retrieved(Now)))
  /\ answered' = FALSE
  /\ UNCHANGED <<peer, net, dups, store, unread, unacked, harmed>>

(* An error although the message is there: it counts as retrieved and, with *)
(* autodeletesms, is deleted unread.                                       *)
ReadRefused ==
  /\ Refusals
  /\ On("CMGR") /\ ~answered
  /\ Head(inqueue).idx \in DOMAIN store
  /\ Becomes(Done(at_sms_retrieved(Now)))
  /\ harmed' = (harmed \/ Autodelete)
  /\ UNCHANGED <<peer, net, dups, store, unread, unacked, answered>>

DeleteDone(ok) ==
  /\ On("CMGD")
  /\ store' = IF ok THEN Without(store, {Head(inqueue).idx}) ELSE store
  /\ unread' = IF ok THEN unread \ {Head(inqueue).idx} ELSE unread
  /\ Becomes(Done(Now))
  /\ UNCHANGED <<peer, net, dups, unacked, answered, harmed>>

AckDone ==
  /\ On("CNMA")
  /\ unacked' = {}
  /\ Becomes(Done(Now))
  /\ UNCHANGED <<peer, net, dups, store, unread, answered, harmed>>

(* A line of AT+CMGL, and its OK, or an error after any of the lines.      *)
ListLine(idx, garbled, begun) ==
  /\ On("CMGL")
  /\ idx \in unread
  /\ MayFare(garbled, begun)
  /\ unread' = unread \ {idx}
  /\ Becomes(MsgCmgl(Now, store[idx], idx, garbled, begun))
  /\ harmed' = (harmed \/ Costly(store[idx], garbled, begun))
  /\ UNCHANGED <<peer, net, dups, store, unacked, answered>>

ListDone ==
  /\ On("CMGL")
  /\ unread = {} \/ Refusals
  /\ Becomes(Done(Now))
  /\ UNCHANGED <<peer, net, dups, store, unread, unacked, answered, harmed>>

(* Seeded fault: the slot that is being read is not forgotten.             *)
ReconnectStale ==
  /\ LinkFails
  /\ inqueue # <<>>
  /\ inqueue' = <<Cmd("CMGL", NoIndex)>>
  /\ answered' = FALSE
  /\ net' = net \union unacked /\ unacked' = {}
  /\ harmed' = (harmed \/ ~Direct)
  /\ UNCHANGED <<peer, dups, store, unread, index, rows, inbox>>

(* The session ends (pvt_disconnect) and the next one begins: unread       *)
(* messages are listed unless they are handed over (has_sms).  Parts that  *)
(* were not acknowledged are delivered again.                              *)
Reconnect ==
  /\ LinkFails
  /\ inqueue # <<>>
  /\ inqueue' = IF Direct THEN <<>> ELSE <<Cmd("CMGL", NoIndex)>>
  /\ index' = NoIndex
  /\ answered' = FALSE
  /\ net' = net \union unacked /\ unacked' = {}
  /\ harmed' = (harmed \/ ~Direct)
  /\ UNCHANGED <<peer, dups, store, unread, rows, inbox>>

-----------------------------------------------------------------------------
InInit ==
  /\ peer = [p \in Peers |-> [ref |-> PeerRef, sent |-> <<>>]]
  /\ net = {} /\ dups = MaxDups
  /\ store = <<>> /\ unread = {} /\ unacked = {}
  /\ inqueue = <<>> /\ answered = FALSE
  /\ index = NoIndex
  /\ rows = {} /\ inbox = {} /\ harmed = FALSE

Answer ==
  \/ ReadDone \/ ReadRefused \/ AckDone \/ ListDone
  \/ (\E g, b \in BOOLEAN : ReadLine(g, b)) \/ (\E ok \in BOOLEAN : DeleteDone(ok))
  \/ \E i \in Slots : \E g, b \in BOOLEAN : ListLine(i, g, b)

InNext ==
  \/ \E p \in Peers : PeerSends(p)
  \/ \E part \in net : \/ \E i \in Slots : Stored(part, i)
                       \/ \E g, b \in BOOLEAN : HandedOver(part, g, b)
  \/ RowsGetOld \/ Answer \/ Reconnect

InSpec == InInit /\ [][InNext]_inVars

(* The modem answers what it is asked.                                     *)
InFairSpec == InSpec /\ WF_inVars(Answer)

-----------------------------------------------------------------------------
(* The instances that make sense: the peers have sent a message before     *)
(* (else their first two share a reference), and none of them sends so     *)
(* many that its references come round.                                    *)
RefsAreFresh ==
  /\ Parts \in Nat \ {0} /\ MaxDups \in Nat /\ Slots \subseteq Nat
  /\ PeerRef \in 0 .. RefMod - 1 /\ MaxFromPeer \in 0 .. RefMod

(* Rows enough for every part that is sent.                                *)
RowsEnough ==
  IsFiniteSet(Peers) /\ Cardinality(Peers) * (MaxFromPeer * Parts) <= Capacity

(* Nothing that costs a part happens: no row expires, no line is           *)
(* unreadable, nothing is refused, and the session holds unless parts are  *)
(* handed over.                                                            *)
Reliable == ~RowsAge /\ ~PartsGarble /\ ~Refusals /\ (Direct \/ ~LinkFails)

InTypeOK ==
  /\ peer \in [Peers -> [ref : {NoRow} \union 0 .. RefMod - 1, sent : Seq(0 .. RefMod - 1)]]
  /\ dups \in 0 .. MaxDups
  /\ unread \subseteq DOMAIN store /\ DOMAIN store \subseteq Slots
  /\ index \in {NoIndex} \union Slots
  /\ inqueue \in Seq([cmd : {"CMGR", "CMGD", "CMGL", "CNMA"}, idx : Slots \union {NoIndex, 0}])
  /\ answered => On("CMGR")
  /\ Cardinality(rows) <= Capacity
  /\ harmed \in BOOLEAN

(* A message that reaches the dialplan is one that a peer sent, "the whole *)
(* message" (smsdb.c:523): all of its parts in order and none of another,  *)
(* out of duplicates, unreadable lines, expiring rows and lost links       *)
(* (smsdb_put, put_incmsg, get_incmsg).                                    *)
WholeMessages ==
  \A m \in inbox :
    /\ Len(m) = Parts
    /\ \A i \in 1 .. Parts : m[i][3] = i /\ m[i][1] = m[1][1] /\ m[i][2] = m[1][2]

(* A slot that counts as being read has its AT+CMGR on the way, after a    *)
(* lost link too; were it not so, no message would be read again           *)
(* (incoming_sms_index, at_enqueue_retrieve_sms, at_sms_retrieved).        *)
ReadingIsAsked ==
  index # NoIndex => \E i \in DOMAIN inqueue : inqueue[i] = Cmd("CMGR", index)

Assembled == UNION {{m[i] : i \in 1 .. Len(m)} : m \in inbox}

(* Every part is on its way, stored by the modem, in the database or       *)
(* assembled.                                                              *)
AllKept ==
  \A p \in DOMAIN peer : \A n \in DOMAIN peer[p].sent : \A k \in 1 .. Parts :
    LET part == Part(p, n, peer[p].sent[n], k)
    IN  \/ part \in net \union unacked
        \/ \E i \in DOMAIN store : store[i] = part
        \/ \E r \in rows : r.text = Text(part)
        \/ Text(part) \in Assembled

(* Until a line is unreadable, a row expires, the table is full, BEGIN is  *)
(* refused, AT+CMGR is refused for a message that autodeletesms deletes,   *)
(* or, with messages read from the store, a session ends, no part is lost  *)
(* between the network and the dialplan; handed over, not even with lost   *)
(* links (AT+CNMA and AT+CMGD follow smsdb_put).                           *)
NothingLost == ~harmed => AllKept

(* Every message the modem notifies of is read in the end: "Start reading  *)
(* next SMS, if any" (at_command.c:987).                                   *)
NotifiedIsRead == \A i \in Slots : (i \in unread) ~> (i \notin unread)
=============================================================================
