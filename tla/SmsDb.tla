-------------------------------- MODULE SmsDb --------------------------------
(***************************************************************************)
(* The tables of smsdb.c and the operations on them, each as the function  *)
(* its transaction computes.  Rows of another device or peer differ in the *)
(* address, which stands for "IMSI/address".                               *)
(***************************************************************************)
EXTENDS Integers, Sequences, FiniteSets

CONSTANTS
  RefMod,     \* 256: references of concatenated messages
  Capacity    \* 1024: rows of incoming_msg

ASSUME DbAssumption == RefMod \in Nat \ {0} /\ Capacity \in Nat

-----------------------------------------------------------------------------
(* outgoing_ref: one row per destination, or none yet.                     *)

NoRow == -1

smsdb_get_refid(row) ==
  IF row = NoRow
    THEN [row |-> 0, res |-> 1 % RefMod]
    ELSE [row |-> (row + 1) % RefMod, res |-> (row + 1) % RefMod]

-----------------------------------------------------------------------------
(* incoming_msg: a set of rows [addr, ref, parts, order, text, old]; "old" *)
(* once the time to live of the row has passed.                            *)

(* Seeded fault: the key lacks the reference.                              *)
SameSender(r, s) == r.addr = s.addr /\ r.parts = s.parts

SameKey(r, s) == r.addr = s.addr /\ r.ref = s.ref /\ r.parts = s.parts

(* put_incmsg: INSERT OR REPLACE.                                          *)
put_incmsg(rows, new) == {r \in rows : ~SameKey(r, new) \/ r.order # new.order} \union {new}

(* get_incmsg: the texts of a key in the order of seqorder.  As many rows  *)
(* as parts means one row for each.                                        *)
get_incmsg(rows) ==
  [i \in 1 .. Cardinality(rows) |-> (CHOOSE r \in rows : r.order = i).text]

(* The rows after a part was put, the result and the whole message.  Old   *)
(* rows go first, and stay away when BEGIN is refused ("begun").           *)
smsdb_put(rows, new, begun) ==
  LET live == {r \in rows : ~r.old}
      put  == put_incmsg(live, new)
      mine == {r \in put : SameKey(r, new)}
  IN  IF new.order \notin 1 .. new.parts \/ Cardinality(live) >= Capacity \/ ~begun
        THEN [rows |-> live, res |-> -1, out |-> <<>>]
        ELSE IF Cardinality(mine) = new.parts
          THEN [rows |-> put \ mine, res |-> new.parts, out |-> get_incmsg(mine)]
          ELSE [rows |-> put, res |-> Cardinality(mine), out |-> <<>>]

-----------------------------------------------------------------------------
(* outgoing_msg and outgoing_part: a record [last, msgs, parts] of the last *)
(* uid given out, the messages by uid and the parts by key.  A part's key  *)
(* is destination and message reference; its status is None until a report *)
(* comes.                                                                  *)

None == "none"

NoMessages == [last |-> 0, msgs |-> <<>>, parts |-> <<>>]

Set(f, x, v) == [y \in DOMAIN f \union {x} |-> IF y = x THEN v ELSE f[y]]
Without(f, S) == [y \in DOMAIN f \ S |-> f[y]]

smsdb_outgoing_add(db, dst, cnt, srr) ==
  [db EXCEPT !.last = @ + 1,
             !.msgs = Set(@, db.last + 1, [dst |-> dst, cnt |-> cnt, srr |-> srr, expired |-> FALSE])]

PartsOf(db, uid) == {k \in DOMAIN db.parts : db.parts[k].uid = uid}

(* smsdb_outgoing_clear_nolock.                                            *)
outgoing_clear(db, uid) ==
  [db EXCEPT !.msgs = Without(@, {uid}), !.parts = Without(@, PartsOf(db, uid))]

(* A status that is no longer "temporary error, still trying" (bit 5       *)
(* without bit 6); NULL is not counted.                                    *)
Final(st) == st \notin {None, "trying"}

(* Seeded fault: a message without status report is dropped once sent.     *)
PartPutDrops(db, uid, mr) ==
  IF uid \in DOMAIN db.msgs
    THEN [db |-> outgoing_clear(db, uid), res |-> -2]
    ELSE [db |-> db, res |-> -1]

(* Seeded fault: the message counts as sent with its first part.           *)
PartPutHasty(db, uid, mr) ==
  IF uid \in DOMAIN db.msgs
    THEN [db |-> outgoing_clear(db, uid), res |-> 0]
    ELSE [db |-> db, res |-> -1]

(* smsdb_outgoing_part_put; "res" is 0 when the message is to be reported. *)
smsdb_outgoing_part_put(db, uid, mr) ==
  IF uid \notin DOMAIN db.msgs
    THEN [db |-> db, res |-> -1]
    ELSE LET m   == db.msgs[uid]
             key == <<m.dst, mr>>
             put == [db EXCEPT !.parts = Set(@, key, [uid |-> uid, st |-> None])]
         IN  IF key \in DOMAIN db.parts
               THEN [db |-> db, res |-> -1]                 \* PRIMARY KEY(key)
               ELSE IF ~m.srr
                 THEN [db |-> put, res |-> -2]
                 ELSE IF Cardinality(PartsOf(put, uid)) # m.cnt
                   THEN [db |-> put, res |-> -1]
                   ELSE [db |-> outgoing_clear(put, uid), res |-> 0]

(* smsdb_outgoing_part_status; "uid" is the message the status was set for. *)
smsdb_outgoing_part_status(db, dst, mr, st) ==
  LET key == <<dst, mr>>
  IN  IF key \notin DOMAIN db.parts
        THEN [db |-> db, res |-> -1, uid |-> 0]
        ELSE LET uid  == db.parts[key].uid
                 set  == [db EXCEPT !.parts[key].st = st]
                 done == {k \in PartsOf(set, uid) : Final(set.parts[k].st)}
             IN  IF uid \in DOMAIN db.msgs /\ Cardinality(done) = db.msgs[uid].cnt
                   THEN [db |-> outgoing_clear(set, uid), res |-> 0, uid |-> uid]
                   ELSE [db |-> set, res |-> -1, uid |-> uid]

(* What smsdb_outgoing_purge_one looks for.                                *)
Expired(db) == {u \in DOMAIN db.msgs : db.msgs[u].expired}
=============================================================================
