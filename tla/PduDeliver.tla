---------------------------- MODULE PduDeliver ----------------------------
(***************************************************************************)
(* How the text of a received message is found behind its header (pdu.c,   *)
(* tpdu_parse_deliver).  The service centre writes elements one after the  *)
(* other, each with a type, a length and so many octets; the parser walks  *)
(* over them, one element a step, counting down udhl, and hands the rest   *)
(* to the decoder.  Number, time stamp and protocol identifier before the  *)
(* user data are not modelled; what septets say is Gsm7, here they are     *)
(* counted.                                                                *)
(***************************************************************************)
EXTENDS Integers, Sequences

CONSTANTS
  Elements,      \* kinds of elements that are sent
  MaxElements,   \* bound: elements of a header
  Texts          \* lengths of texts: septets of a 7-bit message, else octets

VARIABLES
  els,         \* the elements sent
  header,      \* their octets
  sent,        \* dcs, length announced and octets that arrived
  pc,          \* "write", "check", "header", "decode", "parsed", "failed", "overrun"
  i,           \* octets of user data read
  udhl,        \* octets of header left, by the parser's count
  udh,         \* what the header said
  padding,     \* bits before the text
  nibbles,     \* udl_nibbles: half octets for the decoder, of a 7-bit message
  chars        \* characters of the text, once it is decoded

vars == <<els, header, sent, pc, i, udhl, udh, padding, nibbles, chars>>

(* Type, length and contents of an element that is the k-th of a header.   *)
(* A "wrong" one has not the length its type wants, a "long" one announces *)
(* more than the header holds.                                             *)
Octets(e, k) ==
  CASE e = "concat8"  -> <<0, 3, k, 2, 1>>
    [] e = "concat16" -> <<8, 4, 1, k, 2, 1>>
    [] e = "ss"       -> <<36, 1, 3>>
    [] e = "ls"       -> <<37, 1, 4>>
    [] e = "other"    -> <<112, 2, 0, 8>>
    [] e = "wrong"    -> <<0, 2, 1, 1>>
    [] e = "long"     -> <<112, 99>>

pdu_udh_init == [ref |-> 0, parts |-> 1, order |-> 0, ss |-> 0, ls |-> 0]

Init ==
  /\ els = <<>> /\ header = <<>>
  /\ sent = [dcs |-> "none", udl |-> 0, ud |-> <<>>]
  /\ pc = "write" /\ i = 0 /\ udhl = 0 /\ udh = pdu_udh_init /\ padding = 0
  /\ nibbles = -1 /\ chars = 0

Write(e) ==
  /\ pc = "write" /\ Len(els) < MaxElements
  /\ els' = Append(els, e)
  /\ header' = header \o Octets(e, Len(els) + 1)
  /\ UNCHANGED <<sent, pc, i, udhl, udh, padding, nibbles, chars>>

(* User data: the length of the header, the header, the text.  A header    *)
(* may end with an octet of filling.  Of a 7-bit message septets are       *)
(* announced, those the header fills included.  Octets may be lost at the  *)
(* end ("lost") and units be missing from the announcement ("less").       *)
Send(dcs, fill, len, lost, less) ==
  /\ pc = "write"
  /\ LET h     == header \o [k \in 1 .. fill |-> 0]
         front == IF els = <<>> THEN <<>> ELSE <<Len(h)>> \o h
         udl   == IF dcs = "7bit" THEN (8 * Len(front) + 6) \div 7 + len ELSE Len(front) + len
         size  == IF dcs = "7bit" THEN (7 * udl + 7) \div 8 ELSE udl
         ud    == front \o [k \in 1 .. size - Len(front) |-> 7 + k]
     IN  /\ lost <= size /\ less <= udl
         /\ sent' = [dcs |-> dcs, udl |-> udl - less, ud |-> SubSeq(ud, 1, size - lost)]
  /\ pc' = "check"
  /\ UNCHANGED <<els, header, i, udhl, udh, padding, nibbles, chars>>

(* The half octets of so many septets.                                     *)
Nibbles(udl) == (7 * udl + 3) \div 4

udl_bytes == IF sent.dcs = "7bit" THEN (Nibbles(sent.udl) + 1) \div 2 ELSE sent.udl

(* Alphabets that are not read and lengths that do not agree are refused.  *)
Refused ==
  \/ sent.dcs \notin {"7bit", "ucs2"}
  \/ udl_bytes # Len(sent.ud)
  \/ els # <<>> /\ (sent.ud = <<>> \/ Len(sent.ud) - 1 < sent.ud[1])

Check ==
  /\ pc = "check"
  /\ \/ Refused /\ pc' = "failed" /\ UNCHANGED <<i, udhl, padding, nibbles>>
     \/ /\ ~Refused /\ els = <<>>
        /\ pc' = "decode"
        /\ nibbles' = IF sent.dcs = "7bit" THEN Nibbles(sent.udl) ELSE -1
        /\ UNCHANGED <<i, udhl, padding>>
     \/ /\ ~Refused /\ els # <<>>
        /\ pc' = "header" /\ i' = 1 /\ udhl' = sent.ud[1]
        /\ padding' = IF sent.dcs = "7bit" THEN 6 - (sent.ud[1] % 7) ELSE 0
        /\ nibbles' = IF sent.dcs = "7bit" THEN Nibbles(sent.udl) - (sent.ud[1] + 1) * 2 ELSE -1
  /\ UNCHANGED <<els, header, sent, udh, chars>>

pdu(k) == sent.ud[k + 1]

(* The length an element must have, by its type.                           *)
Wanted(type) == CASE type = 0 -> 3 [] type = 8 -> 4 [] type \in {36, 37} -> 1

Bad(type, len, left) == len > left \/ (type \in {0, 8, 36, 37} /\ len # Wanted(type))

(* One element.  Of the octets after type and length, those of a           *)
(* concatenation and of an element that is skipped are taken off udhl,     *)
(* that of a language element is not.                                      *)
Element ==
  /\ pc = "header" /\ udhl >= 2
  /\ LET type == pdu(i)
         len  == pdu(i + 1)
         at   == i + 2
         left == udhl - 2
     IN  IF Bad(type, len, left)
           THEN pc' = "failed" /\ UNCHANGED <<i, udhl, udh>>
           ELSE /\ i' = at + len
                /\ udhl' = IF type \in {36, 37} THEN left ELSE left - len
                /\ udh' = CASE type = 0 -> [udh EXCEPT !.ref = pdu(at), !.parts = pdu(at + 1),
                                                       !.order = pdu(at + 2)]
                            [] type = 8 -> [udh EXCEPT !.ref = pdu(at) * 256 + pdu(at + 1),
                                                       !.parts = pdu(at + 2), !.order = pdu(at + 3)]
                            [] type = 36 -> [udh EXCEPT !.ss = pdu(at)]
                            [] type = 37 -> [udh EXCEPT !.ls = pdu(at)]
                            [] OTHER -> udh
                /\ UNCHANGED pc
  /\ UNCHANGED <<els, header, sent, padding, nibbles, chars>>

(* Seeded fault: what is left of the header is not skipped.                *)
HeaderEndHere ==
  /\ pc = "header" /\ udhl < 2
  /\ pc' = "decode"
  /\ UNCHANGED <<els, header, sent, i, udhl, udh, padding, nibbles, chars>>

(* "skip rest of UDH, if any"                                              *)
HeaderEnd ==
  /\ pc = "header" /\ udhl < 2
  /\ pc' = "decode" /\ i' = i + udhl
  /\ UNCHANGED <<els, header, sent, udhl, udh, padding, nibbles, chars>>

(* Characters gsm7_unpack_decode finds in n half octets behind the padding. *)
Septets(n) == IF n < 2 \/ 4 * n < padding THEN 0 ELSE (4 * n - padding) \div 7

(* The text is decoded.  A negative number of half octets is a huge one to *)
(* gsm7_unpack_decode, which goes on behind the end of the PDU.            *)
Decode ==
  /\ pc = "decode"
  /\ \/ sent.dcs = "7bit" /\ nibbles < 0 /\ pc' = "overrun" /\ UNCHANGED chars
     \/ sent.dcs = "7bit" /\ nibbles >= 0 /\ pc' = "parsed" /\ chars' = Septets(nibbles)
     \/ sent.dcs = "ucs2" /\ pc' = "parsed" /\ chars' = (Len(sent.ud) - i) \div 2
  /\ UNCHANGED <<els, header, sent, i, udhl, udh, padding, nibbles>>

Next ==
  \/ \E e \in Elements : Write(e)
  \/ \E dcs \in {"7bit", "ucs2", "8bit", "compressed"}, fill \in {0, 1}, len \in Texts,
        lost \in 0 .. 2, less \in 0 .. 2 :
        (els = <<>> => fill = 0) /\ Send(dcs, fill, len, lost, less)
  \/ Check \/ Element \/ HeaderEnd \/ Decode

Spec == Init /\ [][Next]_vars

-----------------------------------------------------------------------------
Concats == {k \in DOMAIN els : els[k] \in {"concat8", "concat16"}}
LastConcat == CHOOSE k \in Concats : \A l \in Concats : l <= k

(* The septets announced do not reach the end of the header.               *)
EndsInHeader ==
  sent.dcs = "7bit" /\ els # <<>> /\ sent.ud # <<>> /\ 7 * sent.udl < 8 * (1 + sent.ud[1])

(* After the elements the parser stands where the text begins, on a septet *)
(* if it is in septets, decodes as many of these as are announced behind   *)
(* the header, and knows which part of which message this is.              *)
TextIsFound ==
  pc = "parsed" =>
    /\ els # <<>> => i = 1 + sent.ud[1]
    /\ sent.dcs = "7bit" => /\ padding \in 0 .. 6 /\ (8 * i + padding) % 7 = 0
                            /\ chars = IF EndsInHeader THEN 0
                                                       ELSE sent.udl - (8 * i + padding) \div 7
    /\ Concats # {} => /\ udh.ref % 256 = LastConcat
                       /\ udh.parts = 2 /\ udh.order = 1

(* What the parser still takes for header, and what it hands to the        *)
(* decoder, has arrived: it reads no octet behind the end of the PDU,      *)
(* unless the septets announced end inside the header, which it does not   *)
(* look for.                                                               *)
ReadsInside ==
  /\ pc = "header" => i + udhl <= Len(sent.ud)
  /\ pc = "decode" => i <= Len(sent.ud) /\ nibbles <= 2 * (Len(sent.ud) - i)
  /\ pc = "overrun" => EndsInHeader

(* A message in an alphabet that is read, whose octets all arrived, whose  *)
(* elements are in order and whose length covers them, is not refused.     *)
GoodIsParsed ==
  /\ sent.dcs \in {"7bit", "ucs2"} /\ udl_bytes = Len(sent.ud)
  /\ els # <<>> => Len(sent.ud) > sent.ud[1]
  /\ ~EndsInHeader
  /\ \A k \in DOMAIN els : els[k] \notin {"wrong", "long"}
  => pc \notin {"failed", "overrun"}
=============================================================================
