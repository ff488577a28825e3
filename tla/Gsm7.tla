-------------------------------- MODULE Gsm7 --------------------------------
(***************************************************************************)
(* The packing of 7-bit characters (char_conv.c): gsm7_pack writes seven   *)
(* bits after the other, behind out_padding bits of filling, into octets;  *)
(* gsm7_unpack_decode reads them back by half octets.  One step is one     *)
(* turn of a loop.  A symbol of a text is <<"ls", c>>, a character of the  *)
(* default table, or <<"ss", c>>, one of the extension table, which takes  *)
(* an escape and a character; the tables of gsm7_luts.h, which say what    *)
(* the characters mean, are not modelled.                                  *)
(***************************************************************************)
EXTENDS Integers, Sequences

CONSTANTS
  Chars,      \* some characters below 128 of the default table
  Shifted,    \* some characters below 128 of the extension table
  MaxLen      \* bound: symbols of a text

Escape == 27

VARIABLES
  text,       \* what is packed
  padding,    \* the filling before it: 6 - udhl % 7, or none
  pc,         \* "type", "pack", "unpack", "done"
  i,          \* position of the loop
  value, bits,   \* the shift register and how many bits are in it
  octets,     \* packed
  out, esc    \* unpacked; whether an escape came last

vars == <<text, padding, pc, i, value, bits, octets, out, esc>>

Symbols == {"ls"} \X Chars \cup {"ss"} \X Shifted

(* gsm7_encode: an escape before a character of the extension table.       *)
Septets(s) == IF s[1] = "ss" THEN <<Escape, s[2]>> ELSE <<s[2]>>

Init ==
  /\ text = <<>>
  /\ padding \in 0 .. 6
  /\ pc = "type"
  /\ i = 0 /\ value = 0 /\ bits = 0
  /\ octets = <<>> /\ out = <<>> /\ esc = FALSE

Type(s) ==
  /\ pc = "type" /\ Len(text) < MaxLen
  /\ text' = Append(text, s)
  /\ UNCHANGED <<padding, pc, i, value, bits, octets, out, esc>>

StartPack ==
  /\ pc = "type" /\ text # <<>>
  /\ pc' = "pack" /\ bits' = padding
  /\ UNCHANGED <<text, padding, i, value, octets, out, esc>>

(* Seven bits go in; a full octet comes out.                               *)
Put(r, c) ==
  LET v == r.v + c * 2^r.b
      b == r.b + 7
  IN  IF b < 8 THEN [r EXCEPT !.v = v, !.b = b]
      ELSE [v |-> v \div 256, b |-> b - 8, o |-> Append(r.o, v % 256)]

PackStep ==
  /\ pc = "pack" /\ i < Len(text)
  /\ LET s  == Septets(text[i + 1])
         r1 == Put([v |-> value, b |-> bits, o |-> octets], s[1])
         r  == IF Len(s) = 2 THEN Put(r1, s[2]) ELSE r1
     IN  value' = r.v /\ bits' = r.b /\ octets' = r.o
  /\ i' = i + 1
  /\ UNCHANGED <<text, padding, pc, out, esc>>

(* The bits that are left, if any, take an octet.  The reader starts with  *)
(* the filling already shifted out.                                        *)
PackEnd ==
  /\ pc = "pack" /\ i = Len(text)
  /\ octets' = IF bits # 0 THEN Append(octets, value % 256) ELSE octets
  /\ pc' = "unpack" /\ i' = 0 /\ value' = 0 /\ bits' = 7 - padding
  /\ UNCHANGED <<text, padding, out, esc>>

(* pdu_build announces the message in septets, the filling and the header  *)
(* before it as whole septets; tpdu_parse_deliver turns them into half     *)
(* octets and takes away those of the header.                              *)
Announced == Len(text) + Len(SelectSeq(text, LAMBDA s : s[1] = "ss"))
Nibbles == (padding + 7 * Announced + 3) \div 4

(* Half an octet, the lower one first.                                     *)
Nibble(k) == IF k % 2 = 0 THEN octets[(k \div 2) + 1] % 16 ELSE octets[(k \div 2) + 1] \div 16

(* A character of the default table that is the escape is kept back and    *)
(* sends the next one to the extension table, where it means nothing.      *)
Decode(c) ==
  IF c = Escape /\ ~esc THEN esc' = TRUE /\ UNCHANGED out
  ELSE esc' = FALSE /\ out' = Append(out, <<IF esc THEN "ss" ELSE "ls", c>>)

(* Seeded fault: a character is taken one bit too early.                   *)
UnpackEarly ==
  /\ pc = "unpack" /\ i < Nibbles
  /\ LET v == value + Nibble(i) * 2^bits
         b == bits + 4
     IN  IF b >= 13
           THEN value' = v \div 128 /\ bits' = b - 7 /\ Decode((v \div 128) % 128)
           ELSE value' = v /\ bits' = b /\ UNCHANGED <<esc, out>>
  /\ i' = i + 1
  /\ UNCHANGED <<text, padding, pc, octets>>

(* Half an octet goes in; a character comes out when there are seven bits  *)
(* above the seven that went before.                                       *)
UnpackStep ==
  /\ pc = "unpack" /\ i < Nibbles
  /\ LET v == value + Nibble(i) * 2^bits
         b == bits + 4
     IN  IF b >= 14
           THEN value' = v \div 128 /\ bits' = b - 7 /\ Decode((v \div 128) % 128)
           ELSE value' = v /\ bits' = b /\ UNCHANGED <<esc, out>>
  /\ i' = i + 1
  /\ UNCHANGED <<text, padding, pc, octets>>

UnpackEnd ==
  /\ pc = "unpack" /\ i = Nibbles
  /\ pc' = "done"
  /\ UNCHANGED <<text, padding, i, value, bits, octets, out, esc>>

Next ==
  \/ \E s \in Symbols : Type(s)
  \/ StartPack \/ PackStep \/ PackEnd \/ UnpackStep \/ UnpackEnd

Spec == Init /\ [][Next]_vars

-----------------------------------------------------------------------------
(* The registers of gsm7_pack and gsm7_unpack_decode stay far inside the   *)
(* 32 bits of their type, and octets are octets.                           *)
TypeOK ==
  /\ value \in 0 .. 2^21 - 1
  /\ bits \in 0 .. 14 /\ (pc = "pack" => bits < 8)
  /\ \A k \in DOMAIN octets : octets[k] \in 0 .. 255

(* The octets gsm7_pack writes are the octets tpdu_parse_deliver expects   *)
(* of the announced length: it drops a message that has one more or less.  *)
LengthAsAnnounced == pc = "unpack" => Len(octets) = (Nibbles + 1) \div 2

(* What is unpacked is what was packed: every text, every filling, every   *)
(* position of the last bits in their octet (test/parse.c, test_gsm7).     *)
RoundTrip == pc = "done" => out = text
=============================================================================
