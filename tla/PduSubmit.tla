----------------------------- MODULE PduSubmit -----------------------------
(***************************************************************************)
(* How a text becomes the parts of a message (pdu.c, pdu_build_mult).  A   *)
(* symbol of the text is known by what it takes: "one" or "two" septets of *)
(* the 7-bit alphabet, or "none", a 16-bit unit that alphabet cannot       *)
(* write, which sends the whole text as 16-bit units.  One step is one     *)
(* turn of a loop: the parts are counted, then built.  The lengths 160,    *)
(* 153, 70 and 67 are CONSTANTS.                                           *)
(***************************************************************************)
EXTENDS Integers, Sequences, FiniteSetsExt

CONSTANTS
  SmsGsm7, CsmsGsm7,   \* SMS_GSM7_MAX_LEN, CSMS_GSM7_MAX_LEN
  SmsUcs2, CsmsUcs2,   \* SMS_UCS2_MAX_LEN, CSMS_UCS2_MAX_LEN
  MaxParts,            \* 255
  MaxLen               \* bound: symbols of a text

VARIABLES
  text,
  dst,      \* "good", or "bad": no digit code, or too long for a TPDU
  pc,       \* "type", "count", "build", "built", "failed"
  off,      \* symbols done
  cnt,      \* parts counted: udh.parts
  parts     \* parts built: what they carry, udh.order, TP-User-Data-Length

vars == <<text, dst, pc, off, cnt, parts>>

Symbols == {"one", "two", "none"}

(* gsm7_encode: the septets of a text, of which no symbol is "none".       *)
Gsm7 == \A k \in DOMAIN text : text[k] # "none"
Septets(s) == Len(s) + Len(SelectSeq(s, LAMBDA w : w = "two"))
TextSize(s) == IF Gsm7 THEN Septets(s) ELSE Len(s)

Init ==
  /\ text = <<>> /\ dst \in {"good", "bad"}
  /\ pc = "type" /\ off = 0 /\ cnt = 0 /\ parts = <<>>

Type(w) ==
  /\ pc = "type" /\ Len(text) < MaxLen
  /\ text' = Append(text, w)
  /\ UNCHANGED <<dst, pc, off, cnt, parts>>

split ==
  IF Gsm7
    THEN IF TextSize(text) > SmsGsm7 THEN CsmsGsm7 ELSE SmsGsm7
    ELSE IF TextSize(text) > SmsUcs2 THEN CsmsUcs2 ELSE SmsUcs2

(* A part takes 7-bit symbols while they leave one septet free, 16-bit     *)
(* units until it is full.                                                 *)
Carries(n) ==
  LET s == SubSeq(text, off + 1, off + n)
  IN  IF Gsm7 THEN Septets(s) < split ELSE Len(s) <= split

Taken == Max({n \in 0 .. Len(text) - off : Carries(n)})

StartCount ==
  /\ pc = "type" /\ text # <<>>
  /\ pc' = "count"
  /\ UNCHANGED <<text, dst, off, cnt, parts>>

(* Seeded fault: 7-bit parts are counted by division, as the others are.   *)
CountDivides ==
  /\ pc = "count" /\ off < Len(text)
  /\ cnt' = (TextSize(text) + split - 1) \div split /\ off' = Len(text)
  /\ UNCHANGED <<text, dst, pc, parts>>

Count ==
  /\ pc = "count" /\ off < Len(text)
  /\ IF Gsm7
       THEN cnt' = cnt + 1 /\ off' = off + Taken
       ELSE cnt' = (Len(text) + split - 1) \div split /\ off' = Len(text)
  /\ UNCHANGED <<text, dst, pc, parts>>

Counted ==
  /\ pc = "count" /\ off = Len(text)
  /\ pc' = IF cnt > MaxParts THEN "failed" ELSE "build"
  /\ off' = 0
  /\ UNCHANGED <<text, dst, cnt, parts>>

(* pdu_build: a header goes before the text when there are several parts.  *)
HeaderLen == IF cnt = 1 THEN 0 ELSE IF Gsm7 THEN SmsGsm7 - CsmsGsm7 ELSE SmsUcs2 - CsmsUcs2

pdu_build ==
  /\ pc = "build" /\ off < Len(text)
  /\ IF dst = "bad" THEN pc' = "failed" /\ UNCHANGED <<off, parts>>
     ELSE LET s == SubSeq(text, off + 1, off + Taken)
          IN  /\ parts' = Append(parts, [carries |-> s, order |-> Len(parts) + 1,
                                         length |-> TextSize(s) + HeaderLen])
              /\ off' = off + Taken
              /\ UNCHANGED pc
  /\ UNCHANGED <<text, dst, cnt>>

Built ==
  /\ pc = "build" /\ off = Len(text)
  /\ pc' = "built"
  /\ UNCHANGED <<text, dst, off, cnt, parts>>

Next ==
  \/ \E w \in Symbols : Type(w)
  \/ StartCount \/ Count \/ Counted \/ pdu_build \/ Built

Spec == Init /\ [][Next]_vars

-----------------------------------------------------------------------------
RECURSIVE Concat(_)
Concat(ps) == IF ps = <<>> THEN <<>> ELSE Head(ps).carries \o Concat(Tail(ps))

(* The parts that are built are the text, in order, and as many as each of *)
(* them announces in its header: the receiver waits for udh.parts of them. *)
PartsAreTheText ==
  pc = "built" => Concat(parts) = text /\ Len(parts) = cnt /\ cnt <= MaxParts

(* What one message carries.                                               *)
Room == IF Gsm7 THEN SmsGsm7 ELSE SmsUcs2
Fit == \A k \in DOMAIN parts : parts[k].length <= Room

(* Every part and its header fit in a message, whatever symbols of two     *)
(* septets fall where, but for texts that fill a message to the septet.    *)
PartsFit == ~(Gsm7 /\ TextSize(text) = SmsGsm7) => Fit

(* Every part fits, also of those texts.                                   *)
PartsAlwaysFit == Fit
=============================================================================
