----------------------------- MODULE PduFields -----------------------------
(***************************************************************************)
(* Two fields of a PDU (pdu.c): the validity period of an outgoing message *)
(* (pdu_relative_validity) and a telephone number (pdu_store_number and    *)
(* pdu_parse_number).  They are pure functions; the states are their       *)
(* arguments, a period and a number that is grown by the digit.            *)
(***************************************************************************)
EXTENDS Integers, Sequences

CONSTANTS
  Periods,      \* periods tried, in minutes; app.c leaves none below one
  Digits,       \* some characters of a number
  MaxDigits     \* bound: characters of a number

VARIABLES
  field,        \* "validity" or "number"
  minutes,      \* a period
  plus, number  \* a number, and whether it is written with a '+'

vars == <<field, minutes, plus, number>>

Init ==
  /\ \/ field = "validity" /\ minutes \in Periods /\ plus = FALSE
     \/ field = "number" /\ minutes \in Periods /\ (\A m \in Periods : minutes <= m) /\ plus \in BOOLEAN
  /\ number = <<>>

Dial(d) ==
  /\ field = "number" /\ Len(number) < MaxDigits
  /\ number' = Append(number, d)
  /\ UNCHANGED <<field, minutes, plus>>

Next == \E d \in Digits : Dial(d)

Spec == Init /\ [][Next]_vars

-----------------------------------------------------------------------------
div_up(n, divisor) == (n + divisor - 1) \div divisor

pdu_relative_validity(m) ==
  CASE m <= 720    -> div_up(m, 5) - 1
    [] m <= 1440   -> div_up(m, 30) + 119
    [] m <= 43200  -> div_up(m, 1440) + 166
    [] m <= 635040 -> div_up(m, 10080) + 192
    [] OTHER       -> 255

(* The characters that have a code; letters are taken in either case.      *)
Coded == <<"0", "1", "2", "3", "4", "5", "6", "7", "8", "9", "*", "#", "A", "B", "C">>
Upper(c) == CASE c = "a" -> "A" [] c = "b" -> "B" [] c = "c" -> "C" [] OTHER -> c

pdu_digit2code(c) ==
  IF \E n \in 0 .. 14 : Coded[n + 1] = Upper(c)
    THEN CHOOSE n \in 0 .. 14 : Coded[n + 1] = Upper(c)
    ELSE 255
pdu_code2digit(n) == IF n \in 0 .. 14 THEN Coded[n + 1] ELSE ""

(* Two digits to an octet, the first one in the lower half, a last one     *)
(* alone below filling; nothing when a character has no code.  The type of *)
(* the number, set by pdu_build, keeps the '+'.                            *)
Half(k) == pdu_digit2code(number[k])
pdu_store_number ==
  IF \E k \in DOMAIN number : Half(k) = 255 THEN [ok |-> FALSE]
  ELSE [ok |-> TRUE, international |-> plus,
        octets |-> [k \in 1 .. (Len(number) + 1) \div 2 |->
                      Half(2 * k - 1) + 16 * (IF 2 * k <= Len(number) THEN Half(2 * k) ELSE 15)]]

Nibble(octets, k) ==
  LET o == octets[(k + 1) \div 2] IN IF k % 2 = 1 THEN o % 16 ELSE o \div 16

(* The digits announced: of an octet, the upper half may be filling.  An   *)
(* alphanumeric type, a buffer too small and fewer octets than announced   *)
(* are left out: pdu_store_number writes none of these.                    *)
pdu_parse_number(stored, digits) ==
  LET syms == 2 * ((digits + 1) \div 2)
      n    == IF syms > 0 /\ Nibble(stored.octets, syms) = 15 THEN syms - 1 ELSE syms
  IN  (IF stored.international THEN <<"+">> ELSE <<>>)
        \o [k \in 1 .. n |-> pdu_code2digit(Nibble(stored.octets, k))]

-----------------------------------------------------------------------------
(* What a validity octet means, from the table in pdu_relative_validity.   *)
Period(vp) ==
  CASE vp <= 143 -> (vp + 1) * 5
    [] vp <= 167 -> 720 + (vp - 143) * 30
    [] vp <= 196 -> (vp - 166) * 1440
    [] OTHER     -> (vp - 192) * 10080

(* pdu_relative_validity: a period is rounded up to the nearest the octet  *)
(* can say, and to no later one (etc/extensions.conf); beyond 63 weeks it  *)
(* is 63 weeks.                                                            *)
RoundsUp ==
  LET vp == pdu_relative_validity(minutes)
  IN  /\ vp \in 0 .. 255
      /\ Period(vp) >= minutes \/ vp = 255
      /\ vp > 0 => Period(vp - 1) < minutes

(* pdu_parse_number is the "reverse of pdu_store_number()" (pdu.c): odd or *)
(* even, with or without a '+', the number read is the number written.     *)
NumberRoundTrip ==
  LET stored == pdu_store_number
  IN  stored.ok =>
        pdu_parse_number(stored, Len(number))
          = (IF plus THEN <<"+">> ELSE <<>>) \o [k \in DOMAIN number |-> Upper(number[k])]
=============================================================================
