----------------------------- MODULE LineReader -----------------------------
(***************************************************************************)
(* The monitor thread cuts what the modem sends into lines: at_read puts   *)
(* what is there into the ring buffer, at_read_result_iov finds the next   *)
(* line in it.  The modem sends whole units (a result code, an answer, a   *)
(* notification, the prompt), an answer only after the last one was        *)
(* handled.  readv returns any piece of what was sent, so that a unit, a   *)
(* header or a line end may be cut anywhere and may lie over the end of    *)
(* the buffer.                                                             *)
(*                                                                         *)
(* A character is a symbol.  A header such as "+CMGR:" is two of them, "+" *)
(* and a letter, and so can be cut; "OK" is one.                           *)
(***************************************************************************)
EXTENDS RingBuffer, FiniteSets

CONSTANTS
  Size,      \* RINGBUFFER_SIZE
  Units,     \* names of units the modem sends
  MaxUnits   \* bound: units it sends

VARIABLES
  sent,         \* how many units the modem sent
  tty,          \* what it sent and readv did not return yet
  rb,           \* the ring buffer
  read_result,  \* 0: between lines, 1: in a line
  pc,           \* "read": about to wait and read; "parse": looking for lines; "end"
  pushed,       \* the lines given to the serializer
  expected,     \* the lines of all units sent
  due           \* how many of them there were with the last answer

vars == <<sent, tty, rb, read_result, pc, pushed, expected, due>>

-----------------------------------------------------------------------------
(* Symbols.                                                                *)

M_EOL        == <<"cr", "lf">>
M_SMS_PROMPT == <<">", " ">>
M_CMGR       == <<"+", "R">>   \* so do +CNUM: and ERROR+CNUM:
M_CMGL       == <<"+", "L">>
M_CMT        == <<"+", "T">>   \* so do +CBM:, +CDS: and +CLASS0:
T_OK         == M_EOL \o M_EOL \o <<"OK">> \o M_EOL
T_CMGL       == M_EOL \o M_CMGL

Unprintable == {"cr", "lf", "nul"}

rb_read_is_printable(b) == b.used > 0 /\ b.buffer[b.read] \notin Unprintable

(* What the modem sends: [bytes, lines].                                   *)
Message(header) == header \o <<"x">> \o M_EOL \o <<"y">>

(* Sent only when a command asks for it.                                   *)
Answers == {"ok", "prompt", "cmgr", "cmgl"}

Unit(name) ==
  CASE name = "ok"     -> [bytes |-> M_EOL \o <<"OK">> \o M_EOL, lines |-> <<<<"OK">>>>]
    [] name = "urc"    -> [bytes |-> M_EOL \o <<"+", "x">> \o M_EOL, lines |-> <<<<"+", "x">>>>]
    [] name = "prompt" -> [bytes |-> M_EOL \o M_SMS_PROMPT, lines |-> <<M_SMS_PROMPT>>]
    [] name = "noise"  -> [bytes |-> <<"nul">>, lines |-> <<>>]
    [] name = "cmgr"   -> [bytes |-> M_EOL \o Message(M_CMGR) \o T_OK,
                           lines |-> <<Message(M_CMGR), <<"OK">>>>]
    [] name = "cmgl"   -> [bytes |-> M_EOL \o Message(M_CMGL) \o M_EOL \o Message(M_CMGL) \o T_OK,
                           lines |-> <<Message(M_CMGL), Message(M_CMGL), <<"OK">>>>]
    [] name = "cmt"    -> [bytes |-> M_EOL \o Message(M_CMT) \o M_EOL, lines |-> <<Message(M_CMT)>>]

-----------------------------------------------------------------------------
(* at_read_result_iov, one call of it: the buffer, the state, the bytes to *)
(* skip behind the line, and what comes next: it calls itself ("again"),   *)
(* it has found a line ("line", in iov) or it has not ("none").            *)

Again(b, st) == [rb |-> b, st |-> st, skip |-> 0, iov |-> <<>>, res |-> "again"]

None(b, st) == [rb |-> b, st |-> st, skip |-> 0, iov |-> <<>>, res |-> "none"]

Line(b, st, iov, skip) ==
  IF iov = <<>> THEN None(b, st) ELSE [rb |-> b, st |-> st, skip |-> skip, iov |-> iov, res |-> "line"]

(* The position of the second end of line; 0 if there is none.             *)
get_2ndeol_pos(b) ==
  LET all   == at_combine_iov(b, rb_read_all_iov(b))
      first == memmem(all, M_EOL)
      rest  == SubSeq(all, first + 3, Len(all))
  IN  IF first = NotFound \/ memmem(rest, M_EOL) = NotFound
        THEN 0
        ELSE first + 2 + memmem(rest, M_EOL)

(* Between lines: *read_result == 0.                                       *)
Between(b) ==
  LET upto == rb_read_until_char_iov(b, "cr", Unprintable)
      eol  == rb_memcmp(b, M_EOL)
  IN  CASE eol = 0 -> Again(rb_read_upd(b, 2), 1)
        [] eol = -1 -> None(b, 0)
        [] eol = 1 /\ rb_read_is_printable(b) -> Again(b, 1)
        [] eol = 1 /\ ~rb_read_is_printable(b) /\ rb_memcmp(b, <<"lf">>) = 0 -> Again(rb_read_upd(b, 1), 0)
        [] OTHER -> Again(rb_read_upd(b, IF upto # <<>> THEN IovLen(upto) + 1 ELSE b.used), 0)

(* In a line: *read_result == 1.                                           *)
InLine(b) ==
  LET until(mem) == rb_read_until_mem_iov(b, mem)
      second == get_2ndeol_pos(b)
  IN  CASE rb_memcmp(b, M_SMS_PROMPT) = 0 -> Line(b, 0, rb_read_n_iov(b, 2), 0)
        [] rb_memcmp(b, M_CMGR) = 0 -> Line(b, 1, until(T_OK), 4)
        [] rb_memcmp(b, M_CMGL) = 0 -> IF until(T_CMGL) # <<>> THEN Line(b, 1, until(T_CMGL), 2)
                                                               ELSE Line(b, 1, until(T_OK), 4)
        [] rb_memcmp(b, M_CMT) = 0 -> IF second > 0 THEN Line(b, 0, rb_read_n_iov(b, second), 1)
                                                    ELSE None(b, 1)
        [] OTHER -> IF until(M_EOL) # <<>> THEN Line(b, 0, until(M_EOL), 1) ELSE None(b, 1)

at_read_result_iov(b, st) ==
  IF b.used = 0 THEN None(b, st) ELSE IF st = 0 THEN Between(b) ELSE InLine(b)

-----------------------------------------------------------------------------
Init ==
  /\ sent = 0 /\ tty = <<>>
  /\ rb = rb_init(Size, "nul")
  /\ read_result = 0
  /\ pc = "read"
  /\ pushed = <<>> /\ expected = <<>> /\ due = 0

ModemSends(name) ==
  /\ sent < MaxUnits
  /\ sent' = sent + 1
  /\ tty' = tty \o Unit(name).bytes
  /\ expected' = expected \o Unit(name).lines
  /\ IF name \in Answers
       THEN Len(pushed) >= due /\ due' = Len(expected')
       ELSE UNCHANGED due
  /\ UNCHANGED <<rb, read_result, pc, pushed>>

(* at_read: readv returns some of what is there.                           *)
at_read(n) ==
  /\ pc = "read"
  /\ rb_write_iov(rb) # <<>>
  /\ n \in 1 .. Len(tty) /\ n <= IovLen(rb_write_iov(rb))
  /\ rb' = rb_write_upd(readv(rb, rb_write_iov(rb), SubSeq(tty, 1, n)), n)
  /\ tty' = SubSeq(tty, n + 1, Len(tty))
  /\ pc' = "parse"
  /\ UNCHANGED <<sent, read_result, pushed, expected, due>>

(* "at cmd receive buffer overflow": at_read returns -1, the thread ends.  *)
Overflow ==
  /\ pc = "read"
  /\ tty # <<>>
  /\ rb_write_iov(rb) = <<>>
  /\ pc' = "end"
  /\ UNCHANGED <<sent, tty, rb, read_result, pushed, expected, due>>

(* The loop around at_read_result_iov: a line goes to the serializer       *)
(* unless it is empty.                                                     *)
Parse ==
  /\ pc = "parse"
  /\ LET r    == at_read_result_iov(rb, read_result)
         line == at_combine_iov(r.rb, r.iov)
     IN  /\ read_result' = r.st
         /\ rb' = IF r.res = "line" THEN rb_read_upd(r.rb, Len(line) + r.skip) ELSE r.rb
         /\ pushed' = IF r.res = "line" /\ line # <<>> THEN Append(pushed, line) ELSE pushed
         /\ pc' = IF r.res = "none" THEN "read" ELSE "parse"
  /\ UNCHANGED <<sent, tty, expected, due>>

Next ==
  \/ \E name \in Units : ModemSends(name)
  \/ \E n \in 1 .. Size : at_read(n)
  \/ Overflow
  \/ Parse

Spec == Init /\ [][Next]_vars

-----------------------------------------------------------------------------
TypeOK ==
  /\ sent \in 0 .. MaxUnits
  /\ rb.used \in 0 .. Size /\ rb.read \in 0 .. Size - 1 /\ rb.write \in 0 .. Size
  /\ read_result \in 0 .. 1
  /\ pc \in {"read", "parse", "end"}

(* The lines are those the modem sent, in order, wherever reads cut them   *)
(* and wherever they lie in the buffer: none is split, joined or invented. *)
LinesAreTrue ==
  /\ Len(pushed) <= Len(expected)
  /\ \A i \in 1 .. Len(pushed) : pushed[i] = expected[i]

(* Nothing is held back: when all that was sent has been read and parsed,  *)
(* every line has been handled.                                            *)
NoLineWaits == pc = "read" /\ tty = <<>> => Len(pushed) = Len(expected)

(* A buffer that holds the longest unit, and the line end before it, never *)
(* overflows: "at cmd receive buffer overflow" (at_read.c:74) is not       *)
(* reached by a fast modem, only by a unit that is too long.               *)
NeverOverflows == pc # "end"
=============================================================================
