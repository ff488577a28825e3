------------------------------- MODULE MCData -------------------------------
(***************************************************************************)
(* Buffers and coding on small instances: the ring buffer (part "ring",    *)
(* RingFifo), the reader of lines with a buffer that holds every unit and  *)
(* with one that does not (parts "lines" and "tight", LineReader), the     *)
(* mixer ("mixer", MixBuffer), septets ("gsm7"), the cutting of a text     *)
(* ("submit"), validity and numbers ("fields") and user data headers       *)
(* ("deliver").  They share no state; a behaviour is about one of them,    *)
(* and the state of the others stays as it is.                             *)
(***************************************************************************)
EXTENDS RingFifo

VARIABLES
  part,
  sent, tty, lrb, read_result, lpc, pushed, expected, due,     \* LineReader
  mrb, stream, attached,                                       \* MixBuffer
  text, padding, pc, i, value, bits, octets, out, esc,         \* Gsm7
  stext, dst, spc, off, cnt, parts,                            \* PduSubmit
  field, minutes, plus, number,                                \* PduFields
  els, header, ud, dpc, pos, udhl, udh, fill, nibbles, chars   \* PduDeliver

lineVars    == <<sent, tty, lrb, read_result, lpc, pushed, expected, due>>
mixVars     == <<mrb, stream, attached>>
gsm7Vars    == <<text, padding, pc, i, value, bits, octets, out, esc>>
submitVars  == <<stext, dst, spc, off, cnt, parts>>
fieldVars   == <<field, minutes, plus, number>>
deliverVars == <<els, header, ud, dpc, pos, udhl, udh, fill, nibbles, chars>>

AllUnits == {"ok", "urc", "prompt", "noise", "cmgr", "cmgl", "cmt"}

Lines == INSTANCE LineReader WITH
           rb <- lrb, pc <- lpc, Size <- 18, Units <- AllUnits, MaxUnits <- 3

Tight == INSTANCE LineReader WITH
           rb <- lrb, pc <- lpc, Size <- 12, Units <- AllUnits, MaxUnits <- 3

(* What two calls write; some of the sums saturate.                       *)
TwoSamples == [s \in {"a", "b"} |-> IF s = "a" THEN {1, 2} ELSE {3}]

Mixer == INSTANCE MixBuffer WITH
           rb <- mrb, Streams <- {"a", "b"}, Size <- 3, Frame <- 2, MaxData <- 2,
           Sample <- TwoSamples, MaxSample <- 4, HeldWrites <- FALSE

Septets == INSTANCE Gsm7 WITH Chars <- {0, 127}, Shifted <- {85}, MaxLen <- 6

(* 160, 153 and 70, 67 scaled down; texts of up to four parts.             *)
Submit == INSTANCE PduSubmit WITH
            text <- stext, pc <- spc, SmsGsm7 <- 6, CsmsGsm7 <- 4, SmsUcs2 <- 4,
            CsmsUcs2 <- 3, MaxParts <- 3, MaxLen <- 8

(* Around the borders of the ranges with different steps.                  *)
Fields == INSTANCE PduFields WITH
            Periods <- UNION {1 .. 11, 700 .. 760, 1400 .. 1500, 2870 .. 2890, 43190 .. 43210,
                              50390 .. 50410, 634000 .. 634030, 635000 .. 635050},
            Digits <- {"0", "9", "#", "c", "C", "x"}, MaxDigits <- 4

Deliver == INSTANCE PduDeliver WITH
             sent <- ud, pc <- dpc, i <- pos, padding <- fill, MaxElements <- 3, Texts <- 0 .. 2,
             Elements <- {"concat8", "concat16", "other", "wrong", "long"}

DataInit ==
  /\ part \in {"ring", "lines", "tight", "mixer", "gsm7", "submit", "fields", "deliver"}
  /\ Init /\ Mixer!Init /\ Deliver!Init
  /\ IF part = "tight" THEN Tight!Init ELSE Lines!Init
  /\ Septets!Init /\ (part = "gsm7" \/ padding = 0)
  /\ Submit!Init /\ (part = "submit" \/ dst = "good")
  /\ Fields!Init /\ (part = "fields" \/ (field = "number" /\ ~plus))

DataNext ==
  \/ /\ part = "ring" /\ Next
     /\ UNCHANGED <<part, lineVars, mixVars, gsm7Vars, submitVars, fieldVars, deliverVars>>
  \/ /\ part = "lines" /\ Lines!Next
     /\ UNCHANGED <<part, rb, mixVars, gsm7Vars, submitVars, fieldVars, deliverVars>>
  \/ /\ part = "tight" /\ Tight!Next
     /\ UNCHANGED <<part, rb, mixVars, gsm7Vars, submitVars, fieldVars, deliverVars>>
  \/ /\ part = "mixer" /\ Mixer!Next
     /\ UNCHANGED <<part, rb, lineVars, gsm7Vars, submitVars, fieldVars, deliverVars>>
  \/ /\ part = "gsm7" /\ Septets!Next
     /\ UNCHANGED <<part, rb, lineVars, mixVars, submitVars, fieldVars, deliverVars>>
  \/ /\ part = "submit" /\ Submit!Next
     /\ UNCHANGED <<part, rb, lineVars, mixVars, gsm7Vars, fieldVars, deliverVars>>
  \/ /\ part = "fields" /\ Fields!Next
     /\ UNCHANGED <<part, rb, lineVars, mixVars, gsm7Vars, submitVars, deliverVars>>
  \/ /\ part = "deliver" /\ Deliver!Next
     /\ UNCHANGED <<part, rb, lineVars, mixVars, gsm7Vars, submitVars, fieldVars>>

DataSpec ==
  /\ DataInit
  /\ [][DataNext]_<<part, rb, lineVars, mixVars, gsm7Vars, submitVars, fieldVars, deliverVars>>

(* Wherever the contents lie in the ring buffer, writes append what fits,  *)
(* and searches and comparisons find what they would find in the contents  *)
(* (rb_write, rb_read_until_mem_iov, rb_memcmp).  So every line the modem  *)
(* sends is handed on whole, once, in order and as soon as its last octet  *)
(* is read, wherever reads cut it and wherever it wraps; and a buffer that *)
(* holds the longest unit and a line end never fills (at_read_result_iov,  *)
(* at_read).                                                               *)
LinesArriveWhole ==
  /\ part = "ring" => InStep /\ AppendsWhatFits /\ FindsFirst /\ ComparesContents
  /\ part = "lines" => Lines!LinesAreTrue /\ Lines!NoLineWaits /\ Lines!NeverOverflows
  /\ part = "tight" => Tight!LinesAreTrue /\ Tight!NoLineWaits

(* What is read from the mixer is the sum of what the streams wrote, each  *)
(* sample at its place and once, though streams join, leave, overflow and  *)
(* fall behind (mixbuffer.c, channel_write_tty, timing_write_tty).         *)
ImplementsMixer == Mixer!ImplementsMixer

(* Texts are unpacked as they were packed and take the octets that are     *)
(* announced, at every position of the bits in their octets (gsm7_pack,    *)
(* gsm7_unpack_decode); numbers are read as they were stored and periods   *)
(* are rounded up to the next that can be coded (pdu_parse_number,         *)
(* pdu_relative_validity).                                                 *)
CodingIsReversible ==
  /\ part = "gsm7" => Septets!LengthAsAnnounced /\ Septets!RoundTrip
  /\ part = "fields" => Fields!NumberRoundTrip /\ Fields!RoundsUp

(* The parts of a message are its text, in order, as many as their headers *)
(* say, and each fits, but for a text that fills one message to the septet *)
(* (pdu_build_mult; that case is in README).                               *)
PartsAreTheText ==
  part = "submit" => Submit!PartsAreTheText /\ Submit!PartsFit

(* The parser of a received message stays inside it, takes every good one, *)
(* finds where the text begins and decodes as much as is announced,        *)
(* whatever the lengths in its header say, but for a 7-bit message whose   *)
(* announced septets end inside the header (tpdu_parse_deliver; that case  *)
(* and language elements are in README).                                   *)
HeadersAreRead ==
  part = "deliver" => Deliver!TextIsFound /\ Deliver!ReadsInside /\ Deliver!GoodIsParsed
=============================================================================
