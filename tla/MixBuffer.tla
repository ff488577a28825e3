------------------------------ MODULE MixBuffer ------------------------------
(***************************************************************************)
(* The mixer of a device with multiparty calls (mixbuffer.c): one ring     *)
(* buffer, into which the channel of every call writes at a position of    *)
(* its own, and the timer of the master channel, which takes frames out    *)
(* for the tty.  A sample is a number; adding saturates.                   *)
(***************************************************************************)
EXTENDS RingBuffer, FiniteSets

CONSTANTS
  Streams,     \* mixstreams, one in each cpvt
  Size,        \* samples in write_buf: five frames
  Frame,       \* samples in a frame of the timer
  MaxData,     \* bound: samples a channel writes at once, Size at most
  Sample,      \* the samples each stream writes
  MaxSample,   \* the largest sample, 32767
  HeldWrites   \* whether the channel of a call that is not activated is written to

VARIABLES
  rb,        \* the ring buffer
  stream,    \* of every stream [used, write]
  attached   \* the streams in the list

vars == <<rb, stream, attached>>

Init ==
  /\ rb = rb_init(Size, 0)
  /\ stream = [s \in Streams |-> [used |-> 0, write |-> 0]]
  /\ attached = {}

(* ast_slinear_saturated_add.                                              *)
saturated_sum(a, b) == IF a + b > MaxSample THEN MaxSample ELSE a + b

-----------------------------------------------------------------------------
(* mixbuffer.c.  The mixer is a record [rb, st], st the streams.           *)

Least(a, b) == IF a < b THEN a ELSE b

mixb_attach(s) ==   \* cpvt_call_activate
  /\ s \notin attached
  /\ stream' = [stream EXCEPT ![s] = [used |-> 0, write |-> rb.read]]
  /\ attached' = attached \union {s}
  /\ UNCHANGED rb

mixb_detach(s) ==   \* cpvt_call_disactivate
  /\ s \in attached
  /\ attached' = attached \ {s}
  /\ UNCHANGED <<rb, stream>>

mixb_free(m, s) == m.rb.size - m.st[s].used

(* Writing into what others have written: the positions of the stream      *)
(* stand in for those of the buffer.                                       *)
mixb_mix_write(m, s, data) ==
  LET local == [m.rb EXCEPT !.write = m.st[s].write, !.used = m.st[s].used]
      sum   == [p \in Meetings(local, data) |-> saturated_sum(p[1], p[2])]
      done  == rb_write_core(local, data, sum)
  IN  [m EXCEPT !.rb.buffer = done.buffer, !.st[s] = [used |-> done.used, write |-> done.write]]

(* Seeded fault: what is mixed is not taken off what is appended.          *)
WriteTwice(m, s, data) ==
  LET len == Least(Len(data), mixb_free(m, s))
      mix == m.rb.used - m.st[s].used
      d   == SubSeq(data, 1, len)
      m1  == IF mix > 0 /\ len > mix THEN mixb_mix_write(m, s, SubSeq(d, 1, mix)) ELSE m
      rb1 == rb_write(m1.rb, d)
  IN  CASE len = 0 -> m
        [] len > 0 /\ len > mix -> [rb |-> rb1, st |-> [m1.st EXCEPT ![s] = [used |-> rb1.used, write |-> rb1.write]]]
        [] OTHER -> mixb_mix_write(m, s, d)

(* Mix, or mix and append.  rb.used - stream.used is unsigned: with less   *)
(* in the buffer than in the stream it is larger than any length.          *)
mixb_write(m, s, data) ==
  LET len == Least(Len(data), mixb_free(m, s))
      mix == m.rb.used - m.st[s].used
      d   == SubSeq(data, 1, len)
      m1  == IF mix > 0 THEN mixb_mix_write(m, s, SubSeq(d, 1, mix)) ELSE m
      rb1 == rb_write(m1.rb, SubSeq(d, mix + 1, len))
  IN  CASE len = 0 -> m
        [] len > 0 /\ mix >= 0 /\ len > mix ->
             [rb |-> rb1, st |-> [m1.st EXCEPT ![s] = [used |-> rb1.used, write |-> rb1.write]]]
        [] OTHER -> mixb_mix_write(m, s, d)

(* The streams in the list follow the read position.                       *)
mixb_read_upd(m, len) ==
  LET rb1 == rb_read_upd(m.rb, len)
      used(s)  == IF m.st[s].used > len THEN m.st[s].used - len ELSE 0
      write(s) == IF rb1.read + used(s) >= rb1.size THEN rb1.read + used(s) - rb1.size
                                                    ELSE rb1.read + used(s)
  IN  [rb |-> rb1,
       st |-> [s \in DOMAIN m.st |->
                 IF s \in attached THEN [used |-> used(s), write |-> write(s)] ELSE m.st[s]]]

Mixer == [rb |-> rb, st |-> stream]

Becomes(m) == rb' = m.rb /\ stream' = m.st /\ UNCHANGED attached

-----------------------------------------------------------------------------
(* channel_write_tty, with a mix buffer.  When the stream has no room the  *)
(* oldest samples of all streams go.                                       *)
channel_write_tty(s, data) ==
  /\ s \in attached \/ HeldWrites
  /\ LET count == mixb_free(Mixer, s)
         m     == IF count < Len(data) THEN mixb_read_upd(Mixer, Len(data) - count) ELSE Mixer
     IN  Becomes(mixb_write(m, s, data))

(* timing_write_tty: a frame, or what there is and silence.  The timer is  *)
(* that of the master, which is activated.                                 *)
timing_write_tty ==
  /\ attached # {}
  /\ rb.used > 0
  /\ Becomes(mixb_read_upd(Mixer, Least(rb.used, Frame)))

DataOf(s) == UNION {[1 .. n -> Sample[s]] : n \in 1 .. MaxData}

Next ==
  \/ \E s \in Streams : mixb_attach(s) \/ mixb_detach(s) \/ (\E data \in DataOf(s) : channel_write_tty(s, data))
  \/ timing_write_tty

Spec == Init /\ [][Next]_vars

-----------------------------------------------------------------------------
TypeOK ==
  /\ rb.used \in 0 .. Size /\ rb.read \in 0 .. Size - 1 /\ rb.write \in 0 .. Size
  /\ rb.buffer \in [0 .. Size - 1 -> 0 .. MaxSample]
  /\ stream \in [Streams -> [used : 0 .. Size, write : 0 .. Size - 1]]
  /\ attached \subseteq Streams

(* "all streams has one read but differ used" (mixbuffer.c:111): no stream *)
(* is ahead of the buffer, and each one writes where its own samples end,  *)
(* through overflow, underrun and other streams' writes.                   *)
StreamsInStep ==
  \A s \in Streams :
    (s \in attached \/ HeldWrites) =>
      /\ stream[s].used <= rb.used
      /\ stream[s].write = (rb.read + stream[s].used) % Size

(* The buffer holds what a mixer should: every sample of every stream at   *)
(* its place, once, and none lost but the oldest to make room.             *)
NotIn == -1
Mixed == INSTANCE MixedStreams WITH
           q <- Contents(rb),
           at <- [s \in Streams |-> IF s \in attached THEN stream[s].used ELSE NotIn],
           Data <- [s \in Streams |-> DataOf(s)],
           Mix <- saturated_sum
ImplementsMixer == Mixed!Spec
=============================================================================
