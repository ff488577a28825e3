----------------------------- MODULE RingBuffer -----------------------------
(***************************************************************************)
(* ringbuffer.c: a record [size, used, read, write, buffer], offsets from  *)
(* 0.  An io vector is a sequence of at most two extents [base, len]; the  *)
(* empty one stands for the result 0.                                      *)
(***************************************************************************)
EXTENDS Integers, Sequences

Extent(base, len) == [base |-> base, len |-> len]

rb_init(size, fill) ==
  [size |-> size, used |-> 0, read |-> 0, write |-> 0, buffer |-> [i \in 0 .. size - 1 |-> fill]]

rb_free(rb) == rb.size - rb.used

rb_reset(rb) == [rb EXCEPT !.used = 0, !.read = 0, !.write = 0]

(* len bytes from an offset, and those of an io vector (at_combine_iov).   *)
Bytes(rb, base, len) == [i \in 1 .. len |-> rb.buffer[base + i - 1]]

at_combine_iov(rb, iov) ==
  CASE Len(iov) = 0 -> <<>>
    [] Len(iov) = 1 -> Bytes(rb, iov[1].base, iov[1].len)
    [] Len(iov) = 2 -> Bytes(rb, iov[1].base, iov[1].len) \o Bytes(rb, iov[2].base, iov[2].len)

(* What the buffer holds, from the oldest byte on: no function of the      *)
(* source, the reference for all of them.                                  *)
Contents(rb) == [i \in 1 .. rb.used |-> rb.buffer[(rb.read + i - 1) % rb.size]]

-----------------------------------------------------------------------------
(* Reading.                                                                *)

(* The extents of len bytes at an offset that may run over the end.        *)
Span(rb, base, len) ==
  IF base + len > rb.size
    THEN <<Extent(base, rb.size - base), Extent(0, len - (rb.size - base))>>
    ELSE <<Extent(base, len)>>

(* 0: equal, 1: different, -1: not enough bytes to say.                    *)
rb_memcmp(rb, mem) ==
  IF rb.used > 0 /\ Len(mem) > 0 /\ rb.used >= Len(mem)
    THEN IF at_combine_iov(rb, Span(rb, rb.read, Len(mem))) = mem THEN 0 ELSE 1
    ELSE -1

rb_read_n_iov(rb, len) == IF rb.used < len \/ len = 0 THEN <<>> ELSE Span(rb, rb.read, len)

rb_read_all_iov(rb) == rb_read_n_iov(rb, rb.used)

NotFound == -1

(* memmem: the offset of the first occurrence.                             *)
memmem(s, mem) ==
  LET found == {p \in 0 .. Len(s) - Len(mem) : SubSeq(s, p + 1, p + Len(mem)) = mem}
  IN  IF found = {} THEN NotFound ELSE CHOOSE p \in found : \A q \in found : p <= q

(* np_memchr: not past a printable character.                              *)
np_memchr(s, c, unprintable) ==
  LET found == {p \in 0 .. Len(s) - 1 : s[p + 1] = c /\ \A q \in 1 .. p : s[q] \in unprintable}
  IN  IF found = {} \/ c \notin unprintable THEN NotFound ELSE CHOOSE p \in found : \A q \in found : p <= q

rb_read_until_char_iov(rb, c, unprintable) ==
  LET n0 == rb.size - rb.read                    \* up to the end of the buffer
  IN  IF rb.used = 0
        THEN <<>>
        ELSE IF rb.read + rb.used > rb.size
          THEN LET p0 == np_memchr(Bytes(rb, rb.read, n0), c, unprintable)
                   p1 == np_memchr(Bytes(rb, 0, rb.used - n0), c, unprintable)
               IN  IF p0 # NotFound
                     THEN <<Extent(rb.read, p0)>>
                     ELSE IF p1 # NotFound THEN <<Extent(rb.read, n0), Extent(0, p1)>> ELSE <<>>
          ELSE LET p == np_memchr(Bytes(rb, rb.read, rb.used), c, unprintable)
               IN  IF p # NotFound THEN <<Extent(rb.read, p)>> ELSE <<>>

(* Seeded fault: a match over the end of the buffer is tried at its first  *)
(* place only.                                                             *)
StraddleFirstOnly(rb, mem) ==
  LET n0 == rb.size - rb.read
      len == Len(mem)
  IN  IF n0 >= len THEN {1} \intersect 1 .. len - 1 ELSE {len - n0}

(* The numbers of bytes of mem that may lie behind the end of the buffer.  *)
Straddles(rb, mem) ==
  LET n0  == rb.size - rb.read
      len == Len(mem)
  IN  {i \in 1 .. len - 1 : i <= rb.used - n0 /\ (n0 >= len \/ i >= len - n0)}

(* rb_read_until_mem_iov, for mem of at least two characters.              *)
rb_read_until_mem_iov(rb, mem) ==
  LET n0  == rb.size - rb.read
      n1  == rb.used - n0
      len == Len(mem)
      first  == memmem(Bytes(rb, rb.read, n0), mem)
      across == {i \in Straddles(rb, mem) :
                   /\ Bytes(rb, rb.size - (len - i), len - i) = SubSeq(mem, 1, len - i)
                   /\ Bytes(rb, 0, i) = SubSeq(mem, len - i + 1, len)}
      second == memmem(Bytes(rb, 0, n1), mem)
  IN  IF rb.used < len
        THEN <<>>
        ELSE IF rb.read + rb.used > rb.size
          THEN IF n0 >= len /\ first # NotFound
                 THEN <<Extent(rb.read, first)>>
                 ELSE IF across # {}
                   THEN LET i == CHOOSE i \in across : \A j \in across : i <= j
                        IN  <<Extent(rb.read, n0 - (len - i))>>
                   ELSE IF n1 >= len /\ second # NotFound
                     THEN IF second = 0 THEN <<Extent(rb.read, n0)>>
                                        ELSE <<Extent(rb.read, n0), Extent(0, second)>>
                     ELSE <<>>
          ELSE LET p == memmem(Bytes(rb, rb.read, rb.used), mem)
               IN  IF p # NotFound THEN <<Extent(rb.read, p)>> ELSE <<>>

(* An emptied buffer begins anew.                                          *)
rb_read_upd(rb, n) ==
  LET len == IF rb.used < n THEN rb.used ELSE n
      s   == rb.read + len
  IN  IF len = 0
        THEN rb
        ELSE IF rb.used = len
          THEN rb_reset(rb)
          ELSE [rb EXCEPT !.used = @ - len, !.read = IF s >= rb.size THEN s - rb.size ELSE s]

-----------------------------------------------------------------------------
(* Writing.                                                                *)

(* Seeded fault: the extents of the whole buffer, free or not.             *)
WriteIovWhole(rb) ==
  IF rb_free(rb) > 0 THEN Span(rb, rb.write, rb.size) ELSE <<>>

rb_write_iov(rb) ==
  IF rb_free(rb) > 0 THEN Span(rb, rb.write, rb_free(rb)) ELSE <<>>

IovLen(iov) == IF Len(iov) = 2 THEN iov[1].len + iov[2].len ELSE iov[1].len

(* readv: the bytes of data go to the extents of an io vector.             *)
readv(rb, iov, data) ==
  [rb EXCEPT !.buffer =
     [o \in DOMAIN @ |->
        IF iov[1].base <= o /\ o < iov[1].base + iov[1].len /\ o - iov[1].base < Len(data)
          THEN data[o - iov[1].base + 1]
          ELSE IF Len(iov) = 2 /\ o < iov[2].len /\ iov[1].len + o < Len(data)
            THEN data[iov[1].len + o + 1]
            ELSE @[o]]]

(* The write position may be left at the end of the buffer.                *)
rb_write_upd(rb, n) ==
  LET len == IF rb_free(rb) < n THEN rb_free(rb) ELSE n
      s   == rb.write + len
  IN  IF len = 0
        THEN rb
        ELSE [rb EXCEPT !.write = IF s > rb.size THEN s - rb.size ELSE s, !.used = @ + len]

(* What was in the buffer, and the byte that is written over it.           *)
Meetings(rb, data) ==
  {rb.buffer[o] : o \in DOMAIN rb.buffer} \X {data[k] : k \in DOMAIN data}

(* len bytes at the write position and, over the end, from the beginning:  *)
(* what is written at an offset is what the function method makes of the   *)
(* two.                                                                    *)
Overlaid(rb, data, method, len) ==
  [o \in DOMAIN rb.buffer |->
     IF rb.write + len > rb.size
       THEN IF o >= rb.write
              THEN method[<<rb.buffer[o], data[o - rb.write + 1]>>]
              ELSE IF o < rb.write + len - rb.size
                THEN method[<<rb.buffer[o], data[rb.size - rb.write + o + 1]>>]
                ELSE rb.buffer[o]
       ELSE IF rb.write <= o /\ o < rb.write + len
         THEN method[<<rb.buffer[o], data[o - rb.write + 1]>>]
         ELSE rb.buffer[o]]

rb_write_core(rb, data, method) ==
  LET len == IF rb_free(rb) < Len(data) THEN rb_free(rb) ELSE Len(data)
      s   == rb.write + len
  IN  IF len = 0
        THEN rb
        ELSE [rb EXCEPT !.buffer = Overlaid(rb, data, method, len),
                        !.write = IF s > rb.size THEN s - rb.size ELSE IF s = rb.size THEN 0 ELSE s,
                        !.used = @ + len]

memmove(rb, data) == [m \in Meetings(rb, data) |-> m[2]]

rb_write(rb, data) == rb_write_core(rb, data, memmove(rb, data))
=============================================================================
