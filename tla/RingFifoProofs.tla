--------------------------- MODULE RingFifoProofs ---------------------------
(***************************************************************************)
(* The ring buffer is a bounded queue, for any size and any characters:    *)
(* every step of it is a step of BoundedFifo on its contents, or none.     *)
(***************************************************************************)
EXTENDS RingFifo, SequenceTheorems, TLAPS

(* An offset in the buffer, from one that may have passed its end.         *)
Wrap(x) == IF x < Size THEN x ELSE x - Size

(* InStep without a remainder: the write position follows the last byte in *)
(* use.  An empty buffer may also be written from its end on.              *)
Placed(r) ==
  \/ r.write = r.read + r.used
  \/ r.write + Size = r.read + r.used
  \/ r.write = Size /\ r.read + r.used = 0

(* The buffer with the bytes d after the ones in use.                      *)
Filled(r, d) ==
  [o \in 0 .. Size - 1 |->
     IF r.write <= o /\ o - r.write < Len(d)
       THEN d[o - r.write + 1]
       ELSE IF Size - r.write + o < Len(d) THEN d[Size - r.write + o + 1] ELSE r.buffer[o]]

Buf(used, read, write, buffer) ==
  [size |-> Size, used |-> used, read |-> read, write |-> write, buffer |-> buffer]

IInv == TypeOK /\ Placed(rb)

-----------------------------------------------------------------------------
(* Places in the buffer.                                                   *)

(* What the remainder is, for a place less than two sizes away.            *)
LEMMA WrapIsMod ==
  ASSUME NEW x \in Nat, x < Size + Size
  PROVE  x % Size = Wrap(x) /\ Wrap(x) \in 0 .. Size - 1
<1>1. Size \in Nat /\ Size > 0
  BY SizeAssumption
<1>2. CASE x < Size
  BY <1>1, <1>2 DEF Wrap
<1>3. CASE x >= Size
  <2>1. PICK y \in 0 .. Size - 1 : x = Size + y
    BY <1>1, <1>3
  <2>2. (Size + y) % Size = y
    BY <1>1
  <2> QED BY <1>1, <2>1, <2>2 DEF Wrap
<1> QED BY <1>1, <1>2, <1>3

(* The fields of a buffer.                                                 *)
LEMMA Fields ==
  ASSUME NEW r \in Buffer
  PROVE  /\ Size \in Nat /\ Size > 0 /\ r.size = Size
         /\ r.used \in 0 .. Size /\ r.read \in 0 .. Size - 1 /\ r.write \in 0 .. Size
         /\ r.buffer \in [0 .. Size - 1 -> Byte]
         /\ r = [size |-> Size, used |-> r.used, read |-> r.read, write |-> r.write,
                 buffer |-> r.buffer]
  BY SizeAssumption DEF Buffer

(* The contents are a sequence, byte by byte.                              *)
LEMMA ContentsSeq ==
  ASSUME NEW r \in Buffer
  PROVE  /\ Contents(r) \in Seq(Byte) /\ Len(Contents(r)) = r.used
         /\ \A i \in 1 .. r.used : Contents(r)[i] = r.buffer[Wrap(r.read + i - 1)]
<1>1. /\ Size \in Nat /\ Size > 0 /\ r.size = Size
      /\ r.used \in 0 .. Size /\ r.read \in 0 .. Size - 1
      /\ r.buffer \in [0 .. Size - 1 -> Byte]
  BY Fields
<1>2. ASSUME NEW i \in 1 .. r.used
      PROVE  /\ (r.read + i - 1) % r.size = Wrap(r.read + i - 1)
             /\ Wrap(r.read + i - 1) \in 0 .. Size - 1
  <2>1. r.read + i - 1 \in Nat /\ r.read + i - 1 < Size + Size
    BY <1>1
  <2> QED BY <1>1, <2>1, WrapIsMod
<1>3. Contents(r) = [i \in 1 .. r.used |-> r.buffer[Wrap(r.read + i - 1)]]
  BY <1>2 DEF Contents
<1>4. \A i \in 1 .. r.used : r.buffer[Wrap(r.read + i - 1)] \in Byte
  BY <1>1, <1>2
<1> HIDE DEF Wrap
<1>5. Contents(r) \in [1 .. r.used -> Byte]
  BY <1>3, <1>4
<1>6. PICK n \in Nat : n = r.used
  BY <1>1
<1>7. Contents(r) \in Seq(Byte) /\ Len(Contents(r)) = n
  <2>1. PICK c \in [1 .. n -> Byte] : c = Contents(r)
    BY <1>5, <1>6
  <2>2. c \in Seq(Byte) /\ Len(c) = n
    BY <2>1
  <2> QED BY <2>1, <2>2
<1> QED BY <1>3, <1>6, <1>7

(* The bytes in use are not written over ...                               *)
LEMMA OldPlaces ==
  ASSUME NEW r \in Buffer, Placed(r), NEW n \in 0 .. Size - r.used, NEW i \in 1 .. r.used
  PROVE  LET o == Wrap(r.read + i - 1)
         IN  /\ o \in 0 .. Size - 1
             /\ ~(r.write <= o /\ o - r.write < n) /\ ~(Size - r.write + o < n)
<1>1. PICK used \in 0 .. Size, read \in 0 .. Size - 1, write \in 0 .. Size :
        /\ used = r.used /\ read = r.read /\ write = r.write
        /\ \/ write = read + used
           \/ write + Size = read + used
           \/ write = Size /\ read + used = 0
  BY Fields DEF Placed
<1>2. Size \in Nat /\ Size > 0
  BY SizeAssumption
<1> QED BY <1>1, <1>2 DEF Wrap

(* ... and the new ones follow them.                                       *)
LEMMA NewPlaces ==
  ASSUME NEW r \in Buffer, Placed(r), NEW n \in 0 .. Size - r.used, NEW j \in 1 .. n
  PROVE  LET o == Wrap(r.read + r.used + j - 1)
         IN  /\ o \in 0 .. Size - 1
             /\ \/ r.write <= o /\ o - r.write = j - 1
                \/ r.write > o /\ Size - r.write + o = j - 1
<1>1. PICK used \in 0 .. Size, read \in 0 .. Size - 1, write \in 0 .. Size :
        /\ used = r.used /\ read = r.read /\ write = r.write
        /\ \/ write = read + used
           \/ write + Size = read + used
           \/ write = Size /\ read + used = 0
  BY Fields DEF Placed
<1>2. Size \in Nat /\ Size > 0
  BY SizeAssumption
<1> QED BY <1>1, <1>2 DEF Wrap

(* Filling the buffer appends to its contents.                             *)
LEMMA FilledAppends ==
  ASSUME NEW r \in Buffer, Placed(r), NEW d \in Seq(Byte), Len(d) <= Size - r.used,
         NEW s \in Buffer, s.read = r.read, s.used = r.used + Len(d), s.buffer = Filled(r, d)
  PROVE  Contents(s) = Contents(r) \o d
<1>1. /\ Size \in Nat /\ Size > 0 /\ Len(d) \in Nat
      /\ r.used \in 0 .. Size /\ r.read \in 0 .. Size - 1 /\ r.write \in 0 .. Size
  BY Fields, LenProperties
<1>2. Len(d) \in 0 .. Size - r.used
  BY <1>1
<1>3. /\ Contents(s) \in Seq(Byte) /\ Len(Contents(s)) = r.used + Len(d)
      /\ \A i \in 1 .. r.used + Len(d) : Contents(s)[i] = Filled(r, d)[Wrap(r.read + i - 1)]
  BY ContentsSeq
<1>4. /\ Contents(r) \in Seq(Byte) /\ Len(Contents(r)) = r.used
      /\ \A i \in 1 .. r.used : Contents(r)[i] = r.buffer[Wrap(r.read + i - 1)]
  BY ContentsSeq
<1>5. /\ Contents(r) \o d \in Seq(Byte) /\ Len(Contents(r) \o d) = r.used + Len(d)
      /\ \A i \in 1 .. r.used + Len(d) :
           (Contents(r) \o d)[i] = IF i <= r.used THEN Contents(r)[i] ELSE d[i - r.used]
  BY <1>4, ConcatProperties
<1>6. PICK used \in Nat, n \in Nat, read \in Nat, write \in Nat :
        used = r.used /\ n = Len(d) /\ read = r.read /\ write = r.write
  BY <1>1
<1>7. ASSUME NEW i \in 1 .. used + n
      PROVE  Contents(s)[i] = (Contents(r) \o d)[i]
  <2>1. CASE i <= used
    <3>1. i \in 1 .. r.used
      BY <1>6, <2>1
    <3>2. PICK o \in 0 .. Size - 1 :
            /\ o = Wrap(r.read + i - 1)
            /\ ~(r.write <= o /\ o - r.write < Len(d)) /\ ~(Size - r.write + o < Len(d))
      BY <1>2, <3>1, OldPlaces
    <3>3. Filled(r, d)[o] = r.buffer[o]
      BY <3>2 DEF Filled
    <3> QED BY <1>3, <1>4, <1>5, <1>6, <2>1, <3>1, <3>2, <3>3
  <2>2. CASE i > used
    <3>1. PICK j \in 1 .. n : i = used + j
      <4>1. i - used \in 1 .. n /\ i = used + (i - used)
        BY <2>2
      <4> QED BY <4>1
    <3>2. j \in 1 .. Len(d)
      BY <1>6
    <3>3. PICK o \in 0 .. Size - 1 :
            /\ o = Wrap(r.read + r.used + j - 1)
            /\ \/ r.write <= o /\ o - r.write = j - 1
               \/ r.write > o /\ Size - r.write + o = j - 1
      BY <1>2, <3>2, NewPlaces
    <3>4. Filled(r, d)[o] = d[j]
      <4>1. CASE write <= o /\ o - write = j - 1
        <5>1. o - write < n /\ o - write + 1 = j
          BY <4>1
        <5> QED BY <1>6, <4>1, <5>1 DEF Filled
      <4>2. CASE write > o /\ Size - write + o = j - 1
        <5>1. ~(write <= o) /\ Size - write + o < n /\ Size - write + o + 1 = j
          BY <1>1, <4>2
        <5> QED BY <1>6, <5>1 DEF Filled
      <4> QED BY <1>6, <3>3, <4>1, <4>2
    <3>5. read + i - 1 = read + used + j - 1 /\ ~(i <= used) /\ i - used = j
      BY <2>2, <3>1
    <3>6. Contents(s)[i] = Filled(r, d)[o]
      BY <1>3, <1>6, <3>3, <3>5
    <3>7. (Contents(r) \o d)[i] = d[j]
      BY <1>5, <1>6, <3>5
    <3> QED BY <3>4, <3>6, <3>7
  <2>3. i <= used \/ i > used
    OBVIOUS
  <2> QED BY <2>1, <2>2, <2>3
<1> QED BY <1>3, <1>5, <1>6, <1>7, SeqEqual

-----------------------------------------------------------------------------
(* Operations.                                                             *)

(* at_read: the bytes readv gives go to the places after the ones in use.  *)
LEMMA ReadvFills ==
  ASSUME NEW r \in Buffer, r.used < Size, NEW d \in Seq(Byte), Len(d) \in 1 .. Size - r.used
  PROVE  readv(r, rb_write_iov(r), d) = [r EXCEPT !.buffer = Filled(r, d)]
<1>1. /\ Size \in Nat /\ Size > 0 /\ r.size = Size
      /\ r.used \in 0 .. Size /\ r.write \in 0 .. Size
      /\ r.buffer \in [0 .. Size - 1 -> Byte]
  BY Fields
<1>2. PICK used \in Nat, n \in Nat, write \in Nat :
        /\ used = r.used /\ n = Len(d) /\ write = r.write
        /\ used < Size /\ write <= Size /\ 1 <= n /\ n <= Size - used
  BY <1>1
<1> DEFINE iov == rb_write_iov(r)
<1>3. iov = IF write + (Size - used) > Size
              THEN <<Extent(write, Size - write), Extent(0, Size - used - (Size - write))>>
              ELSE <<Extent(write, Size - used)>>
  BY <1>1, <1>2 DEF rb_write_iov, rb_free, Span
<1> HIDE DEF iov
<1> DEFINE new == [o \in 0 .. Size - 1 |->
                     IF iov[1].base <= o /\ o < iov[1].base + iov[1].len /\ o - iov[1].base < Len(d)
                       THEN d[o - iov[1].base + 1]
                       ELSE IF Len(iov) = 2 /\ o < iov[2].len /\ iov[1].len + o < Len(d)
                         THEN d[iov[1].len + o + 1]
                         ELSE r.buffer[o]]
<1>4. readv(r, iov, d) = [r EXCEPT !.buffer = new]
  BY <1>1 DEF readv
<1>5. new = Filled(r, d)
  <2>1. CASE write + (Size - used) > Size
    <3>1. /\ Len(iov) = 2 /\ iov[1].base = write /\ iov[1].len = Size - write
          /\ iov[2].len = Size - used - (Size - write)
      BY <1>3, <2>1 DEF Extent
    <3>2. ASSUME NEW o \in 0 .. Size - 1
          PROVE  new[o] = Filled(r, d)[o]
      <4>1. /\ (write <= o /\ o < write + (Size - write) /\ o - write < n) <=> (write <= o /\ o - write < n)
            /\ (o < Size - used - (Size - write) /\ Size - write + o < n) <=> (Size - write + o < n)
        BY <1>1, <1>2
      <4> QED BY <1>2, <3>1, <4>1 DEF Filled
    <3> HIDE DEF new
    <3> QED BY <3>2 DEF Filled, new
  <2>2. CASE ~(write + (Size - used) > Size)
    <3>1. Len(iov) = 1 /\ iov[1].base = write /\ iov[1].len = Size - used
      BY <1>3, <2>2 DEF Extent
    <3>2. ASSUME NEW o \in 0 .. Size - 1
          PROVE  new[o] = Filled(r, d)[o]
      <4>1. /\ (write <= o /\ o < write + (Size - used) /\ o - write < n) <=> (write <= o /\ o - write < n)
            /\ ~(Size - write + o < n)
        BY <1>1, <1>2, <2>2
      <4> QED BY <1>2, <3>1, <4>1 DEF Filled
    <3> HIDE DEF new
    <3> QED BY <3>2 DEF Filled, new
  <2> QED BY <2>1, <2>2
<1> QED BY <1>4, <1>5 DEF iov

(* The write position moves on by the bytes written.                       *)
LEMMA NextPlace ==
  ASSUME NEW used \in 0 .. Size, NEW read \in 0 .. Size - 1, NEW write \in 0 .. Size,
         NEW n \in 1 .. Size - used, NEW w \in 0 .. Size,
         w = write + n \/ w + Size = write + n,
         \/ write = read + used
         \/ write + Size = read + used
         \/ write = Size /\ read + used = 0
  PROVE  w = read + (used + n) \/ w + Size = read + (used + n)
<1>1. Size \in Nat
  BY SizeAssumption
<1> QED BY <1>1

(* A buffer that is written to.                                            *)
Moved(t, b, w, u) == [t EXCEPT !.buffer = b, !.write = w, !.used = u]

(* Its fields.                                                             *)
LEMMA MovedFields ==
  ASSUME NEW used, NEW read, NEW write, NEW buffer, NEW b, NEW w, NEW u
  PROVE  Moved(Buf(used, read, write, buffer), b, w, u) = Buf(u, read, w, b)
<1>1. PICK t, m : t = Buf(used, read, write, buffer) /\ m = Moved(t, b, w, u)
  OBVIOUS
<1>2. m = [t EXCEPT !.buffer = b, !.write = w, !.used = u]
  BY <1>1 DEF Moved
<1>3. t = [size |-> Size, used |-> used, read |-> read, write |-> write, buffer |-> buffer]
  BY <1>1 DEF Buf
<1>4. m = [size |-> Size, used |-> u, read |-> read, write |-> w, buffer |-> b]
  BY <1>2, <1>3
<1> QED BY <1>1, <1>4 DEF Buf

(* rb_write_upd, when there is room.                                       *)
After(size, s) == IF s > size THEN s - size ELSE s
Updated(t, w, u) == [t EXCEPT !.write = w, !.used = u]

(* Its cases.                                                              *)
LEMMA UpdCases ==
  ASSUME NEW t, NEW n
  PROVE  rb_write_upd(t, n) =
           LET len == IF rb_free(t) < n THEN rb_free(t) ELSE n
           IN  IF len = 0 THEN t ELSE Updated(t, After(t.size, t.write + len), t.used + len)
  BY DEF rb_write_upd, Updated, After

(* The bytes in use grow by what was read, and the write position moves.   *)
LEMMA UpdMoves ==
  ASSUME NEW used \in 0 .. Size, NEW read, NEW write \in 0 .. Size, NEW buffer,
         NEW n \in 1 .. Size - used
  PROVE  rb_write_upd(Buf(used, read, write, buffer), n) =
           Buf(used + n, read, After(Size, write + n), buffer)
<1>1. PICK t : t = Buf(used, read, write, buffer)
  OBVIOUS
<1>2. t = [size |-> Size, used |-> used, read |-> read, write |-> write, buffer |-> buffer]
  BY <1>1 DEF Buf
<1>3. t.size = Size /\ t.used = used /\ t.write = write
  BY <1>2
<1>4. rb_free(t) = Size - used /\ ~(Size - used < n) /\ n # 0
  BY <1>3, SizeAssumption DEF rb_free
<1>5. rb_write_upd(t, n) = Updated(t, After(Size, write + n), used + n)
  BY <1>3, <1>4, UpdCases
<1>6. PICK m, w, u : w = After(Size, write + n) /\ u = used + n /\ m = Updated(t, w, u)
  OBVIOUS
<1>7. m = [t EXCEPT !.write = w, !.used = u]
  BY <1>6 DEF Updated
<1>8. m = [size |-> Size, used |-> u, read |-> read, write |-> w, buffer |-> buffer]
  BY <1>2, <1>7
<1> QED BY <1>1, <1>5, <1>6, <1>8 DEF Buf

(* What both ways to write have in common.                                 *)
LEMMA Advance ==
  ASSUME NEW r \in Buffer, Placed(r), NEW d \in Seq(Byte), Len(d) \in 1 .. Size - r.used,
         NEW w \in 0 .. Size, w = r.write + Len(d) \/ w + Size = r.write + Len(d),
         NEW s, s = [size |-> Size, used |-> r.used + Len(d), read |-> r.read, write |-> w,
                     buffer |-> Filled(r, d)]
  PROVE  s \in Buffer /\ Placed(s) /\ Contents(s) = Contents(r) \o d
<1>1. /\ Size \in Nat /\ Size > 0
      /\ r.used \in 0 .. Size /\ r.read \in 0 .. Size - 1 /\ r.write \in 0 .. Size
      /\ r.buffer \in [0 .. Size - 1 -> Byte] /\ d \in [1 .. Len(d) -> Byte] /\ Len(d) \in Nat
  BY Fields, LenProperties
<1>2. PICK used \in 0 .. Size, n \in Nat, read \in 0 .. Size - 1, write \in 0 .. Size :
        /\ used = r.used /\ n = Len(d) /\ read = r.read /\ write = r.write
        /\ n \in 1 .. Size - used
        /\ w = write + n \/ w + Size = write + n
        /\ \/ write = read + used
           \/ write + Size = read + used
           \/ write = Size /\ read + used = 0
  <2>1. \/ r.write = r.read + r.used
        \/ r.write + Size = r.read + r.used
        \/ r.write = Size /\ r.read + r.used = 0
    BY DEF Placed
  <2> QED BY <1>1, <2>1, Zenon
<1>3. used + n \in 0 .. Size
  BY <1>1, <1>2
<1>4. Filled(r, d) \in [0 .. Size - 1 -> Byte]
  <2>1. ASSUME NEW o \in 0 .. Size - 1
        PROVE  /\ write <= o /\ o - write < n => o - write + 1 \in 1 .. n
               /\ Size - write + o < n => Size - write + o + 1 \in 1 .. n
    <3>1. o \in Int /\ write \in Int /\ n \in Int /\ Size \in Int /\ 0 <= o /\ write <= Size
      BY <1>1
    <3> QED BY <3>1
  <2>2. \A o \in 0 .. Size - 1 : Filled(r, d)[o] \in Byte
    BY <1>1, <1>2, <2>1 DEF Filled
  <2>3. Filled(r, d) = [o \in 0 .. Size - 1 |-> Filled(r, d)[o]]
    BY DEF Filled
  <2> HIDE DEF Filled
  <2> QED BY <2>2, <2>3
<1> HIDE DEF Filled
<1>5. s \in Buffer
  BY <1>1, <1>2, <1>3, <1>4 DEF Buffer
<1>6. w = read + (used + n) \/ w + Size = read + (used + n)
  <2>1. n \in 1 .. Size - used
    BY <1>2
  <2>2. w = write + n \/ w + Size = write + n
    BY <1>2
  <2>3. \/ write = read + used
        \/ write + Size = read + used
        \/ write = Size /\ read + used = 0
    BY <1>2
  <2> QED BY <2>1, <2>2, <2>3, NextPlace
<1>7. Placed(s)
  BY <1>2, <1>6 DEF Placed
<1>8. Len(d) <= Size - r.used /\ s.read = r.read /\ s.used = r.used + Len(d) /\ s.buffer = Filled(r, d)
  BY <1>1, <1>2
<1>9. Contents(s) = Contents(r) \o d
  BY <1>5, <1>8, FilledAppends
<1> QED BY <1>5, <1>7, <1>9

(* at_read appends what readv gave.                                        *)
LEMMA ReadAppends ==
  ASSUME NEW r \in Buffer, Placed(r), NEW d \in Seq(Byte), rb_write_iov(r) # <<>>,
         Len(d) \in 1 .. IovLen(rb_write_iov(r)),
         NEW s, s = rb_write_upd(readv(r, rb_write_iov(r), d), Len(d))
  PROVE  /\ s \in Buffer /\ Placed(s) /\ Contents(s) = Contents(r) \o d
         /\ Len(d) \in 1 .. Size - r.used
<1>1. /\ Size \in Nat /\ Size > 0 /\ r.size = Size
      /\ r.used \in 0 .. Size /\ r.write \in 0 .. Size
      /\ r = [size |-> Size, used |-> r.used, read |-> r.read, write |-> r.write, buffer |-> r.buffer]
  BY Fields
<1>2. PICK used \in 0 .. Size, write \in 0 .. Size : used = r.used /\ write = r.write
  BY <1>1
<1>3. used < Size
  BY <1>1, <1>2 DEF rb_write_iov, rb_free
<1>4. IovLen(rb_write_iov(r)) = Size - used
  <2>1. rb_write_iov(r) = IF write + (Size - used) > Size
                            THEN <<Extent(write, Size - write), Extent(0, Size - used - (Size - write))>>
                            ELSE <<Extent(write, Size - used)>>
    BY <1>1, <1>2, <1>3 DEF rb_write_iov, rb_free, Span
  <2>2. (Size - write) + (Size - used - (Size - write)) = Size - used
    BY <1>1
  <2> QED BY <2>1, <2>2 DEF IovLen, Extent
<1>5. PICK n \in 1 .. Size - used : n = Len(d)
  BY <1>4
<1> DEFINE w == After(Size, write + n)
<1>6. readv(r, rb_write_iov(r), d) = Buf(used, r.read, write, Filled(r, d))
  <2>1. readv(r, rb_write_iov(r), d) = [r EXCEPT !.buffer = Filled(r, d)]
    BY <1>2, <1>3, <1>5, ReadvFills
  <2> HIDE DEF Filled
  <2> QED BY <1>1, <1>2, <2>1 DEF Buf
<1>7. w \in 0 .. Size /\ (w = write + n \/ w + Size = write + n)
  BY <1>1 DEF After
<1> HIDE DEF Filled, After, Buf
<1>8. s = Buf(used + n, r.read, w, Filled(r, d))
  BY <1>5, <1>6, UpdMoves
<1> HIDE DEF w
<1>9. s \in Buffer /\ Placed(s) /\ Contents(s) = Contents(r) \o d
  BY <1>2, <1>5, <1>7, <1>8, Advance DEF Buf
<1> QED BY <1>2, <1>5, <1>9

(* rb_write_core in terms of the number of bytes that fit.                 *)
CoreAfter(size, s) == IF s > size THEN s - size ELSE IF s = size THEN 0 ELSE s

(* Its cases.                                                              *)
LEMMA CoreCases ==
  ASSUME NEW t, NEW data, NEW method
  PROVE  rb_write_core(t, data, method) =
           LET len == IF rb_free(t) < Len(data) THEN rb_free(t) ELSE Len(data)
           IN  IF len = 0
                 THEN t
                 ELSE Moved(t, Overlaid(t, data, method, len), CoreAfter(t.size, t.write + len),
                            t.used + len)
  BY DEF rb_write_core, Moved, CoreAfter

(* Where byte o of the buffer is in a write of n bytes: before the wrap,   *)
(* after it, or not at all.                                                *)
LEMMA WritePlaces ==
  ASSUME NEW size \in Nat, NEW write \in 0 .. size, NEW n \in Nat, n <= size,
         NEW o \in 0 .. size - 1
  PROVE  /\ write <= o /\ o - write < n =>
              /\ o - write + 1 \in 1 .. n
              /\ IF write + n > size THEN o >= write ELSE write <= o /\ o < write + n
         /\ ~(write <= o /\ o - write < n) /\ size - write + o < n =>
              /\ size - write + o + 1 \in 1 .. n
              /\ write + n > size /\ ~(o >= write) /\ o < write + n - size
         /\ ~(write <= o /\ o - write < n) /\ ~(size - write + o < n) =>
              IF write + n > size THEN ~(o >= write) /\ ~(o < write + n - size)
                                  ELSE ~(write <= o /\ o < write + n)
<1>1. CASE write <= o
  <2>1. ~(size - write + o < n)
    BY <1>1
  <2> QED BY <1>1, <2>1
<1>2. CASE ~(write <= o)
  BY <1>2
<1> QED BY <1>1, <1>2

(* rb_write: the bytes that fit go to the places after the ones in use.    *)
LEMMA OverlaidFills ==
  ASSUME NEW r \in Buffer, NEW d \in Seq(Byte), NEW n \in 1 .. Size - r.used, n <= Len(d)
  PROVE  Overlaid(r, d, memmove(r, d), n) = Filled(r, SubSeq(d, 1, n))
<1>1. /\ Size \in Nat /\ Size > 0 /\ r.size = Size
      /\ r.used \in 0 .. Size /\ r.write \in 0 .. Size
      /\ r.buffer \in [0 .. Size - 1 -> Byte] /\ Len(d) \in Nat /\ DOMAIN d = 1 .. Len(d)
  BY Fields, LenProperties
<1>2. PICK used \in 0 .. Size, write \in 0 .. Size : used = r.used /\ write = r.write
  BY <1>1
<1>3. n \in Nat /\ 1 <= n /\ n <= Size - used /\ n <= Size
  BY <1>1, <1>2
<1>4. PICK e : e = SubSeq(d, 1, n)
  OBVIOUS
<1>5. Len(e) = n /\ \A k \in 1 .. n : e[k] = d[k]
  <2>1. \A k \in 1 .. n : d[k] \in Byte
    BY <1>1, <1>3, ElementOfSeq
  <2>2. 1 \in Int /\ n \in Int
    BY <1>3
  <2>3. /\ Len(SubSeq(d, 1, n)) = IF 1 <= n THEN n - 1 + 1 ELSE 0
        /\ \A i \in 1 .. n - 1 + 1 : SubSeq(d, 1, n)[i] = d[1 + i - 1]
    BY <2>1, <2>2, SubSeqProperties
  <2>4. n - 1 + 1 = n /\ \A i \in 1 .. n : 1 + i - 1 = i
    BY <1>3
  <2> QED BY <1>3, <1>4, <2>3, <2>4
<1>6. \A k \in 1 .. n : k \in DOMAIN d
  BY <1>1, <1>3
<1>11. \A o \in 0 .. Size - 1 : \A k \in 1 .. n : memmove(r, d)[<<r.buffer[o], d[k]>>] = d[k]
  <2> TAKE o \in 0 .. Size - 1
  <2> TAKE k \in 1 .. n
  <2>1. o \in DOMAIN r.buffer /\ k \in DOMAIN d
    BY <1>1, <1>6
  <2>2. <<r.buffer[o], d[k]>> \in Meetings(r, d)
    BY <2>1 DEF Meetings
  <2> QED BY <2>2 DEF memmove
<1> DEFINE new == Overlaid(r, d, memmove(r, d), n)
<1>7. ASSUME NEW o \in 0 .. Size - 1
      PROVE  new[o] = Filled(r, e)[o]
  <2>0. o \in DOMAIN r.buffer /\ o \in Nat /\ o < Size
    BY <1>1
  <2>1. new[o] = IF write + n > Size
                   THEN IF o >= write
                          THEN memmove(r, d)[<<r.buffer[o], d[o - write + 1]>>]
                          ELSE IF o < write + n - Size
                            THEN memmove(r, d)[<<r.buffer[o], d[Size - write + o + 1]>>]
                            ELSE r.buffer[o]
                   ELSE IF write <= o /\ o < write + n
                     THEN memmove(r, d)[<<r.buffer[o], d[o - write + 1]>>]
                     ELSE r.buffer[o]
    BY <1>1, <1>2, <2>0 DEF Overlaid
  <2>2. Filled(r, e)[o] = IF write <= o /\ o - write < n
                            THEN e[o - write + 1]
                            ELSE IF Size - write + o < n THEN e[Size - write + o + 1] ELSE r.buffer[o]
    BY <1>2, <1>5 DEF Filled
  <2> HIDE DEF new
  <2>6. /\ write <= o /\ o - write < n =>
             /\ o - write + 1 \in 1 .. n
             /\ IF write + n > Size THEN o >= write ELSE write <= o /\ o < write + n
        /\ ~(write <= o /\ o - write < n) /\ Size - write + o < n =>
             /\ Size - write + o + 1 \in 1 .. n
             /\ write + n > Size /\ ~(o >= write) /\ o < write + n - Size
        /\ ~(write <= o /\ o - write < n) /\ ~(Size - write + o < n) =>
             IF write + n > Size THEN ~(o >= write) /\ ~(o < write + n - Size)
                                 ELSE ~(write <= o /\ o < write + n)
    BY <1>1, <1>3, WritePlaces
  <2>3. CASE write <= o /\ o - write < n
    <3>1. /\ o - write + 1 \in 1 .. n
          /\ IF write + n > Size THEN o >= write ELSE write <= o /\ o < write + n
      BY <1>3, <2>3, <2>6
    <3>2. new[o] = memmove(r, d)[<<r.buffer[o], d[o - write + 1]>>]
      BY <2>1, <3>1
    <3>3. memmove(r, d)[<<r.buffer[o], d[o - write + 1]>>] = d[o - write + 1]
      BY <1>11, <3>1
    <3> QED BY <1>5, <2>2, <2>3, <3>1, <3>2, <3>3
  <2>4. CASE ~(write <= o /\ o - write < n) /\ Size - write + o < n
    <3>1. /\ Size - write + o + 1 \in 1 .. n
          /\ write + n > Size /\ ~(o >= write) /\ o < write + n - Size
      BY <1>3, <2>4, <2>6
    <3>2. new[o] = memmove(r, d)[<<r.buffer[o], d[Size - write + o + 1]>>]
      BY <2>1, <3>1
    <3>3. memmove(r, d)[<<r.buffer[o], d[Size - write + o + 1]>>] = d[Size - write + o + 1]
      BY <1>11, <3>1
    <3> QED BY <1>5, <2>2, <2>4, <3>1, <3>2, <3>3
  <2>5. CASE ~(write <= o /\ o - write < n) /\ ~(Size - write + o < n)
    <3>1. IF write + n > Size THEN ~(o >= write) /\ ~(o < write + n - Size)
                              ELSE ~(write <= o /\ o < write + n)
      BY <1>3, <2>5, <2>6
    <3> QED BY <2>1, <2>2, <2>5, <3>1
  <2> QED BY <2>3, <2>4, <2>5
<1>8. new = [o \in 0 .. Size - 1 |-> new[o]]
  BY <1>1 DEF Overlaid
<1>9. Filled(r, e) = [o \in 0 .. Size - 1 |-> Filled(r, e)[o]]
  BY DEF Filled
<1> HIDE DEF new, Filled
<1>10. new = Filled(r, e)
  BY <1>7, <1>8, <1>9
<1> QED BY <1>4, <1>10 DEF new

(* The write position after a write.                                       *)
LEMMA CoreAfterPlace ==
  ASSUME NEW used \in 0 .. Size, NEW write \in 0 .. Size, NEW n \in 1 .. Size - used
  PROVE  /\ CoreAfter(Size, write + n) \in 0 .. Size
         /\ \/ CoreAfter(Size, write + n) = write + n
            \/ CoreAfter(Size, write + n) + Size = write + n
<1>1. Size \in Nat /\ Size > 0
  BY SizeAssumption
<1>2. write + n \in 1 .. Size + Size
  BY <1>1
<1> QED BY <1>1, <1>2 DEF CoreAfter

(* The first bytes of a sequence.                                          *)
LEMMA FirstBytes ==
  ASSUME NEW d \in Seq(Byte), NEW n \in Nat, n <= Len(d)
  PROVE  /\ SubSeq(d, 1, n) \in Seq(Byte) /\ Len(SubSeq(d, 1, n)) = n
         /\ SubSeq(d, 1, n) \in [1 .. n -> Byte]
<1>1. \A k \in 1 .. n : d[k] \in Byte
  BY LenProperties, ElementOfSeq
<1>2. /\ SubSeq(d, 1, n) \in Seq(Byte)
      /\ Len(SubSeq(d, 1, n)) = IF 1 <= n THEN n - 1 + 1 ELSE 0
  BY <1>1, SubSeqProperties
<1>3. (IF 1 <= n THEN n - 1 + 1 ELSE 0) = n
  OBVIOUS
<1> QED BY <1>2, <1>3, LenProperties

(* What fits is appended.                                                  *)
LEMMA WriteAppends ==
  ASSUME NEW r \in Buffer, Placed(r), NEW d \in Seq(Byte),
         NEW n \in Nat, n <= Len(d), n <= Size - r.used, n = Len(d) \/ n = Size - r.used,
         NEW s, s = rb_write(r, d)
  PROVE  s \in Buffer /\ Placed(s) /\ Contents(s) = Contents(r) \o SubSeq(d, 1, n)
<1>1. /\ r.size = Size /\ rb_free(r) = Size - r.used /\ r.used \in 0 .. Size
      /\ r.write \in 0 .. Size /\ r.read \in 0 .. Size - 1 /\ r.buffer \in [0 .. Size - 1 -> Byte]
      /\ Len(d) \in Nat
  BY Fields, LenProperties DEF rb_free
<1>2. PICK used \in 0 .. Size, read \in 0 .. Size - 1, write \in 0 .. Size,
           buffer \in [0 .. Size - 1 -> Byte], len \in Nat :
        /\ used = r.used /\ write = r.write /\ read = r.read /\ buffer = r.buffer /\ len = Len(d)
        /\ n <= len /\ n <= Size - used /\ (n = len \/ n = Size - used)
  BY <1>1
<1>3. r = Buf(used, read, write, buffer)
  BY <1>2, Fields DEF Buf
<1>4. Size \in Nat /\ Size > 0
  BY SizeAssumption
<1>5. rb_write(r, d) =
        IF n = 0
          THEN r
          ELSE Moved(r, Overlaid(r, d, memmove(r, d), n), CoreAfter(Size, write + n), used + n)
  <2>1. rb_write(r, d) =
          LET l == IF rb_free(r) < Len(d) THEN rb_free(r) ELSE Len(d)
          IN  IF l = 0
                THEN r
                ELSE Moved(r, Overlaid(r, d, memmove(r, d), l), CoreAfter(r.size, r.write + l),
                           r.used + l)
    BY CoreCases DEF rb_write
  <2>2. (IF Size - used < len THEN Size - used ELSE len) = n
    BY <1>2, <1>4
  <2>3. (IF rb_free(r) < Len(d) THEN rb_free(r) ELSE Len(d)) = n
    BY <1>1, <1>2, <2>2
  <2> QED BY <1>1, <1>2, <2>1, <2>3
<1>6. PICK e : e = SubSeq(d, 1, n)
  OBVIOUS
<1>7. e \in Seq(Byte) /\ Len(e) = n
  BY <1>6, FirstBytes
<1>8. CASE n = 0
  <2>1. e = <<>>
    BY <1>7, <1>8, EmptySeq
  <2>2. Contents(r) \o <<>> = Contents(r)
    BY ContentsSeq, ConcatEmptySeq
  <2>3. s = r
    BY <1>5, <1>8
  <2> QED BY <1>6, <2>1, <2>2, <2>3
<1>9. CASE n # 0
  <2>1. n \in 1 .. Size - used
    BY <1>2, <1>4, <1>9
  <2>2. PICK w \in 0 .. Size : /\ w = CoreAfter(Size, write + n)
                               /\ w = write + n \/ w + Size = write + n
    BY <2>1, CoreAfterPlace
  <2>3. Overlaid(r, d, memmove(r, d), n) = Filled(r, e)
    BY <1>2, <1>6, <2>1, OverlaidFills
  <2>4. s = Moved(Buf(used, read, write, buffer), Filled(r, e), w, used + n)
    BY <1>3, <1>5, <1>9, <2>2, <2>3
  <2>5. s = Buf(used + n, read, w, Filled(r, e))
    BY <2>4, MovedFields
  <2>6. s = [size |-> Size, used |-> r.used + Len(e), read |-> r.read, write |-> w,
             buffer |-> Filled(r, e)]
    BY <1>2, <1>7, <2>5 DEF Buf
  <2>7. Len(e) \in 1 .. Size - r.used /\ (w = r.write + Len(e) \/ w + Size = r.write + Len(e))
    BY <1>2, <1>7, <2>1, <2>2
  <2>8. s \in Buffer /\ Placed(s) /\ Contents(s) = Contents(r) \o e
    BY <1>7, <2>2, <2>6, <2>7, Advance
  <2> QED BY <1>6, <2>8
<1> QED BY <1>8, <1>9

(* rb_read_upd in terms of the number of bytes that are there.             *)
Advanced(t, rd, u) == [t EXCEPT !.used = u, !.read = rd]
ReadAfter(size, s) == IF s >= size THEN s - size ELSE s

(* Its cases.                                                              *)
LEMMA ReadUpdCases ==
  ASSUME NEW t, NEW n
  PROVE  rb_read_upd(t, n) =
           LET len == IF t.used < n THEN t.used ELSE n
           IN  IF len = 0
                 THEN t
                 ELSE IF t.used = len
                   THEN rb_reset(t)
                   ELSE Advanced(t, ReadAfter(t.size, t.read + len), t.used - len)
  BY DEF rb_read_upd, Advanced, ReadAfter

(* An emptied buffer.                                                      *)
LEMMA ResetEmpties ==
  ASSUME NEW r \in Buffer, NEW s, s = rb_reset(r)
  PROVE  s \in Buffer /\ Placed(s) /\ Contents(s) = <<>>
<1>1. /\ Size \in Nat /\ Size > 0 /\ r.buffer \in [0 .. Size - 1 -> Byte]
      /\ r = [size |-> Size, used |-> r.used, read |-> r.read, write |-> r.write, buffer |-> r.buffer]
  BY Fields
<1>2. s = [size |-> Size, used |-> 0, read |-> 0, write |-> 0, buffer |-> r.buffer]
  <2>1. s = [r EXCEPT !.used = 0, !.read = 0, !.write = 0]
    BY DEF rb_reset
  <2>2. PICK used, read, write, buffer :
          /\ r = [size |-> Size, used |-> used, read |-> read, write |-> write, buffer |-> buffer]
          /\ buffer = r.buffer
    BY <1>1
  <2> QED BY <2>1, <2>2
<1>3. s \in Buffer /\ Placed(s) /\ s.used = 0
  BY <1>1, <1>2 DEF Buffer, Placed
<1>4. Contents(s) \in Seq(Byte) /\ Len(Contents(s)) = 0
  BY <1>3, ContentsSeq
<1> QED BY <1>3, <1>4, EmptySeq

(* Reading drops the oldest bytes.                                         *)
LEMMA ReadDrops ==
  ASSUME NEW r \in Buffer, Placed(r), NEW n \in Nat, NEW s, s = rb_read_upd(r, n)
  PROVE  /\ s \in Buffer /\ Placed(s)
         /\ \/ s = r
            \/ \E m \in 1 .. r.used : Contents(s) = SubSeq(Contents(r), m + 1, Len(Contents(r)))
<1>1. /\ Size \in Nat /\ Size > 0 /\ r.size = Size /\ r.used \in 0 .. Size
      /\ r.read \in 0 .. Size - 1 /\ r.write \in 0 .. Size /\ r.buffer \in [0 .. Size - 1 -> Byte]
      /\ r = [size |-> Size, used |-> r.used, read |-> r.read, write |-> r.write, buffer |-> r.buffer]
  BY Fields
<1>2. PICK used \in 0 .. Size, read \in 0 .. Size - 1, write \in 0 .. Size :
        /\ used = r.used /\ read = r.read /\ write = r.write
        /\ \/ write = read + used
           \/ write + Size = read + used
           \/ write = Size /\ read + used = 0
  BY <1>1 DEF Placed
<1>0. Size \in Nat /\ Size > 0
  BY SizeAssumption
<1>3. PICK m \in 0 .. used : m = IF used < n THEN used ELSE n
  <2>1. (IF used < n THEN used ELSE n) \in 0 .. used
    BY <1>1
  <2> QED BY <2>1
<1>4. s = IF m = 0
            THEN r
            ELSE IF used = m THEN rb_reset(r) ELSE Advanced(r, ReadAfter(Size, read + m), used - m)
  BY <1>1, <1>2, <1>3, ReadUpdCases
<1>5. /\ Contents(r) \in Seq(Byte) /\ Len(Contents(r)) = used
      /\ \A i \in 1 .. used : Contents(r)[i] = r.buffer[Wrap(read + i - 1)]
  BY <1>2, ContentsSeq
<1>6. CASE m = 0
  BY <1>4, <1>6
<1>7. CASE m # 0 /\ used = m
  <2>1. s \in Buffer /\ Placed(s) /\ Contents(s) = <<>>
    BY <1>4, <1>7, ResetEmpties
  <2>2. m \in 1 .. r.used /\ m + 1 \in Int /\ used \in Int /\ used < m + 1
    BY <1>1, <1>2, <1>7
  <2>3. SubSeq(Contents(r), m + 1, used) = <<>>
    BY <2>2, SubSeqEmpty
  <2> QED BY <1>5, <2>1, <2>2, <2>3
<1>8. CASE m # 0 /\ used # m
  <2>1. m \in 1 .. used - 1 /\ m \in 1 .. r.used
    BY <1>1, <1>2, <1>8
  <2>2. PICK rd \in 0 .. Size - 1 :
          /\ rd = ReadAfter(Size, read + m)
          /\ rd = read + m \/ rd + Size = read + m
    <3>1. /\ ReadAfter(Size, read + m) \in 0 .. Size - 1
          /\ \/ ReadAfter(Size, read + m) = read + m
             \/ ReadAfter(Size, read + m) + Size = read + m
      BY <1>1, <2>1 DEF ReadAfter
    <3> QED BY <3>1
  <2>3. PICK u \in 0 .. Size : u = used - m
    BY <1>1, <2>1
  <2>4. s = [size |-> Size, used |-> u, read |-> rd, write |-> r.write, buffer |-> r.buffer]
    <3>1. s = Advanced(r, rd, u)
      BY <1>4, <1>8, <2>2, <2>3
    <3>2. s = [r EXCEPT !.used = u, !.read = rd]
      BY <3>1 DEF Advanced
    <3> QED BY <1>1, <3>2
  <2>5. s \in Buffer
    BY <1>1, <2>4 DEF Buffer
  <2>6. write = rd + u \/ write + Size = rd + u
    BY <1>0, <1>2, <2>1, <2>2, <2>3
  <2>7. Placed(s)
    BY <1>2, <2>4, <2>6 DEF Placed
  <2>8. /\ Contents(s) \in Seq(Byte) /\ Len(Contents(s)) = u
        /\ \A i \in 1 .. u : Contents(s)[i] = r.buffer[Wrap(rd + i - 1)]
    <3>1. s.used = u /\ s.read = rd /\ s.buffer = r.buffer
      BY <2>4
    <3> QED BY <2>5, <3>1, ContentsSeq
  <2>9. PICK c : c = SubSeq(Contents(r), m + 1, used)
    OBVIOUS
  <2>10. c \in Seq(Byte) /\ Len(c) = u /\ \A i \in 1 .. u : c[i] = Contents(r)[m + i]
    <3>1. \A i \in m + 1 .. used : Contents(r)[i] \in Byte
      BY <1>1, <1>5, <2>1, ElementOfSeq
    <3>2. m + 1 \in Int /\ used \in Int
      BY <1>1, <2>1
    <3>3. /\ SubSeq(Contents(r), m + 1, used) \in Seq(Byte)
          /\ Len(SubSeq(Contents(r), m + 1, used)) = IF m + 1 <= used THEN used - (m + 1) + 1 ELSE 0
          /\ \A i \in 1 .. used - (m + 1) + 1 :
               SubSeq(Contents(r), m + 1, used)[i] = Contents(r)[m + 1 + i - 1]
      BY <3>1, <3>2, SubSeqProperties
    <3>4. used - (m + 1) + 1 = u /\ m + 1 <= used
      BY <1>1, <2>1, <2>3
    <3>5. \A i \in 1 .. u : m + 1 + i - 1 = m + i
      BY <1>1, <2>1, <2>3
    <3> QED BY <2>9, <3>3, <3>4, <3>5
  <2>11. ASSUME NEW i \in 1 .. u
         PROVE  Wrap(rd + i - 1) = Wrap(read + (m + i) - 1) /\ m + i \in 1 .. used
    <3>1. i \in Nat /\ i <= used - m /\ m \in Nat
      BY <1>0, <2>1, <2>3
    <3>2. m + i \in 1 .. used /\ read + m + i - 1 < Size + Size
      BY <1>0, <2>1, <3>1
    <3> QED BY <1>0, <2>2, <3>1, <3>2 DEF Wrap
  <2>12. \A i \in 1 .. u : Contents(s)[i] = c[i]
    BY <1>5, <2>8, <2>10, <2>11
  <2>13. Contents(s) = c
    BY <2>8, <2>10, <2>12, SeqEqual
  <2> QED BY <1>5, <2>1, <2>5, <2>7, <2>9, <2>13
<1> QED BY <1>6, <1>7, <1>8

-----------------------------------------------------------------------------
(* The steps of the specification.                                         *)

(* Chosen bytes are a sequence.                                            *)
LEMMA DataSeq ==
  ASSUME NEW n \in Nat, NEW d \in [1 .. n -> Byte]
  PROVE  d \in Seq(Byte) /\ Len(d) = n
  BY SeqDef, LenProperties

(* Bytes that fit, put behind the contents, are a step of the queue.       *)
LEMMA PutStep ==
  ASSUME TypeOK, NEW d \in Seq(Byte), Len(d) \in 1 .. Size - rb.used,
         Contents(rb') = Contents(rb) \o d
  PROVE  Fifo!Next
<1>1. Size \in Nat /\ rb.used \in 0 .. Size /\ Len(Contents(rb)) = rb.used
  BY Fields, ContentsSeq DEF TypeOK
<1>2. PICK n \in Nat, used \in Nat : n = Len(d) /\ used = rb.used /\ n \in 1 .. Size - used
  BY <1>1
<1>3. n \in 1 .. Size /\ used + n <= Size
  BY <1>1, <1>2
<1>4. d \in [1 .. n -> Byte]
  BY <1>2, LenProperties
<1>5. Fifo!Put(d)
  BY <1>1, <1>2, <1>3 DEF Fifo!Put
<1> QED BY <1>3, <1>4, <1>5 DEF Fifo!Next

(* As is taking the first bytes away.                                      *)
LEMMA DropStep ==
  ASSUME TypeOK, NEW m \in 1 .. rb.used,
         Contents(rb') = SubSeq(Contents(rb), m + 1, Len(Contents(rb)))
  PROVE  Fifo!Next
<1>1. Len(Contents(rb)) = rb.used
  BY ContentsSeq DEF TypeOK
<1>2. Fifo!Drop(m)
  BY DEF Fifo!Drop
<1> QED BY <1>1, <1>2 DEF Fifo!Next

(* readv into the free extents: the bytes are put.                         *)
LEMMA ReadStep ==
  ASSUME IInv, NEW n \in 1 .. Size, NEW d \in [1 .. n -> Byte], at_read(d)
  PROVE  IInv' /\ Fifo!Next
<1>1. d \in Seq(Byte)
  BY SizeAssumption, DataSeq
<1>2. /\ rb' \in Buffer /\ Placed(rb') /\ Contents(rb') = Contents(rb) \o d
      /\ Len(d) \in 1 .. Size - rb.used
  BY <1>1, ReadAppends DEF IInv, TypeOK, at_read
<1> QED BY <1>1, <1>2, PutStep DEF IInv, TypeOK, Placed, Buffer

(* rb_write: what fits is put, nothing into a full buffer.                 *)
LEMMA WriteStep ==
  ASSUME IInv, NEW n \in 1 .. Size, NEW d \in [1 .. n -> Byte], Write(d)
  PROVE  IInv' /\ (Fifo!Next \/ Contents(rb') = Contents(rb))
<1>1. d \in Seq(Byte) /\ Len(d) = n
  BY SizeAssumption, DataSeq
<1>2. Size \in Nat /\ rb.used \in 0 .. Size
  BY Fields DEF IInv, TypeOK
<1>3. PICK m \in Nat : /\ m <= Len(d) /\ m <= Size - rb.used
                       /\ (m = Len(d) \/ m = Size - rb.used)
  <2>1. CASE n <= Size - rb.used
    BY <1>1, <1>2, <2>1
  <2>2. CASE ~(n <= Size - rb.used)
    BY <1>1, <1>2, <2>2
  <2> QED BY <2>1, <2>2
<1>4. /\ rb' \in Buffer /\ Placed(rb') /\ Contents(rb') = Contents(rb) \o SubSeq(d, 1, m)
  BY <1>1, <1>3, WriteAppends DEF IInv, TypeOK, Write
<1>5. SubSeq(d, 1, m) \in Seq(Byte) /\ Len(SubSeq(d, 1, m)) = m
  BY <1>1, <1>3, FirstBytes
<1>6. CASE m = 0
  <2>1. SubSeq(d, 1, m) = <<>>
    BY <1>5, <1>6, EmptySeq
  <2>2. Contents(rb) \o <<>> = Contents(rb)
    BY ContentsSeq, ConcatEmptySeq DEF IInv, TypeOK
  <2> QED BY <1>4, <2>1, <2>2 DEF IInv, TypeOK
<1>7. CASE m # 0
  <2>1. m \in 1 .. Size - rb.used
    BY <1>2, <1>3, <1>7
  <2>2. Fifo!Next
    BY <1>4, <1>5, <2>1, PutStep DEF IInv
  <2> QED BY <1>4, <2>2 DEF IInv, TypeOK
<1> QED BY <1>6, <1>7

(* rb_read_upd: the oldest bytes are dropped.                              *)
LEMMA TakeStep ==
  ASSUME IInv, NEW n \in 1 .. Size, Take(n)
  PROVE  IInv' /\ (Fifo!Next \/ Contents(rb') = Contents(rb))
<1>1. n \in Nat
  BY SizeAssumption
<1>2. /\ rb' \in Buffer /\ Placed(rb')
      /\ \/ rb' = rb
         \/ \E m \in 1 .. rb.used :
              Contents(rb') = SubSeq(Contents(rb), m + 1, Len(Contents(rb)))
  BY <1>1, ReadDrops DEF IInv, TypeOK, Take
<1>3. IInv'
  BY <1>2 DEF IInv, TypeOK
<1>4. ASSUME NEW m \in 1 .. rb.used,
             Contents(rb') = SubSeq(Contents(rb), m + 1, Len(Contents(rb)))
      PROVE  Fifo!Next
  BY <1>4, DropStep DEF IInv
<1> QED BY <1>2, <1>3, <1>4

(* at_clean_data: all of them are.                                         *)
LEMMA CleanStep ==
  ASSUME IInv, at_clean_data
  PROVE  IInv' /\ (Fifo!Next \/ Contents(rb') = Contents(rb))
<1>1. /\ Size \in Nat /\ rb.used \in 0 .. Size
      /\ Contents(rb) \in Seq(Byte) /\ Len(Contents(rb)) = rb.used
  BY Fields, ContentsSeq DEF IInv, TypeOK
<1>2. rb' \in Buffer /\ Placed(rb') /\ Contents(rb') = <<>>
  BY ResetEmpties DEF IInv, TypeOK, at_clean_data
<1>3. IInv'
  BY <1>2 DEF IInv, TypeOK
<1>4. CASE rb.used = 0
  BY <1>1, <1>2, <1>3, <1>4, EmptySeq
<1>5. CASE rb.used # 0
  <2>1. rb.used \in 1 .. rb.used
    BY <1>1, <1>5
  <2>2. SubSeq(Contents(rb), rb.used + 1, rb.used) = <<>>
    BY <1>1, SubSeqEmpty
  <2>3. Fifo!Next
    BY <1>1, <1>2, <2>1, <2>2, DropStep DEF IInv
  <2> QED BY <1>3, <2>3
<1> QED BY <1>4, <1>5

(* Every step keeps the places and is one of the queue, or none.           *)
LEMMA EveryStep ==
  ASSUME IInv, [Next]_rb
  PROVE  IInv' /\ [Fifo!Next]_(Contents(rb))
<1>1. ASSUME NEW n \in 1 .. Size, NEW d \in [1 .. n -> Byte], at_read(d) \/ Write(d)
      PROVE  IInv' /\ (Fifo!Next \/ Contents(rb') = Contents(rb))
  BY <1>1, ReadStep, WriteStep
<1>2. ASSUME NEW n \in 1 .. Size, Take(n)
      PROVE  IInv' /\ (Fifo!Next \/ Contents(rb') = Contents(rb))
  BY <1>2, TakeStep
<1>3. CASE at_clean_data
  BY <1>3, CleanStep
<1>4. CASE UNCHANGED rb
  BY <1>4 DEF IInv, TypeOK
<1> QED BY <1>1, <1>2, <1>3, <1>4 DEF Next

(* rb_init gives an empty buffer.                                          *)
LEMMA StartsEmpty ==
  ASSUME Init
  PROVE  IInv /\ Contents(rb) = <<>>
<1>1. Size \in Nat /\ Size > 0 /\ (CHOOSE b \in Byte : TRUE) \in Byte
  BY SizeAssumption, ByteAssumption
<1>2. PICK f : f \in Byte /\ rb = rb_init(Size, f)
  BY <1>1 DEF Init
<1>3. rb = [size |-> Size, used |-> 0, read |-> 0, write |-> 0,
            buffer |-> [i \in 0 .. Size - 1 |-> f]]
  BY <1>2 DEF rb_init
<1>4. rb \in Buffer /\ Placed(rb) /\ rb.used = 0
  BY <1>1, <1>2, <1>3 DEF Buffer, Placed
<1>5. Contents(rb) = <<>>
  BY <1>4, ContentsSeq, EmptySeq
<1> QED BY <1>4, <1>5 DEF IInv, TypeOK

(* The positions agree with the number of bytes in use.                    *)
LEMMA PlacedInStep ==
  ASSUME IInv
  PROVE  InStep
<1>1. PICK used \in 0 .. Size, read \in 0 .. Size - 1, write \in 0 .. Size :
        /\ used = rb.used /\ read = rb.read /\ write = rb.write
        /\ \/ write = read + used
           \/ write + Size = read + used
           \/ write = Size /\ read + used = 0
  BY Fields DEF IInv, TypeOK, Placed
<1>2. Size \in Nat /\ Size > 0
  BY SizeAssumption
<1>3. /\ write \in Nat /\ write < Size + Size
      /\ read + used \in Nat /\ read + used < Size + Size
  BY <1>2
<1>4. write % Size = Wrap(write) /\ (read + used) % Size = Wrap(read + used)
  BY <1>3, WrapIsMod
<1>5. Wrap(write) = Wrap(read + used)
  BY <1>1, <1>2 DEF Wrap
<1> QED BY <1>1, <1>4, <1>5 DEF InStep

(* The positions stay in the buffer and in step with the number of bytes   *)
(* in use, through every wrap (ringbuffer.c), whatever the size.           *)
THEOREM PositionsInStep == Spec => [](TypeOK /\ InStep)
<1>1. Init => IInv
  BY StartsEmpty
<1>2. IInv /\ [Next]_rb => IInv'
  BY EveryStep
<1>3. IInv => TypeOK /\ InStep
  BY PlacedInStep DEF IInv
<1> QED BY <1>1, <1>2, <1>3, PTL DEF Spec

(* The ring buffer between the reader of the tty and the parser of lines   *)
(* is a bounded queue: bytes come out in the order they went in, none is   *)
(* lost or read twice, and no byte in use is overwritten.                  *)
THEOREM BufferIsFifo == Spec => ImplementsFifo
<1>1. Init => IInv /\ Fifo!Init
  BY StartsEmpty DEF Fifo!Init
<1>2. IInv /\ [Next]_rb => IInv' /\ [Fifo!Next]_(Contents(rb))
  BY EveryStep
<1> QED BY <1>1, <1>2, PTL DEF Spec, ImplementsFifo, Fifo!Spec

(* rb_write appends all of its data or as much of it as fits, wherever the *)
(* bytes in use lie.                                                       *)
THEOREM WritesAppend == Spec => []AppendsWhatFits
<1>1. Init => IInv
  BY StartsEmpty
<1>2. IInv /\ [Next]_rb => IInv'
  BY EveryStep
<1>3. IInv => AppendsWhatFits
  <2> SUFFICES ASSUME IInv, NEW n \in 1 .. Size, NEW d \in [1 .. n -> Byte]
               PROVE  Contents(rb_write(rb, d)) =
                        Contents(rb) \o SubSeq(d, 1, IF n < rb_free(rb) THEN n ELSE rb_free(rb))
    BY DEF AppendsWhatFits
  <2>1. d \in Seq(Byte) /\ Len(d) = n
    BY SizeAssumption, DataSeq
  <2>2. Size \in Nat /\ rb.used \in 0 .. Size /\ rb_free(rb) = Size - rb.used
    BY Fields DEF IInv, TypeOK, rb_free
  <2>3. PICK m \in Nat : /\ m = IF n < rb_free(rb) THEN n ELSE rb_free(rb)
                         /\ m <= n /\ m <= Size - rb.used /\ (m = n \/ m = Size - rb.used)
    <3>1. CASE n < rb_free(rb)
      BY <2>2, <3>1
    <3>2. CASE ~(n < rb_free(rb))
      BY <2>2, <3>2
    <3> QED BY <3>1, <3>2
  <2>4. Contents(rb_write(rb, d)) = Contents(rb) \o SubSeq(d, 1, m)
    BY <2>1, <2>3, WriteAppends DEF IInv, TypeOK
  <2> QED BY <2>3, <2>4
<1> QED BY <1>1, <1>2, <1>3, PTL DEF Spec
=============================================================================
