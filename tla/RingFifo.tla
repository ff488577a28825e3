------------------------------ MODULE RingFifo ------------------------------
(***************************************************************************)
(* The ring buffer of the monitor thread in use: at_read fills it with     *)
(* what readv gives, lines are taken out of it, at_clean_data empties it.  *)
(* Checked: it is a bounded queue, and the searches find what a search in  *)
(* the contents would find, wherever the contents lie in the buffer.       *)
(***************************************************************************)
EXTENDS RingBuffer, FiniteSets

CONSTANTS
  Byte,       \* characters
  Size        \* 2048

ASSUME ByteAssumption == Byte # {}
ASSUME SizeAssumption == Size \in Nat \ {0}

VARIABLE rb

(* at_read: readv fills some of the extents it is given; an error or a     *)
(* full buffer changes nothing.                                            *)
at_read(data) ==
  /\ rb_write_iov(rb) # <<>>
  /\ Len(data) \in 1 .. IovLen(rb_write_iov(rb))
  /\ rb' = rb_write_upd(readv(rb, rb_write_iov(rb), data), Len(data))

(* rb_write: as much as fits.                                              *)
Write(data) == rb' = rb_write(rb, data)

Take(n) == rb' = rb_read_upd(rb, n)

(* at_clean_data.                                                          *)
at_clean_data == rb' = rb_reset(rb)

Init == rb = rb_init(Size, CHOOSE b \in Byte : TRUE)

Next ==
  \/ \E n \in 1 .. Size : \E data \in [1 .. n -> Byte] : at_read(data) \/ Write(data)
  \/ \E n \in 1 .. Size : Take(n)
  \/ at_clean_data

Spec == Init /\ [][Next]_rb

-----------------------------------------------------------------------------
Buffer == [size : {Size}, used : 0 .. Size, read : 0 .. Size - 1, write : 0 .. Size,
           buffer : [0 .. Size - 1 -> Byte]]

(* The positions lie in the buffer; the write position may be its end.     *)
TypeOK == rb \in Buffer

(* Bytes are written where the ones in use end, through every wrap, every  *)
(* emptying and every full buffer.                                         *)
InStep == rb.write % Size = (rb.read + rb.used) % Size

(* The buffer is a bounded queue of what it contains.                      *)
Fifo == INSTANCE BoundedFifo WITH q <- Contents(rb)
ImplementsFifo == Fifo!Spec

(* What is written is appended, all of it or as much as fits.              *)
AppendsWhatFits ==
  \A n \in 1 .. Size : \A data \in [1 .. n -> Byte] :
    Contents(rb_write(rb, data)) =
      Contents(rb) \o SubSeq(data, 1, IF n < rb_free(rb) THEN n ELSE rb_free(rb))

(* The bytes before a match, found in one piece or in two, are the bytes   *)
(* before the first match in the contents: at_read_result_iov cuts lines   *)
(* there.                                                                  *)
FindsFirst ==
  \A len \in 2 .. 3 : \A mem \in [1 .. len -> Byte] :
    LET iov == rb_read_until_mem_iov(rb, mem)
        pos == memmem(Contents(rb), mem)
    IN  IF pos = NotFound
          THEN iov = <<>>
          ELSE iov # <<>> /\ at_combine_iov(rb, iov) = SubSeq(Contents(rb), 1, pos)

(* A comparison at the read position is one with the contents.             *)
ComparesContents ==
  \A len \in 1 .. 3 : \A mem \in [1 .. len -> Byte] :
    rb_memcmp(rb, mem) = IF rb.used < len THEN -1
                         ELSE IF SubSeq(Contents(rb), 1, len) = mem THEN 0 ELSE 1
=============================================================================
