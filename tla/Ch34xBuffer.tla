------------------------------ MODULE Ch34xBuffer ------------------------------
(***************************************************************************)
(* The circular buffer of the USB serial driver, ch34x_buf of ch34x.c.     *)
(*                                                                         *)
(* A buffer is a record: buf_buf is the memory, buf_get and buf_put are    *)
(* offsets into it.  One slot stays free, so that equal offsets mean       *)
(* empty.  Nothing here is locked: the callers hold priv->lock.            *)
(***************************************************************************)
EXTENDS Integers, Sequences

CONSTANTS
  BufSize,  \* CH34x_BUF_SIZE
  Bytes     \* what can be written

ASSUME BufferAssumption == BufSize \in Nat \ {0} /\ Bytes # {}

Buffers == [buf_buf : [0..(BufSize - 1) -> Bytes],
            buf_get : 0..(BufSize - 1), buf_put : 0..(BufSize - 1)]

(* kmalloc leaves the memory as it is; both offsets are its beginning.     *)
Allocated == [buf_buf |-> [i \in 0..(BufSize - 1) |-> CHOOSE b \in Bytes : TRUE],
              buf_get |-> 0, buf_put |-> 0]

DataAvail(pb) == (BufSize + pb.buf_put - pb.buf_get) % BufSize

(* Mutant: no slot stays free.                                             *)
SpaceAvailFull(pb) == BufSize - DataAvail(pb)

SpaceAvail(pb) == (BufSize + pb.buf_get - pb.buf_put - 1) % BufSize

(* Where n more bytes end.  A memcpy that reaches the end of the memory    *)
(* goes on, or the next one begins, at its start.                          *)
Advance(p, n) == IF p + n < BufSize THEN p + n ELSE p + n - BufSize

(* What is in the buffer, oldest first.                                    *)
Content(pb) == [i \in 1..DataAvail(pb) |-> pb.buf_buf[Advance(pb.buf_get, i - 1)]]

AtMost(n, limit) == IF n > limit THEN limit ELSE n

(* How many of the bytes of s there is room for, and the buffer with these. *)
PutCount(pb, s) == AtMost(Len(s), SpaceAvail(pb))

BufPut(pb, s) ==
  LET n == PutCount(pb, s)
      Back(i) == IF i >= pb.buf_put THEN i - pb.buf_put ELSE i - pb.buf_put + BufSize
  IN  [pb EXCEPT !.buf_buf = [i \in 0..(BufSize - 1) |->
                                IF Back(i) < n THEN s[Back(i) + 1] ELSE pb.buf_buf[i]],
                 !.buf_put = Advance(@, n)]

(* Up to count bytes, and the buffer without them.                         *)
BufTaken(pb, count) == SubSeq(Content(pb), 1, AtMost(count, DataAvail(pb)))

BufGet(pb, count) ==
  [pb EXCEPT !.buf_get = Advance(@, AtMost(count, DataAvail(pb)))]

BufClear(pb) == [pb EXCEPT !.buf_get = pb.buf_put]
=============================================================================
