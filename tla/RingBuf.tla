------------------------------ MODULE RingBuf ------------------------------
(***************************************************************************)
(* The ring buffer of src/ringbuf.c.  The bytes lie in rawbuf from         *)
(* offset_out on, wrapping around at size, up to offset_in.  Equal offsets *)
(* mean an empty buffer to ringbuf_used(); nothing in ringbuf_write()      *)
(* prevents them from meeting when the buffer is full.                     *)
(***************************************************************************)
EXTENDS Integers, Sequences

CONSTANTS Byte,       \* the byte values
          Nul,        \* the byte 0
          Size,       \* the size given to ringbuf_new()
          MaxLen,     \* bound: the longest chunk one call moves
          LeaveGap    \* callers write only what leaves a byte spare

RingBufAssumption ==
  /\ Nul \in Byte
  /\ Size \in Nat \ {0}
  /\ MaxLen \in Nat
  /\ LeaveGap \in BOOLEAN

VARIABLES rawbuf, offset_in, offset_out,  \* struct ringbuf
          io,                             \* what the last write took, peek or read returned
          dead                            \* an assert() or a memcpy() ended the process

vars == <<rawbuf, offset_in, offset_out, io, dead>>

Chunks == UNION {[1..n -> Byte] : n \in 0..MaxLen}

Least(m, n) == IF m <= n THEN m ELSE n

Init ==
  /\ rawbuf = [i \in 0..Size-1 |-> Nul]
  /\ offset_in = 0
  /\ offset_out = 0
  /\ io = <<>>
  /\ dead = FALSE

ringbuf_used ==
  IF offset_in >= offset_out THEN offset_in - offset_out
  ELSE offset_in + (Size - offset_out)

ringbuf_spare == Size - ringbuf_used

-----------------------------------------------------------------------------

Die == dead' = TRUE /\ UNCHANGED <<rawbuf, offset_in, offset_out, io>>

(* A fault for the mutation run: the wrapped part is stored one cell late. *)
StoreLate(s, n) ==
  [i \in 0..Size-1 |->
     IF offset_in <= i /\ i < offset_in + n THEN s[i - offset_in + 1]
     ELSE IF 0 < i /\ i + Size <= offset_in + n THEN s[i + Size - offset_in]
     ELSE rawbuf[i]]

(* The one or two memcpy() calls of ringbuf_write(): n bytes of s from     *)
(* offset_in on, the part that does not fit on the right at the front.     *)
Store(s, n) ==
  [i \in 0..Size-1 |->
     IF offset_in <= i /\ i < offset_in + n THEN s[i - offset_in + 1]
     ELSE IF i + Size < offset_in + n THEN s[i + Size - offset_in + 1]
     ELSE rawbuf[i]]

Advance(offset, len) == (offset + len) % Size

ringbuf_write(s) ==
  LET cpy_cnt == Least(Len(s), ringbuf_spare)
  IN /\ ~dead
     /\ LeaveGap => Len(s) < ringbuf_spare
     /\ IF Len(s) < Size
        THEN /\ rawbuf' = Store(s, cpy_cnt)
             /\ offset_in' = Advance(offset_in, cpy_cnt)
             /\ io' = SubSeq(s, 1, cpy_cnt)
             /\ UNCHANGED <<offset_out, dead>>
        ELSE Die

PeekBytes(n) == [i \in 1..n |-> rawbuf[(offset_out + i - 1) % Size]]

(* ringbuf_peek() of a wrapped buffer always copies the whole part on the  *)
(* right; when less is asked for, the length of the other part wraps below *)
(* zero and the second memcpy() does not survive.                          *)
PeekSurvives(size) ==
  offset_in < offset_out => Least(size, ringbuf_used) >= Size - offset_out

ringbuf_peek(size) ==
  /\ ~dead
  /\ IF PeekSurvives(size)
     THEN /\ io' = PeekBytes(Least(size, ringbuf_used))
          /\ UNCHANGED <<rawbuf, offset_in, offset_out, dead>>
     ELSE Die

(* ringbuf_read(): peek, then ringbuf_read_advance() by what was copied.   *)
ringbuf_read(size) ==
  /\ ~dead
  /\ IF PeekSurvives(size)
     THEN /\ io' = PeekBytes(Least(size, ringbuf_used))
          /\ offset_out' = Advance(offset_out, Least(size, ringbuf_used))
          /\ UNCHANGED <<rawbuf, offset_in, dead>>
     ELSE Die

(* ringbuf_read_advance() by a caller.                                     *)
ringbuf_read_advance(len) ==
  /\ ~dead
  /\ IF ringbuf_used >= len
     THEN /\ offset_out' = Advance(offset_out, len)
          /\ UNCHANGED <<rawbuf, offset_in, io, dead>>
     ELSE Die

Next ==
  \/ \E s \in Chunks : ringbuf_write(s)
  \/ \E n \in 0..MaxLen : ringbuf_peek(n) \/ ringbuf_read(n) \/ ringbuf_read_advance(n)

Spec == Init /\ [][Next]_vars

-----------------------------------------------------------------------------

(* The type of the state; the offsets index rawbuf, so that no memcpy()    *)
(* starts behind it.                                                       *)
TypeOK ==
  /\ rawbuf \in [0..Size-1 -> Byte]
  /\ offset_in \in 0..Size-1
  /\ offset_out \in 0..Size-1
  /\ dead \in BOOLEAN

(* As long as its callers leave a byte spare, the ring buffer is a         *)
(* first-in first-out queue of bytes: wrapping around is invisible.        *)
Queue == INSTANCE ByteQueue WITH q <- PeekBytes(ringbuf_used)

FifoQueue == Queue!Spec

-----------------------------------------------------------------------------
(* Statements the tests make about the code.                               *)

(* What ringbuf_write() took is in the buffer: ringbuf_used() grows by the *)
(* number of bytes it returned.                                            *)
WriteCounted ==
  [][\A s \in Chunks :
       ringbuf_write(s) /\ ~dead'
       => ringbuf_used' = ringbuf_used + Least(Len(s), ringbuf_spare)]_vars

(* A reader may ask for less than the buffer holds.                        *)
ReadsReturn ==
  [][\A n \in 0..MaxLen : ringbuf_read(n) => ~dead']_vars

=============================================================================
