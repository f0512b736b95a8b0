------------------------------- MODULE AtBuf -------------------------------
(***************************************************************************)
(* The linear receive buffer of src/atbuf.c.  The bytes live in            *)
(* rawbuf[offset_out .. offset_in - 1]; atbuf_tidy moves them back to the  *)
(* front when room runs short and stores a NUL behind the last byte, which *)
(* lets the packet parser read the contents as a C string.                 *)
(*                                                                         *)
(* The C functions are operators on the struct atbuf (a record); the       *)
(* actions are the public calls, one whole call each.                      *)
(***************************************************************************)
EXTENDS Integers, Sequences

CONSTANTS Byte,      \* the byte values
          Nul,       \* the byte 0
          Junk,      \* what memory holds that realloc() did not initialise
          InitSize,  \* the size given to atbuf_new()
          MaxSize,   \* bound: calls that would grow the buffer beyond it are not made
          MaxLen     \* bound: the longest chunk one call moves

ASSUME AtBufAssumption ==
  /\ Nul \in Byte
  /\ InitSize \in Nat \ {0}
  /\ MaxSize \in Nat
  /\ MaxLen \in Nat

VARIABLES buf,      \* struct atbuf
          io,       \* the bytes the last write took, or the last read or peek copied out
          aborted   \* an assert() failed and the process is gone

vars == <<buf, io, aborted>>

Cell == Byte \cup {Junk}

Chunks == UNION {[1..n -> Byte] : n \in 0..MaxLen}

Least(m, n) == IF m <= n THEN m ELSE n

-----------------------------------------------------------------------------
(* The functions of atbuf.c.                                               *)

atbuf_new(size) ==
  [rawbuf |-> [i \in 0..size-1 |-> Nul], size |-> size,
   offset_in |-> 0, offset_out |-> 0]

atbuf_used(b) == b.offset_in - b.offset_out

atbuf_spare(b) == b.size - b.offset_in

(* realloc() keeps the cells both sizes share and leaves the others unset. *)
atbuf_realloc(b, len) ==
  [rawbuf |-> [i \in 0..len-1 |-> IF i < b.size THEN b.rawbuf[i] ELSE Junk],
   size |-> len, offset_in |-> b.offset_in, offset_out |-> b.offset_out]

(* A fault for the mutation runs (so are the operators below whose comment *)
(* says "fault"): the offsets move and the bytes stay.                     *)
MoveOffsetsOnly(b) == [b EXCEPT !.offset_in = atbuf_used(b), !.offset_out = 0]

(* memmove(rawbuf, read_pos, used) followed by the two offset assignments. *)
MoveToFront(b) ==
  [b EXCEPT !.rawbuf = [i \in 0..b.size-1 |-> IF i < atbuf_used(b)
                                              THEN b.rawbuf[b.offset_out + i]
                                              ELSE b.rawbuf[i]],
            !.offset_in = atbuf_used(b),
            !.offset_out = 0]

(* Fault: a drained buffer keeps its offsets.                              *)
CompactKeepsOffsets(b) ==
  IF atbuf_used(b) # 0 /\ (atbuf_spare(b) < b.size \div 4 \/ b.offset_out > b.size \div 4)
  THEN MoveToFront(b) ELSE b

Compact(b) ==
  IF atbuf_used(b) = 0 THEN [b EXCEPT !.offset_in = 0, !.offset_out = 0]
  ELSE IF atbuf_spare(b) < b.size \div 4 \/ b.offset_out > b.size \div 4
       THEN MoveToFront(b)
       ELSE b

(* Fault: the terminating NUL is not stored.                               *)
TidyUnterminated(b) == Compact(b)

atbuf_tidy(b) ==
  LET c == Compact(b) IN [c EXCEPT !.rawbuf[c.offset_in] = Nul]

(* Fault: the clamp to offset_in is dropped.                               *)
ReadAdvanceUnclamped(b, len) ==
  atbuf_tidy([b EXCEPT !.offset_out = b.offset_out + len])

atbuf_read_advance(b, len) ==
  atbuf_tidy([b EXCEPT !.offset_out = Least(b.offset_out + len, b.offset_in)])

(* assert(self->offset_in + len < self->size)                              *)
AdvanceAssert(b, len) == b.offset_in + len < b.size

atbuf_write_advance(b, len) == atbuf_tidy([b EXCEPT !.offset_in = b.offset_in + len])

(* The first n bytes at the read position.                                 *)
PeekBytes(b, n) == [i \in 1..n |-> b.rawbuf[b.offset_out + i - 1]]

(* memcpy(write_pos, s, n): n bytes of the chunk s stored at offset_in.    *)
CopyIn(b, s, n) ==
  [b EXCEPT !.rawbuf = [i \in 0..b.size-1 |->
                          IF b.offset_in <= i /\ i < b.offset_in + n
                          THEN s[i - b.offset_in + 1] ELSE b.rawbuf[i]]]

(* The new size atbuf_write() asks for when a chunk does not fit.          *)
GrownSize(b, len) == IF b.size > len THEN 2 * b.size ELSE 2 * len

-----------------------------------------------------------------------------
(* The calls.                                                              *)

Init ==
  /\ buf = atbuf_new(InitSize)
  /\ io = <<>>
  /\ aborted = FALSE

(* Store n bytes of s at the write position of b and move the write        *)
(* position behind them, or die on the assertion.                          *)
StoreAndAdvance(b, s, n) ==
  IF AdvanceAssert(b, n)
  THEN /\ buf' = atbuf_write_advance(CopyIn(b, s, n), n)
       /\ io' = SubSeq(s, 1, n)
       /\ UNCHANGED aborted
  ELSE aborted' = TRUE /\ UNCHANGED <<buf, io>>

(* atbuf_write() of a chunk that fits the spare room.                      *)
WriteFits(s) ==
  /\ ~aborted
  /\ Len(s) <= atbuf_spare(buf)
  /\ StoreAndAdvance(buf, s, Len(s))

(* atbuf_write() of a chunk that does not fit: tidy, then realloc() grows  *)
(* the buffer.                                                             *)
WriteGrows(s) ==
  LET t == atbuf_tidy(buf)
      g == atbuf_realloc(t, GrownSize(t, Len(s)))
  IN /\ ~aborted
     /\ Len(s) > atbuf_spare(buf)
     /\ GrownSize(t, Len(s)) <= MaxSize
     /\ StoreAndAdvance(g, s, Least(Len(s), atbuf_spare(g)))

(* The same with realloc() returning NULL: what fits is stored.            *)
WriteNoMemory(s) ==
  LET t == atbuf_tidy(buf)
  IN /\ ~aborted
     /\ Len(s) > atbuf_spare(buf)
     /\ StoreAndAdvance(t, s, Least(Len(s), atbuf_spare(t)))

(* How the sinks fill the buffer: recv(fd, atbuf_write_pos, atbuf_spare)   *)
(* returns between 1 and spare bytes, atbuf_write_advance counts them.     *)
RecvInto(s) ==
  /\ ~aborted
  /\ Len(s) \in 1..atbuf_spare(buf)
  /\ StoreAndAdvance(buf, s, Len(s))

(* atbuf_peek(): copy out without consuming.                               *)
Peek(len) ==
  /\ ~aborted
  /\ io' = PeekBytes(buf, Least(len, atbuf_used(buf)))
  /\ UNCHANGED <<buf, aborted>>

(* atbuf_read(): peek, then advance by what was copied.                    *)
Read(len) ==
  LET nread == Least(len, atbuf_used(buf))
  IN /\ ~aborted
     /\ io' = PeekBytes(buf, nread)
     /\ buf' = atbuf_read_advance(buf, nread)
     /\ UNCHANGED aborted

(* atbuf_read_advance() as parse_packet() calls it: len may exceed what    *)
(* the buffer holds.                                                       *)
ReadAdvance(len) ==
  /\ ~aborted
  /\ buf' = atbuf_read_advance(buf, len)
  /\ UNCHANGED <<io, aborted>>

(* atbuf_tidy() by a caller.                                               *)
Tidy ==
  /\ ~aborted
  /\ buf' = atbuf_tidy(buf)
  /\ UNCHANGED <<io, aborted>>

(* atbuf_realloc() by a caller, who must keep the stored bytes inside.     *)
Realloc(len) ==
  /\ ~aborted
  /\ len > buf.offset_in
  /\ len <= MaxSize
  /\ buf' = atbuf_realloc(buf, len)
  /\ UNCHANGED <<io, aborted>>

Next ==
  \/ \E s \in Chunks : WriteFits(s) \/ WriteGrows(s) \/ WriteNoMemory(s) \/ RecvInto(s)
  \/ \E len \in 0..MaxLen : Peek(len) \/ Read(len) \/ ReadAdvance(len)
  \/ \E len \in 0..MaxSize : Realloc(len)
  \/ Tidy

Spec == Init /\ [][Next]_vars

-----------------------------------------------------------------------------
(* What the buffer guarantees between two calls.                           *)

(* The type of the state.                                                  *)
TypeOK ==
  /\ buf.size \in Nat
  /\ buf.offset_in \in Nat
  /\ buf.offset_out \in Nat
  /\ buf \in [rawbuf : [0..buf.size-1 -> Cell], size : Nat,
               offset_in : Nat, offset_out : Nat]
  /\ aborted \in BOOLEAN

(* The offsets stay ordered and leave room for one more byte, so every     *)
(* memcpy, memmove and recv of atbuf.c stays inside rawbuf and the store   *)
(* rawbuf[offset_in] = 0 of atbuf_tidy never lands behind it.              *)
OffsetsInside ==
  /\ buf.offset_out <= buf.offset_in
  /\ buf.offset_in < buf.size

(* The stored bytes are followed by a NUL: parse_packet() hands the read   *)
(* position to sscanf, strstr and strlen, which run until they meet one.   *)
Terminated == OffsetsInside /\ buf.rawbuf[buf.offset_in] = Nul

(* A drained buffer has all its room back: no sequence of partial reads    *)
(* and writes leaves offset_in stuck behind consumed bytes.                *)
RoomReclaimed == atbuf_used(buf) = 0 => atbuf_spare(buf) = buf.size

(* Every byte a reader can see was written by a caller; none comes from    *)
(* memory realloc() left uninitialised.                                    *)
ContentsWritten ==
  \A i \in buf.offset_out..buf.offset_in-1 : buf.rawbuf[i] \in Byte

(* The buffer implements a first-in first-out queue of bytes: compaction,  *)
(* growth and failed growth are invisible to its callers.                  *)
Queue == INSTANCE ByteQueue WITH q <- PeekBytes(buf, atbuf_used(buf)), dead <- aborted

FifoQueue == Queue!Spec

(* The assertion of atbuf_write_advance() holds whenever it is evaluated.  *)
NeverAborts == ~aborted

=============================================================================
