-------------------------- MODULE ComponentsProofs --------------------------
(***************************************************************************)
(* The properties of MCComponents, proved.  The module loader and the      *)
(* timers have proofs of their own, which are carried over; the other      *)
(* parts have theirs here.                                                 *)
(*                                                                         *)
(* The receive buffer comes first: it is memory-safe, NUL-terminated and a *)
(* queue for every initial size, every chunk length and every set of byte  *)
(* values.  The argument is one inductive invariant: each C function keeps *)
(* the offsets ordered and inside the allocation, atbuf_tidy() stores the  *)
(* NUL.                                                                    *)
(***************************************************************************)
EXTENDS MCComponents, ListLemmas, TLAPS

-----------------------------------------------------------------------------
(* The receive buffer.                                                     *)

(* A struct atbuf given by its fields.                                     *)
Struct(raw, size, in, od) ==
  [rawbuf |-> raw, size |-> size, offset_in |-> in, offset_out |-> od]

(* The fields have their types, the offsets are ordered and inside the     *)
(* allocation.  While a call is under way the cell at offset_in may hold   *)
(* anything.                                                               *)
SoundFields(raw, size, in, od) ==
  /\ size \in Nat /\ in \in Nat /\ od \in Nat
  /\ raw \in [0..size-1 -> Cell]
  /\ od <= in
  /\ in < size
  /\ \A i \in od..in-1 : raw[i] \in Byte

Sound(b) ==
  /\ b = Struct(b.rawbuf, b.size, b.offset_in, b.offset_out)
  /\ SoundFields(b.rawbuf, b.size, b.offset_in, b.offset_out)

(* The same between two calls.                                             *)
Tidied(b) ==
  /\ Sound(b)
  /\ b.rawbuf[b.offset_in] = Nul
  /\ b.offset_out = b.offset_in => b.offset_in = 0

IInv == Tidied(buf) /\ aborted \in BOOLEAN

(* The inductive invariant gives every invariant the model checker checks. *)
LEMMA IInvImplies ==
  IInv => TypeOK /\ OffsetsInside /\ Terminated /\ RoomReclaimed /\ ContentsWritten
<1> SUFFICES ASSUME IInv
             PROVE  TypeOK /\ OffsetsInside /\ Terminated /\ RoomReclaimed /\ ContentsWritten
  OBVIOUS
<1>1. TypeOK
  BY DEF IInv, Tidied, Sound, SoundFields, Struct, TypeOK
<1>2. OffsetsInside /\ ContentsWritten
  BY DEF IInv, Tidied, Sound, SoundFields, OffsetsInside, ContentsWritten
<1>3. Terminated
  BY <1>2 DEF IInv, Tidied, Terminated
<1>4. RoomReclaimed
  BY DEF IInv, Tidied, Sound, SoundFields, RoomReclaimed, atbuf_used, atbuf_spare
<1> QED BY <1>1, <1>2, <1>3, <1>4

(* Sound fields make a sound struct.                                       *)
LEMMA SoundStruct ==
  ASSUME NEW raw, NEW size, NEW in, NEW od, SoundFields(raw, size, in, od)
  PROVE  Sound(Struct(raw, size, in, od))
  BY DEF Sound, Struct

LEMMA CompactSound ==
  ASSUME NEW b, Sound(b)
  PROVE  /\ Sound(Compact(b))
         /\ Compact(b).offset_out = Compact(b).offset_in => Compact(b).offset_in = 0
<1> DEFINE c == Compact(b)
<1>1. CASE atbuf_used(b) = 0
  <2>1. c = Struct(b.rawbuf, b.size, 0, 0)
    BY <1>1 DEF Compact, Sound, Struct
  <2>2. SoundFields(b.rawbuf, b.size, 0, 0)
    BY DEF Sound, SoundFields
  <2> QED BY <2>1, <2>2, SoundStruct DEF Struct
<1>2. CASE atbuf_used(b) # 0 /\ (atbuf_spare(b) < b.size \div 4 \/ b.offset_out > b.size \div 4)
  <2> DEFINE raw == [i \in 0..b.size-1 |-> IF i < atbuf_used(b)
                                           THEN b.rawbuf[b.offset_out + i] ELSE b.rawbuf[i]]
  <2>1. c = Struct(raw, b.size, atbuf_used(b), 0)
    BY <1>2 DEF Compact, MoveToFront, Sound, Struct
  <2>2. atbuf_used(b) \in Nat /\ atbuf_used(b) < b.size
    BY DEF Sound, SoundFields, atbuf_used
  <2>3. \A i \in 0..b.size-1 : i < atbuf_used(b) => b.offset_out + i \in b.offset_out..b.offset_in-1
    BY DEF Sound, SoundFields, atbuf_used
  <2>4. \A i \in 0..b.size-1 : i < atbuf_used(b) => raw[i] \in Byte
    BY <2>3 DEF Sound, SoundFields
  <2>5. raw \in [0..b.size-1 -> Cell]
    BY <2>3 DEF Sound, SoundFields, Cell
  <2> HIDE DEF raw
  <2>6. SoundFields(raw, b.size, atbuf_used(b), 0)
    BY <2>2, <2>4, <2>5 DEF Sound, SoundFields
  <2>7. Sound(Struct(raw, b.size, atbuf_used(b), 0))
    BY <2>6, SoundStruct
  <2> QED BY <1>2, <2>1, <2>7 DEF Struct
<1>3. CASE atbuf_used(b) # 0 /\ ~(atbuf_spare(b) < b.size \div 4 \/ b.offset_out > b.size \div 4)
  BY <1>3 DEF Compact, Sound, SoundFields, atbuf_used
<1> QED BY <1>1, <1>2, <1>3

(* atbuf_tidy() turns a sound buffer into a tidied one.                    *)
LEMMA TidyTidies ==
  ASSUME NEW b, Sound(b)
  PROVE  Tidied(atbuf_tidy(b))
<1> DEFINE c == Compact(b)
<1>1. Sound(c) /\ (c.offset_out = c.offset_in => c.offset_in = 0)
  BY CompactSound
<1> HIDE DEF c
<1> DEFINE raw == [c.rawbuf EXCEPT ![c.offset_in] = Nul]
<1>2. atbuf_tidy(b) = Struct(raw, c.size, c.offset_in, c.offset_out)
  BY <1>1 DEF atbuf_tidy, c, Sound, Struct
<1>3. SoundFields(raw, c.size, c.offset_in, c.offset_out)
  BY <1>1, AtBufAssumption DEF Sound, SoundFields, Cell
<1>4. raw[c.offset_in] = Nul
  BY <1>1 DEF Sound, SoundFields
<1> HIDE DEF raw
<1> QED BY <1>1, <1>2, <1>3, <1>4, SoundStruct DEF Tidied, Struct

(* The struct behind the memcpy(), before atbuf_tidy() works on it.        *)
Stored(b, s, len) ==
  Struct([i \in 0..b.size-1 |-> IF b.offset_in <= i /\ i < b.offset_in + len
                                THEN s[i - b.offset_in + 1] ELSE b.rawbuf[i]],
         b.size, b.offset_in + len, b.offset_out)

(* memcpy() of n bytes into the spare room followed by the move of the     *)
(* write position: sound when a byte is left over for the NUL.             *)
LEMMA StoreSoundParts ==
  ASSUME NEW b, Sound(b), NEW s, NEW len \in Nat, NEW k \in Nat,
         s \in [1..k -> Byte], len <= k, AdvanceAssert(b, len)
  PROVE  /\ atbuf_write_advance(CopyIn(b, s, len), len) = atbuf_tidy(Stored(b, s, len))
         /\ Sound(Stored(b, s, len))
<1> DEFINE raw == [i \in 0..b.size-1 |-> IF b.offset_in <= i /\ i < b.offset_in + len
                                         THEN s[i - b.offset_in + 1] ELSE b.rawbuf[i]]
<1>1. [CopyIn(b, s, len) EXCEPT !.offset_in = CopyIn(b, s, len).offset_in + len]
        = Struct(raw, b.size, b.offset_in + len, b.offset_out)
  <2>1. \A x : [b EXCEPT !.rawbuf = x] = Struct(x, b.size, b.offset_in, b.offset_out)
    BY DEF Sound, Struct
  <2>2. CopyIn(b, s, len) = [b EXCEPT !.rawbuf = raw]
    BY DEF CopyIn
  <2>3. CopyIn(b, s, len) = Struct(raw, b.size, b.offset_in, b.offset_out)
    BY <2>1, <2>2
  <2> HIDE DEF raw
  <2> QED BY <2>3 DEF Struct
<1>2. /\ b.size \in Nat /\ b.offset_in \in Nat /\ b.offset_out \in Nat
      /\ b.offset_out <= b.offset_in /\ b.offset_in + len < b.size
      /\ b.rawbuf \in [0..b.size-1 -> Cell]
  BY DEF Sound, SoundFields, AdvanceAssert
<1>3. \A i \in 0..b.size-1 : b.offset_in <= i /\ i < b.offset_in + len
                              => i - b.offset_in + 1 \in 1..k
  BY <1>2, SMTT(60)
<1>4. \A i \in 0..b.size-1 : b.offset_in <= i /\ i < b.offset_in + len => raw[i] \in Byte
  BY <1>3
<1>5. \A i \in 0..b.size-1 : i < b.offset_in => raw[i] = b.rawbuf[i]
  BY <1>2
<1>6. raw \in [0..b.size-1 -> Cell]
  BY <1>2, <1>3 DEF Cell
<1> HIDE DEF raw
<1>7. \A i \in b.offset_out..b.offset_in + len - 1 : raw[i] \in Byte
  <2> TAKE i \in b.offset_out..b.offset_in + len - 1
  <2>1. i \in 0..b.size-1
    BY <1>2
  <2>2. CASE i < b.offset_in
    BY <1>2, <1>5, <2>1, <2>2, SMTT(60) DEF Sound, SoundFields
  <2>3. CASE b.offset_in <= i
    BY <1>2, <1>4, <2>1, <2>3
  <2> QED BY <1>2, <2>2, <2>3
<1>8. SoundFields(raw, b.size, b.offset_in + len, b.offset_out)
  BY <1>2, <1>6, <1>7 DEF SoundFields
<1>9. Sound(Struct(raw, b.size, b.offset_in + len, b.offset_out))
  BY <1>8, SoundStruct
<1> QED BY <1>1, <1>9 DEF raw, Stored, atbuf_write_advance

LEMMA StoreSound ==
  ASSUME NEW b, Sound(b), NEW s, NEW len \in Nat, NEW k \in Nat,
         s \in [1..k -> Byte], len <= k, AdvanceAssert(b, len)
  PROVE  Tidied(atbuf_write_advance(CopyIn(b, s, len), len))
  BY StoreSoundParts, TidyTidies

(* realloc() to a size that keeps the stored bytes.                        *)
LEMMA ReallocSound ==
  ASSUME NEW b, Sound(b), NEW len \in Nat, len > b.offset_in
  PROVE  /\ Sound(atbuf_realloc(b, len))
         /\ atbuf_realloc(b, len).size = len
         /\ atbuf_realloc(b, len).offset_in = b.offset_in
         /\ atbuf_realloc(b, len).offset_out = b.offset_out
         /\ atbuf_realloc(b, len).rawbuf[b.offset_in] = b.rawbuf[b.offset_in]
<1> DEFINE raw == [i \in 0..len-1 |-> IF i < b.size THEN b.rawbuf[i] ELSE Junk]
<1>1. atbuf_realloc(b, len) = Struct(raw, len, b.offset_in, b.offset_out)
  BY DEF atbuf_realloc, Struct
<1>2. /\ b.size \in Nat /\ b.offset_in \in Nat /\ b.offset_out \in Nat
      /\ b.offset_out <= b.offset_in /\ b.offset_in < b.size
      /\ b.rawbuf \in [0..b.size-1 -> Cell]
  BY DEF Sound, SoundFields
<1>3. raw \in [0..len-1 -> Cell]
  BY <1>2 DEF Cell
<1>4. \A i \in 0..b.offset_in : raw[i] = b.rawbuf[i]
  BY <1>2
<1> HIDE DEF raw
<1>5. SoundFields(raw, len, b.offset_in, b.offset_out)
  BY <1>2, <1>3, <1>4 DEF Sound, SoundFields
<1>6. Sound(Struct(raw, len, b.offset_in, b.offset_out))
  BY <1>5, SoundStruct
<1> QED BY <1>1, <1>2, <1>4, <1>6 DEF Struct

(* atbuf_read_advance() keeps the buffer tidied, however far it is told to *)
(* advance.                                                                *)
LEMMA ReadAdvanceTidied ==
  ASSUME NEW b, Sound(b), NEW len \in Nat
  PROVE  Tidied(atbuf_read_advance(b, len))
<1> DEFINE od == Least(b.offset_out + len, b.offset_in)
<1>1. [b EXCEPT !.offset_out = od] = Struct(b.rawbuf, b.size, b.offset_in, od)
  BY DEF Sound, Struct
<1>2. SoundFields(b.rawbuf, b.size, b.offset_in, od)
  BY DEF Sound, SoundFields, Least
<1> QED BY <1>1, <1>2, SoundStruct, TidyTidies DEF atbuf_read_advance

(* Every chunk a call is handed is a sequence of bytes.                    *)
LEMMA ChunkType ==
  ASSUME NEW s \in Chunks
  PROVE  Len(s) \in Nat /\ s \in [1..Len(s) -> Byte]
<1>1. PICK len \in 0..MaxLen : s \in [1..len -> Byte]
  BY DEF Chunks
<1>2. len \in Nat
  BY <1>1, AtBufAssumption
<1>3. s \in Seq(Byte) /\ Len(s) = len
  BY <1>1, <1>2
<1> QED BY <1>1, <1>2, <1>3

(* The common end of atbuf_write() and of a sink's recv().                 *)
LEMMA StoreAndAdvanceKeeps ==
  ASSUME IInv, NEW b, Sound(b), NEW s \in Chunks, NEW len \in Nat, len <= Len(s),
         StoreAndAdvance(b, s, len)
  PROVE  IInv'
<1>1. Len(s) \in Nat /\ s \in [1..Len(s) -> Byte]
  BY ChunkType
<1>2. CASE AdvanceAssert(b, len)
  BY <1>1, <1>2, StoreSound DEF StoreAndAdvance, IInv
<1>3. CASE ~AdvanceAssert(b, len)
  BY <1>3 DEF StoreAndAdvance, IInv
<1> QED BY <1>2, <1>3

LEMMA InitIInv == Init => IInv
<1> SUFFICES ASSUME Init PROVE IInv
  OBVIOUS
<1> DEFINE raw == [i \in 0..InitSize-1 |-> Nul]
<1>1. buf = Struct(raw, InitSize, 0, 0)
  BY DEF Init, atbuf_new, Struct
<1>2. SoundFields(raw, InitSize, 0, 0) /\ raw[0] = Nul
  BY AtBufAssumption DEF SoundFields, Cell
<1> HIDE DEF raw
<1>3. Tidied(buf)
  <2>1. Sound(buf)
    BY <1>1, <1>2, SoundStruct
  <2> QED BY <1>1, <1>2, <2>1 DEF Tidied, Struct
<1> QED BY <1>3 DEF Init, IInv

LEMMA NextIInv == IInv /\ [Next]_vars => IInv'
<1> SUFFICES ASSUME IInv, [Next]_vars PROVE IInv'
  OBVIOUS
<1>0. Sound(buf) /\ Tidied(buf)
  BY DEF IInv, Tidied
<1>1. /\ buf.size \in Nat /\ buf.offset_in \in Nat /\ buf.offset_out \in Nat
      /\ buf.offset_out <= buf.offset_in /\ buf.offset_in < buf.size
  BY <1>0 DEF Sound, SoundFields
<1>2. ASSUME NEW s \in Chunks, WriteFits(s) PROVE IInv'
  BY <1>0, <1>2, ChunkType, StoreAndAdvanceKeeps DEF WriteFits
<1>3. ASSUME NEW s \in Chunks, RecvInto(s) PROVE IInv'
  BY <1>0, <1>3, ChunkType, StoreAndAdvanceKeeps DEF RecvInto
<1> DEFINE t == atbuf_tidy(buf)
<1>4. Tidied(t) /\ Sound(t)
  BY <1>0, TidyTidies DEF Tidied
<1> HIDE DEF t
<1>5. t.size \in Nat /\ t.offset_in \in Nat /\ t.offset_in < t.size
  BY <1>4 DEF Sound, SoundFields
<1>6. ASSUME NEW s \in Chunks, WriteGrows(s) PROVE IInv'
  <2> DEFINE len == GrownSize(t, Len(s))
             g == atbuf_realloc(t, len)
  <2>1. Len(s) \in Nat
    BY ChunkType
  <2>2. len \in Nat /\ len > t.offset_in
    BY <1>5, <2>1 DEF GrownSize
  <2> HIDE DEF len
  <2>3. Sound(g)
    BY <1>4, <2>2, ReallocSound
  <2>4. atbuf_spare(g) \in Nat
    BY <2>3 DEF Sound, SoundFields, atbuf_spare
  <2>5. StoreAndAdvance(g, s, Least(Len(s), atbuf_spare(g)))
    BY <1>6 DEF WriteGrows, len, t
  <2> HIDE DEF g
  <2>6. Least(Len(s), atbuf_spare(g)) \in Nat /\ Least(Len(s), atbuf_spare(g)) <= Len(s)
    BY <2>1, <2>4 DEF Least
  <2> QED BY <2>3, <2>5, <2>6, StoreAndAdvanceKeeps
<1>7. ASSUME NEW s \in Chunks, WriteNoMemory(s) PROVE IInv'
  <2>1. Len(s) \in Nat
    BY ChunkType
  <2>2. Least(Len(s), atbuf_spare(t)) \in Nat /\ Least(Len(s), atbuf_spare(t)) <= Len(s)
    BY <1>5, <2>1 DEF Least, atbuf_spare
  <2>3. StoreAndAdvance(t, s, Least(Len(s), atbuf_spare(t)))
    BY <1>7 DEF WriteNoMemory, t
  <2> QED BY <1>4, <2>2, <2>3, StoreAndAdvanceKeeps
<1>8. ASSUME NEW len \in 0..MaxLen, Peek(len) PROVE IInv'
  BY <1>8 DEF Peek, IInv
<1>9. ASSUME NEW len \in 0..MaxLen, Read(len) PROVE IInv'
  <2>1. Least(len, atbuf_used(buf)) \in Nat
    BY <1>1, AtBufAssumption DEF Least, atbuf_used
  <2> QED BY <1>0, <1>9, <2>1, ReadAdvanceTidied DEF Read, IInv
<1>10. ASSUME NEW len \in 0..MaxLen, ReadAdvance(len) PROVE IInv'
  <2>1. len \in Nat
    BY AtBufAssumption
  <2> QED BY <1>0, <1>10, <2>1, ReadAdvanceTidied DEF ReadAdvance, IInv
<1>11. ASSUME NEW len \in 0..MaxSize, Realloc(len) PROVE IInv'
  <2>1. len \in Nat /\ len > buf.offset_in
    BY <1>11, AtBufAssumption DEF Realloc
  <2> QED BY <1>0, <1>11, <2>1, ReallocSound DEF Realloc, IInv, Tidied
<1>12. CASE Tidy
  BY <1>4, <1>12 DEF Tidy, IInv, t
<1>13. CASE UNCHANGED vars
  BY <1>13 DEF vars, IInv
<1> QED BY <1>2, <1>3, <1>6, <1>7, <1>8, <1>9, <1>10, <1>11, <1>12, <1>13 DEF Next

(* Every reachable struct atbuf is well typed.                             *)
THEOREM BufferTypeCorrect == Spec => []TypeOK
<1>1. Init => IInv
  BY InitIInv
<1>2. IInv /\ [Next]_vars => IInv'
  BY NextIInv
<1>3. IInv => TypeOK
  BY IInvImplies
<1> QED BY <1>1, <1>2, <1>3, PTL DEF Spec

(* No call ever touches memory outside the allocation, the parser always   *)
(* finds a NUL behind the bytes it is shown, and it never sees memory      *)
(* realloc() left uninitialised.                                           *)
THEOREM MemorySafe == Spec => [](OffsetsInside /\ Terminated /\ ContentsWritten)
<1>1. Init => IInv
  BY InitIInv
<1>2. IInv /\ [Next]_vars => IInv'
  BY NextIInv
<1>3. IInv => OffsetsInside /\ Terminated /\ ContentsWritten
  BY IInvImplies
<1> QED BY <1>1, <1>2, <1>3, PTL DEF Spec

(* A drained buffer has all its room back.                                 *)
THEOREM DrainedIsEmpty == Spec => []RoomReclaimed
<1>1. Init => IInv
  BY InitIInv
<1>2. IInv /\ [Next]_vars => IInv'
  BY NextIInv
<1>3. IInv => RoomReclaimed
  BY IInvImplies
<1> QED BY <1>1, <1>2, <1>3, PTL DEF Spec

-----------------------------------------------------------------------------
(* The buffer is a queue: what each function does to the bytes it holds.   *)

Held(b) == PeekBytes(b, atbuf_used(b))

LEMMA HeldParts ==
  ASSUME NEW b, Sound(b)
  PROVE  /\ atbuf_used(b) \in Nat /\ Held(b) \in Seq(Byte) /\ Len(Held(b)) = atbuf_used(b)
         /\ \A i \in 1..atbuf_used(b) : Held(b)[i] = b.rawbuf[b.offset_out + (i - 1)]
<1>1. /\ b.offset_in \in Nat /\ b.offset_out \in Nat /\ b.offset_out <= b.offset_in
      /\ \A i \in b.offset_out..b.offset_in-1 : b.rawbuf[i] \in Byte
  BY DEF Sound, SoundFields
<1>2. atbuf_used(b) \in Nat /\ atbuf_used(b) = b.offset_in - b.offset_out
  BY <1>1 DEF atbuf_used
<1>3. \A i \in 1..atbuf_used(b) : b.offset_out + (i - 1) \in b.offset_out..b.offset_in-1
  BY <1>1, <1>2
<1>4. Held(b) = [i \in 1..atbuf_used(b) |-> b.rawbuf[b.offset_out + (i - 1)]]
  BY DEF Held, PeekBytes
<1> QED BY <1>1, <1>2, <1>3, <1>4

(* Buffers hold the same when the same bytes lie at their read positions.  *)
LEMMA SameHeld ==
  ASSUME NEW b, NEW c, Sound(b), Sound(c), atbuf_used(c) = atbuf_used(b),
         \A i \in 0..atbuf_used(b)-1 : c.rawbuf[c.offset_out + i] = b.rawbuf[b.offset_out + i]
  PROVE  Held(c) = Held(b)
<1>1. /\ atbuf_used(b) \in Nat /\ Held(b) \in Seq(Byte) /\ Len(Held(b)) = atbuf_used(b)
      /\ \A i \in 1..atbuf_used(b) : Held(b)[i] = b.rawbuf[b.offset_out + (i - 1)]
  BY HeldParts
<1>2. /\ Held(c) \in Seq(Byte) /\ Len(Held(c)) = atbuf_used(b)
      /\ \A i \in 1..atbuf_used(b) : Held(c)[i] = c.rawbuf[c.offset_out + (i - 1)]
  BY HeldParts
<1>3. ASSUME NEW i \in 1..atbuf_used(b) PROVE Held(c)[i] = Held(b)[i]
  <2>1. i - 1 \in 0..atbuf_used(b)-1
    BY <1>1
  <2> QED BY <1>1, <1>2, <2>1
<1> QED BY <1>1, <1>2, <1>3

LEMMA CompactHolds ==
  ASSUME NEW b, Sound(b)
  PROVE  Held(Compact(b)) = Held(b)
<1> DEFINE c == Compact(b)
<1>1. Sound(c)
  BY CompactSound
<1>2. /\ b.size \in Nat /\ b.offset_in \in Nat /\ b.offset_out \in Nat
      /\ b.offset_out <= b.offset_in /\ b.offset_in < b.size
      /\ b.rawbuf \in [0..b.size-1 -> Cell]
  BY DEF Sound, SoundFields
<1>3. atbuf_used(b) \in Nat /\ atbuf_used(b) <= b.offset_in
      /\ atbuf_used(b) = b.offset_in - b.offset_out
  BY <1>2 DEF atbuf_used
<1>4. CASE atbuf_used(b) = 0
  <2>1. c = Struct(b.rawbuf, b.size, 0, 0)
    BY <1>4 DEF Compact, Sound, Struct
  <2>2. atbuf_used(c) = 0
    BY <2>1 DEF Struct, atbuf_used
  <2> HIDE DEF c
  <2> QED BY <1>1, <1>4, <2>2, SameHeld DEF c
<1>5. CASE atbuf_used(b) # 0 /\ (atbuf_spare(b) < b.size \div 4 \/ b.offset_out > b.size \div 4)
  <2> DEFINE raw == [i \in 0..b.size-1 |-> IF i < atbuf_used(b)
                                           THEN b.rawbuf[b.offset_out + i] ELSE b.rawbuf[i]]
  <2>1. c = Struct(raw, b.size, atbuf_used(b), 0)
    BY <1>5 DEF Compact, MoveToFront, Sound, Struct
  <2>2. \A i \in 0..atbuf_used(b)-1 : raw[i] = b.rawbuf[b.offset_out + i]
    BY <1>2, <1>3
  <2> HIDE DEF raw
  <2>3. /\ c.rawbuf = raw /\ c.offset_out = 0 /\ atbuf_used(c) = atbuf_used(b)
    BY <1>3, <2>1 DEF Struct, atbuf_used
  <2> HIDE DEF c
  <2>4. \A i \in 0..atbuf_used(b)-1 : c.rawbuf[c.offset_out + i] = b.rawbuf[b.offset_out + i]
    BY <1>3, <2>2, <2>3
  <2> QED BY <1>1, <2>3, <2>4, SameHeld DEF c
<1>6. CASE atbuf_used(b) # 0 /\ ~(atbuf_spare(b) < b.size \div 4 \/ b.offset_out > b.size \div 4)
  BY <1>6 DEF Compact
<1> QED BY <1>4, <1>5, <1>6

LEMMA TidyHolds ==
  ASSUME NEW b, Sound(b)
  PROVE  Held(atbuf_tidy(b)) = Held(b)
<1> DEFINE c == Compact(b)
           t == atbuf_tidy(b)
<1>1. Sound(c) /\ Held(c) = Held(b) /\ Sound(t)
  BY CompactSound, CompactHolds, TidyTidies DEF Tidied
<1> DEFINE raw == [c.rawbuf EXCEPT ![c.offset_in] = Nul]
<1> HIDE DEF c
<1>2. t = Struct(raw, c.size, c.offset_in, c.offset_out)
  BY <1>1 DEF atbuf_tidy, c, Sound, Struct
<1>3. /\ c.offset_in \in Nat /\ c.offset_out \in Nat /\ c.offset_out <= c.offset_in
      /\ c.size \in Nat /\ c.offset_in < c.size
      /\ c.rawbuf \in [0..c.size-1 -> Cell]
  BY <1>1 DEF Sound, SoundFields
<1>4. \A i \in 0..c.size-1 : i # c.offset_in => raw[i] = c.rawbuf[i]
  BY <1>3
<1> HIDE DEF raw
<1>5. t.rawbuf = raw /\ t.offset_out = c.offset_out /\ atbuf_used(t) = atbuf_used(c)
  BY <1>2 DEF Struct, atbuf_used
<1> HIDE DEF t
<1>6. \A i \in 0..atbuf_used(c)-1 : t.rawbuf[t.offset_out + i] = c.rawbuf[c.offset_out + i]
  <2> TAKE i \in 0..atbuf_used(c)-1
  <2>1. c.offset_out + i \in 0..c.size-1 /\ c.offset_out + i # c.offset_in
    BY <1>3 DEF atbuf_used
  <2> QED BY <1>4, <1>5, <2>1
<1>7. Held(t) = Held(c)
  BY <1>1, <1>5, <1>6, SameHeld
<1> QED BY <1>1, <1>7 DEF t

LEMMA ReallocHolds ==
  ASSUME NEW b, Sound(b), NEW len \in Nat, len > b.offset_in
  PROVE  Held(atbuf_realloc(b, len)) = Held(b)
<1> DEFINE r == atbuf_realloc(b, len)
<1>1. Sound(r) /\ r.offset_in = b.offset_in /\ r.offset_out = b.offset_out
  BY ReallocSound
<1>2. /\ b.size \in Nat /\ b.offset_in \in Nat /\ b.offset_out \in Nat
      /\ b.offset_out <= b.offset_in /\ b.offset_in < b.size
  BY DEF Sound, SoundFields
<1>3. \A i \in 0..len-1 : i < b.size => r.rawbuf[i] = b.rawbuf[i]
  BY DEF atbuf_realloc
<1> HIDE DEF r
<1>4. atbuf_used(r) = atbuf_used(b)
  BY <1>1 DEF atbuf_used
<1>5. \A i \in 0..atbuf_used(b)-1 : r.rawbuf[r.offset_out + i] = b.rawbuf[b.offset_out + i]
  <2> TAKE i \in 0..atbuf_used(b)-1
  <2>1. b.offset_out + i \in 0..len-1 /\ b.offset_out + i < b.size
    BY <1>2 DEF atbuf_used
  <2> QED BY <1>1, <1>3, <2>1
<1>6. Held(r) = Held(b)
  BY <1>1, <1>4, <1>5, SameHeld
<1> QED BY <1>6 DEF r

(* Bytes copied behind the write position join the end of the queue.       *)
LEMMA StoreHolds ==
  ASSUME NEW b, Sound(b), NEW s, NEW len \in Nat, NEW k \in Nat,
         s \in [1..k -> Byte], len <= k, AdvanceAssert(b, len)
  PROVE  Held(atbuf_write_advance(CopyIn(b, s, len), len)) = Held(b) \o SubSeq(s, 1, len)
<1> DEFINE raw == [i \in 0..b.size-1 |-> IF b.offset_in <= i /\ i < b.offset_in + len
                                         THEN s[i - b.offset_in + 1] ELSE b.rawbuf[i]]
           w == Struct(raw, b.size, b.offset_in + len, b.offset_out)
           u == atbuf_used(b)
           tail == SubSeq(s, 1, len)
<1>1. Sound(w) /\ atbuf_write_advance(CopyIn(b, s, len), len) = atbuf_tidy(w)
  BY StoreSoundParts DEF Stored
<1>2. /\ b.size \in Nat /\ b.offset_in \in Nat /\ b.offset_out \in Nat
      /\ b.offset_out <= b.offset_in /\ b.offset_in + len < b.size
  BY DEF Sound, SoundFields, AdvanceAssert
<1>3. u \in Nat /\ u = b.offset_in - b.offset_out
  BY <1>2 DEF atbuf_used
<1>4. \A i \in 0..b.size-1 : i < b.offset_in => raw[i] = b.rawbuf[i]
  BY <1>2
<1>5. \A i \in 0..b.size-1 : b.offset_in <= i /\ i < b.offset_in + len
                              => raw[i] = s[i - b.offset_in + 1]
  BY <1>2
<1> HIDE DEF raw
<1>6. w.rawbuf = raw /\ w.offset_out = b.offset_out /\ atbuf_used(w) = u + len
  BY <1>2, <1>3 DEF Struct, atbuf_used
<1> HIDE DEF w, u
<1>7. s \in Seq(Byte) /\ Len(s) = k
  OBVIOUS
<1>8. tail \in Seq(Byte) /\ Len(tail) = len /\ \A i \in 1..len : tail[i] = s[i]
  BY <1>7
<1> HIDE DEF tail
<1>9. /\ Held(b) \in Seq(Byte) /\ Len(Held(b)) = u
      /\ \A i \in 1..u : Held(b)[i] = b.rawbuf[b.offset_out + (i - 1)]
  BY HeldParts DEF u
<1>10. /\ Held(w) \in Seq(Byte) /\ Len(Held(w)) = u + len
       /\ \A i \in 1..(u + len) : Held(w)[i] = raw[b.offset_out + (i - 1)]
  BY <1>1, <1>6, HeldParts
<1> DEFINE joined == Held(b) \o tail
<1>11. /\ joined \in Seq(Byte) /\ Len(joined) = u + len
       /\ \A i \in 1..u : joined[i] = Held(b)[i]
       /\ \A i \in (u + 1)..(u + len) : joined[i] = tail[i - u]
  <2>1. joined \in Seq(Byte) /\ Len(joined) = u + len
    <3>1. Held(b) \in Seq(Byte) /\ Len(Held(b)) = u
      BY <1>9
    <3>2. tail \in Seq(Byte) /\ Len(tail) = len
      BY <1>8
    <3> QED BY <3>1, <3>2
  <2>2. \A i \in 1..(u + len) : joined[i] = IF i <= u THEN Held(b)[i] ELSE tail[i - u]
    BY <1>3, <1>8, <1>9
  <2> HIDE DEF joined
  <2>3. /\ \A i \in 1..u : i \in 1..(u + len) /\ i <= u
        /\ \A i \in (u + 1)..(u + len) : i \in 1..(u + len) /\ ~(i <= u)
    BY <1>3
  <2>4. \A i \in 1..u : joined[i] = Held(b)[i]
    BY <2>2, <2>3
  <2>5. \A i \in (u + 1)..(u + len) : joined[i] = tail[i - u]
    BY <2>2, <2>3
  <2> QED BY <2>1, <2>4, <2>5
<1> HIDE DEF joined
<1>12. ASSUME NEW i \in 1..(u + len) PROVE Held(w)[i] = joined[i]
  <2>1. CASE i <= u
    <3>1. i \in 1..u /\ i \in Nat
      BY <1>3, <2>1
    <3>2. b.offset_out + (i - 1) < b.offset_in /\ b.offset_out + (i - 1) \in Nat
      BY <1>2, <1>3, <3>1
    <3>3. b.offset_out + (i - 1) \in 0..b.size-1
      BY <1>2, <3>2
    <3> QED BY <1>4, <1>9, <1>10, <1>11, <3>1, <3>2, <3>3
  <2>2. CASE i > u
    <3> DEFINE j == b.offset_out + (i - 1)
    <3>1. /\ i \in (u + 1)..(u + len) /\ j \in 0..b.size-1 /\ i - u \in 1..len
          /\ b.offset_in <= j /\ j < b.offset_in + len /\ j - b.offset_in + 1 = i - u
      <4>1. i \in Nat /\ i > u /\ i <= u + len
        BY <1>3, <2>2
      <4>2. b.offset_out \in Nat /\ b.offset_in \in Nat /\ u \in Nat /\ len \in Nat /\ b.size \in Nat
        BY <1>2, <1>3
      <4>3. u = b.offset_in - b.offset_out
        BY <1>3
      <4>4. b.offset_in + len < b.size
        BY <1>2
      <4>5. i \in (u + 1)..(u + len)
        BY <4>1, <4>2, <4>3, <4>4
      <4>6. i - u \in 1..len
        BY <4>1, <4>2, <4>3, <4>4, SMTT(60)
      <4>7. b.offset_in <= j
        BY <4>1, <4>2, <4>3, <4>4
      <4>8. j < b.offset_in + len
        BY <4>1, <4>2, <4>3, <4>4
      <4>9. j - b.offset_in + 1 = i - u
        BY <4>1, <4>2, <4>3, <4>4, SMTT(60)
      <4>10. j \in Int
        BY <4>1, <4>2
      <4> HIDE DEF j
      <4>11. j \in 0..b.size-1
        BY <4>2, <4>4, <4>7, <4>8, <4>10
      <4> QED BY <4>5, <4>6, <4>7, <4>8, <4>9, <4>11
    <3> HIDE DEF j
    <3>2. raw[j] = s[i - u]
      BY <1>5, <3>1
    <3>3. Held(w)[i] = raw[j]
      BY <1>10 DEF j
    <3>4. joined[i] = tail[i - u] /\ tail[i - u] = s[i - u]
      BY <1>8, <1>11, <3>1
    <3> QED BY <3>2, <3>3, <3>4
  <2> QED BY <1>3, <2>1, <2>2
<1>13. Held(w) = joined
  BY <1>3, <1>10, <1>11, <1>12
<1> QED BY <1>1, <1>13, TidyHolds DEF joined, tail

(* What a read or a peek copies out is the front of the queue.             *)
LEMMA PeekFront ==
  ASSUME NEW b, Sound(b), NEW len \in 0..atbuf_used(b)
  PROVE  PeekBytes(b, len) = SubSeq(Held(b), 1, len)
<1>1. /\ atbuf_used(b) \in Nat /\ Held(b) \in Seq(Byte) /\ Len(Held(b)) = atbuf_used(b)
      /\ \A i \in 1..atbuf_used(b) : Held(b)[i] = b.rawbuf[b.offset_out + (i - 1)]
  BY HeldParts
<1> DEFINE front == SubSeq(Held(b), 1, len)
           copied == PeekBytes(b, len)
<1>2. front \in Seq(Byte) /\ Len(front) = len /\ \A i \in 1..len : front[i] = Held(b)[i]
  BY <1>1
<1>3. copied = [i \in 1..len |-> b.rawbuf[b.offset_out + (i - 1)]]
  BY DEF PeekBytes
<1>4. \A i \in 1..len : i \in 1..atbuf_used(b) /\ b.rawbuf[b.offset_out + (i - 1)] \in Byte
  <2> TAKE i \in 1..len
  <2>1. i \in 1..atbuf_used(b)
    BY <1>1
  <2>2. Held(b)[i] \in Byte
    BY <1>1, <2>1
  <2> QED BY <1>1, <2>1, <2>2
<1>5. len \in Nat
  BY <1>1
<1>6. copied \in Seq(Byte) /\ Len(copied) = len
      /\ \A i \in 1..len : copied[i] = b.rawbuf[b.offset_out + (i - 1)]
  BY <1>3, <1>4, <1>5, SMTT(60)
<1> HIDE DEF front, copied
<1>7. \A i \in 1..len : copied[i] = front[i]
  BY <1>1, <1>2, <1>4, <1>6
<1>8. copied = front
  BY <1>2, <1>5, <1>6, <1>7
<1> QED BY <1>8 DEF copied, front

(* atbuf_read_advance() drops the front of the queue, at most all of it.   *)
LEMMA ReadAdvanceHolds ==
  ASSUME NEW b, Sound(b), NEW len \in Nat
  PROVE  Held(atbuf_read_advance(b, len))
           = SubSeq(Held(b), Least(len, atbuf_used(b)) + 1, Len(Held(b)))
<1> DEFINE od == Least(b.offset_out + len, b.offset_in)
           c == Struct(b.rawbuf, b.size, b.offset_in, od)
           u == atbuf_used(b)
           m == Least(len, u)
<1>1. [b EXCEPT !.offset_out = od] = c
  BY DEF Sound, Struct
<1>2. SoundFields(b.rawbuf, b.size, b.offset_in, od)
  BY DEF Sound, SoundFields, Least
<1>3. Sound(c)
  BY <1>2, SoundStruct
<1>4. b.offset_in \in Nat /\ b.offset_out \in Nat /\ b.offset_out <= b.offset_in
  BY DEF Sound, SoundFields
<1>5. u \in Nat /\ u = b.offset_in - b.offset_out
  BY <1>4 DEF atbuf_used
<1>6. m \in 0..u /\ od = b.offset_out + m
  BY <1>4, <1>5 DEF Least
<1>7. c.rawbuf = b.rawbuf /\ c.offset_out = od /\ atbuf_used(c) = b.offset_in - od
  BY DEF Struct, atbuf_used
<1>8. Held(atbuf_read_advance(b, len)) = Held(c)
  BY <1>1, <1>3, TidyHolds DEF atbuf_read_advance
<1> HIDE DEF od, m
<1> HIDE DEF c
<1>9. atbuf_used(c) = u - m
  BY <1>4, <1>5, <1>6, <1>7
<1>10. /\ Held(b) \in Seq(Byte) /\ Len(Held(b)) = u
       /\ \A i \in 1..u : Held(b)[i] = b.rawbuf[b.offset_out + (i - 1)]
  BY HeldParts
<1>11. /\ Held(c) \in Seq(Byte) /\ Len(Held(c)) = u - m
       /\ \A i \in 1..(u - m) : Held(c)[i] = b.rawbuf[od + (i - 1)]
  BY <1>3, <1>7, <1>9, HeldParts
<1> HIDE DEF u
<1> DEFINE rest == SubSeq(Held(b), m + 1, Len(Held(b)))
<1>12. /\ rest \in Seq(Byte) /\ Len(rest) = u - m
       /\ \A i \in 1..(u - m) : rest[i] = Held(b)[i + m]
  BY <1>5, <1>6, <1>10
<1> HIDE DEF rest
<1>13. ASSUME NEW i \in 1..(u - m) PROVE Held(c)[i] = rest[i]
  <2>1. i + m \in 1..u /\ b.offset_out + ((i + m) - 1) = od + (i - 1)
    BY <1>4, <1>5, <1>6
  <2> QED BY <1>10, <1>11, <1>12, <2>1
<1>14. u - m \in Nat
  BY <1>5, <1>6
<1>15. Held(c) = rest
  BY <1>11, <1>12, <1>13, <1>14
<1> QED BY <1>8, <1>15 DEF rest, m, u

(* The chunk stored is one a caller of the queue may put.                  *)
LEMMA FrontChunk ==
  ASSUME NEW s \in Chunks, NEW len \in Nat, len <= Len(s)
  PROVE  SubSeq(s, 1, len) \in Chunks
<1>1. PICK k \in 0..MaxLen : s \in [1..k -> Byte]
  BY DEF Chunks
<1>2. k \in Nat /\ k <= MaxLen
  BY <1>1, AtBufAssumption
<1>3. s \in Seq(Byte) /\ Len(s) = k
  BY <1>1, <1>2
<1> DEFINE t == SubSeq(s, 1, len)
<1>4. t \in Seq(Byte) /\ Len(t) = len
  BY <1>2, <1>3
<1> HIDE DEF t
<1>5. t \in [1..len -> Byte]
  BY <1>4
<1>6. len \in 0..MaxLen
  BY <1>2, <1>3, AtBufAssumption
<1>7. t \in Chunks
  BY <1>5, <1>6 DEF Chunks
<1> QED BY <1>7 DEF t

(* Storing a chunk puts it into the queue, or the assertion ends it all.   *)
LEMMA StorePuts ==
  ASSUME Sound(buf), ~aborted, NEW b, Sound(b), Held(b) = Held(buf), NEW s \in Chunks,
         NEW len \in Nat, len <= Len(s), StoreAndAdvance(b, s, len)
  PROVE  Queue!Next
<1>1. Len(s) \in Nat /\ s \in [1..Len(s) -> Byte]
  BY ChunkType
<1>2. CASE AdvanceAssert(b, len)
  <2>1. /\ buf' = atbuf_write_advance(CopyIn(b, s, len), len)
        /\ io' = SubSeq(s, 1, len) /\ aborted' = aborted
    BY <1>2 DEF StoreAndAdvance
  <2>2. Held(buf') = Held(buf) \o SubSeq(s, 1, len)
    BY <1>1, <1>2, <2>1, StoreHolds
  <2>3. SubSeq(s, 1, len) \in Queue!Chunks
    BY FrontChunk DEF Chunks, Queue!Chunks
  <2>4. Queue!Put(SubSeq(s, 1, len))
    BY <2>1, <2>2 DEF Queue!Put, Held
  <2> QED BY <2>3, <2>4 DEF Queue!Next
<1>3. CASE ~AdvanceAssert(b, len)
  BY <1>3 DEF StoreAndAdvance, Queue!Next, Queue!Die
<1> QED BY <1>2, <1>3

(* Every call of the buffer is a step of the queue or leaves it as it is.  *)
LEMMA NextIsQueue == IInv /\ [Next]_vars => [Queue!Next]_Queue!vars
<1> SUFFICES ASSUME IInv, [Next]_vars PROVE [Queue!Next]_Queue!vars
  OBVIOUS
<1>0. Sound(buf) /\ Tidied(buf)
  BY DEF IInv, Tidied
<1>1. /\ buf.size \in Nat /\ buf.offset_in \in Nat /\ buf.offset_out \in Nat
      /\ buf.offset_out <= buf.offset_in /\ buf.offset_in < buf.size
  BY <1>0 DEF Sound, SoundFields
<1>2. atbuf_used(buf) \in Nat /\ Len(Held(buf)) = atbuf_used(buf)
  BY <1>0, HeldParts
<1>3. \A len \in Nat : Least(len, atbuf_used(buf)) \in 0..Len(Held(buf))
  BY <1>2 DEF Least
<1>4. ASSUME NEW s \in Chunks, WriteFits(s) PROVE Queue!Next
  BY <1>0, <1>4, ChunkType, StorePuts DEF WriteFits
<1>5. ASSUME NEW s \in Chunks, RecvInto(s) PROVE Queue!Next
  BY <1>0, <1>5, ChunkType, StorePuts DEF RecvInto
<1> DEFINE t == atbuf_tidy(buf)
<1>6. Sound(t) /\ Held(t) = Held(buf)
  BY <1>0, TidyTidies, TidyHolds DEF Tidied
<1> HIDE DEF t
<1>7. t.size \in Nat /\ t.offset_in \in Nat /\ t.offset_in < t.size
  BY <1>6 DEF Sound, SoundFields
<1>8. ASSUME NEW s \in Chunks, WriteGrows(s) PROVE Queue!Next
  <2> DEFINE len == GrownSize(t, Len(s))
             g == atbuf_realloc(t, len)
  <2>1. Len(s) \in Nat
    BY ChunkType
  <2>2. len \in Nat /\ len > t.offset_in
    BY <1>7, <2>1 DEF GrownSize
  <2> HIDE DEF len
  <2>3. Sound(g) /\ Held(g) = Held(buf)
    BY <1>6, <2>2, ReallocSound, ReallocHolds
  <2>4. atbuf_spare(g) \in Nat
    BY <2>3 DEF Sound, SoundFields, atbuf_spare
  <2>5. StoreAndAdvance(g, s, Least(Len(s), atbuf_spare(g))) /\ ~aborted
    BY <1>8 DEF WriteGrows, len, t
  <2> HIDE DEF g
  <2>6. Least(Len(s), atbuf_spare(g)) \in Nat /\ Least(Len(s), atbuf_spare(g)) <= Len(s)
    BY <2>1, <2>4 DEF Least
  <2> QED BY <1>0, <2>3, <2>5, <2>6, StorePuts
<1>9. ASSUME NEW s \in Chunks, WriteNoMemory(s) PROVE Queue!Next
  <2>1. Len(s) \in Nat
    BY ChunkType
  <2>2. Least(Len(s), atbuf_spare(t)) \in Nat /\ Least(Len(s), atbuf_spare(t)) <= Len(s)
    BY <1>7, <2>1 DEF Least, atbuf_spare
  <2>3. StoreAndAdvance(t, s, Least(Len(s), atbuf_spare(t))) /\ ~aborted
    BY <1>9 DEF WriteNoMemory, t
  <2> QED BY <1>0, <1>6, <2>2, <2>3, StorePuts
<1>10. ASSUME NEW len \in 0..MaxLen, Peek(len) PROVE Queue!Next
  <2> DEFINE m == Least(len, atbuf_used(buf))
  <2>1. m \in 0..Len(Held(buf))
    BY <1>3, AtBufAssumption
  <2>2. PeekBytes(buf, m) = SubSeq(Held(buf), 1, m)
    BY <1>0, <1>2, <2>1, PeekFront
  <2>3. Queue!Look(m)
    BY <1>10, <2>2 DEF Peek, Queue!Look, Held
  <2> HIDE DEF m
  <2> QED BY <2>1, <2>3 DEF Queue!Next, Held
<1>11. ASSUME NEW len \in 0..MaxLen, Read(len) PROVE Queue!Next
  <2> DEFINE m == Least(len, atbuf_used(buf))
  <2>1. m \in 0..Len(Held(buf))
    BY <1>3, AtBufAssumption
  <2>2. PeekBytes(buf, m) = SubSeq(Held(buf), 1, m)
    BY <1>0, <1>2, <2>1, PeekFront
  <2>3. io' = PeekBytes(buf, m) /\ buf' = atbuf_read_advance(buf, m) /\ ~aborted /\ aborted' = aborted
    BY <1>11 DEF Read
  <2> HIDE DEF m
  <2>4. m \in Nat /\ Least(m, atbuf_used(buf)) = m
    BY <1>2, <2>1 DEF Least
  <2>5. Held(buf') = SubSeq(Held(buf), m + 1, Len(Held(buf)))
    BY <1>0, <2>3, <2>4, ReadAdvanceHolds
  <2>6. Queue!Take(m)
    BY <2>2, <2>3, <2>5 DEF Queue!Take, Queue!Rest, Held
  <2> QED BY <2>1, <2>6 DEF Queue!Next, Held
<1>12. ASSUME NEW len \in 0..MaxLen, ReadAdvance(len) PROVE Queue!Next
  <2> DEFINE m == Least(len, atbuf_used(buf))
  <2>1. m \in 0..Len(Held(buf)) /\ len \in Nat
    BY <1>3, AtBufAssumption
  <2>2. Held(buf') = SubSeq(Held(buf), m + 1, Len(Held(buf)))
    BY <1>0, <1>12, <2>1, ReadAdvanceHolds DEF ReadAdvance
  <2> HIDE DEF m
  <2>3. Queue!Skip(m)
    BY <1>12, <2>2 DEF ReadAdvance, Queue!Skip, Queue!Rest, Held
  <2> QED BY <2>1, <2>3 DEF Queue!Next, Held
<1>13. ASSUME NEW len \in 0..MaxSize, Realloc(len) PROVE UNCHANGED Queue!vars
  <2>1. len \in Nat /\ len > buf.offset_in
    BY <1>13, AtBufAssumption DEF Realloc
  <2>2. Held(buf') = Held(buf)
    BY <1>0, <1>13, <2>1, ReallocHolds DEF Realloc
  <2> QED BY <1>13, <2>2 DEF Realloc, Queue!vars, Held
<1>14. CASE Tidy
  <2>1. Held(buf') = Held(buf)
    BY <1>6, <1>14 DEF Tidy, t
  <2> QED BY <1>14, <2>1 DEF Tidy, Queue!vars, Held
<1>15. CASE UNCHANGED vars
  BY <1>15 DEF vars, Queue!vars
<1> QED BY <1>4, <1>5, <1>8, <1>9, <1>10, <1>11, <1>12, <1>13, <1>14, <1>15 DEF Next

(* The buffer implements a first-in first-out queue of bytes: whatever the *)
(* order of atbuf_write(), recv(), atbuf_read(), atbuf_peek(), growth,     *)
(* failed growth and compaction, a reader gets the bytes written, each     *)
(* once and in order.                                                      *)
THEOREM BufferIsQueue == Spec => FifoQueue
<1>1. Init => IInv
  BY InitIInv
<1>2. IInv /\ [Next]_vars => IInv'
  BY NextIInv
<1>3. Init => Queue!Init
  <2> SUFFICES ASSUME Init PROVE Queue!Init
    OBVIOUS
  <2>1. buf = atbuf_new(InitSize) /\ atbuf_used(buf) = 0
    BY DEF Init, atbuf_new, atbuf_used
  <2>2. PeekBytes(buf, 0) = <<>>
    BY DEF PeekBytes
  <2> QED BY <2>1, <2>2 DEF Init, Queue!Init
<1>4. IInv /\ [Next]_vars => [Queue!Next]_Queue!vars
  BY NextIsQueue
<1> QED BY <1>1, <1>2, <1>3, <1>4, PTL DEF Spec, FifoQueue, Queue!Spec

-----------------------------------------------------------------------------
(* A behaviour of the whole is one of each part.                           *)

LEMMA LoaderPart == SpecAll => Loader!Spec
<1>1. InitAll => Loader!Init
  BY DEF InitAll
<1>2. [NextAll]_all => [Loader!Next]_(Loader!vars)
  BY DEF NextAll, all, loader, Loader!vars
<1> QED BY <1>1, <1>2, PTL DEF SpecAll, Loader!Spec

LEMMA TimerPart == SpecAll => TimerLoop!Spec
<1>1. InitAll => TimerLoop!Init
  BY DEF InitAll
<1>2. [NextAll]_all => [TimerLoop!Next]_(TimerLoop!vars)
  BY DEF NextAll, all, timing, TimerLoop!vars, TimerLoop!walk
<1> QED BY <1>1, <1>2, PTL DEF SpecAll, TimerLoop!Spec

(* No library is loaded twice, and a file is open exactly while a module   *)
(* of its path is listed, however load_module() and unload_module() nest.  *)
THEOREM LibrariesOpenedOnce == SpecAll => []LoaderOpenOnce
<1>1. Loader!Spec => []Loader!OpenOnce
  BY PartsAssumption, Loader!OpenedOnce
<1> QED BY <1>1, LoaderPart, PTL DEF LoaderOpenOnce

(* The process survives what init and exit functions do to the list of     *)
(* modules, and only modules that were started have their exit function    *)
(* called, unless a function unloads a module whose function is running or *)
(* the one that unload_all_modules() unloads next.                         *)
THEOREM ModulesCalledInOrder == SpecAll => []LoaderOrderly
<1>1. Loader!Spec => []Loader!OrderlyUnlessMisused
  BY PartsAssumption, Loader!OrderlyCalls
<1> QED BY <1>1, LoaderPart, PTL DEF LoaderOrderly

(* When load_modules_from_dir() returns 0 a module answers to the name of  *)
(* every file, unless it was unloaded or renamed during the call.          *)
THEOREM WholeDirectoryLoaded == SpecAll => LoaderDirLoaded
<1>1. Loader!Spec => Loader!DirLoaded
  BY PartsAssumption, Loader!DirectoryLoaded
<1> QED BY <1>1, LoaderPart, PTL DEF LoaderDirLoaded

(* When unload_all_modules() returns, no module is left that was in the    *)
(* list when it was called.                                                *)
THEOREM NoModuleLeft == SpecAll => LoaderAllUnloaded
<1>1. Loader!Spec => Loader!AllUnloaded
  BY PartsAssumption, Loader!EverythingUnloaded
<1> QED BY <1>1, LoaderPart, PTL DEF LoaderAllUnloaded

(* timer_loop() survives what handlers do to the list of timers, but for   *)
(* three misuses.                                                          *)
THEOREM TimerWalkSurvives == SpecAll => []TimerDiesOnlyMisused
<1>1. TimerLoop!Spec => []TimerLoop!DiesOnlyMisused
  BY PartsAssumption, TimerLoop!WalkSurvives
<1> QED BY <1>1, TimerPart, PTL DEF TimerDiesOnlyMisused

(* timer_loop() calls no handler before its time, except within the second *)
(* it is due in, when timer_start() stored a tv_usec of a second or more.  *)
THEOREM TimersNotEarly == SpecAll => TimerNotEarly
<1>1. TimerLoop!Spec => TimerLoop!NotEarly
  BY PartsAssumption, TimerLoop!FiresNotEarly
<1> QED BY <1>1, TimerPart, PTL DEF TimerNotEarly

(* However late timer_loop() comes, a repeating timer keeps its rhythm and *)
(* is not put into the past again.                                         *)
THEOREM TimersKeepRhythm == SpecAll => TimerKeepsRhythm
<1>1. TimerLoop!Spec => TimerLoop!KeepsRhythm
  BY PartsAssumption, TimerLoop!RhythmKept
<1> QED BY <1>1, TimerPart, PTL DEF TimerKeepsRhythm

(* Who sleeps for as long as timer_loop() says wakes up in time, or less   *)
(* than a millisecond late, for every timer no handler touched meanwhile.  *)
THEOREM SleepersWakeInTime == SpecAll => TimerNoOversleep
<1>1. TimerLoop!Spec => TimerLoop!NoOversleep
  BY PartsAssumption, TimerLoop!SleepNotTooLong
<1> QED BY <1>1, TimerPart, PTL DEF TimerNoOversleep

-----------------------------------------------------------------------------
(* The serial line.                                                        *)

LEMMA LinePart == SpecAll => Line!Spec
<1>1. InitAll => Line!Init
  BY DEF InitAll
<1>2. [NextAll]_all => [Line!Next]_(Line!vars)
  BY DEF NextAll, all, line, Line!vars
<1> QED BY <1>1, <1>2, PTL DEF SpecAll, Line!Spec

(* What tcsetattr() is given says what serial_ioctl() was asked for.       *)
LEMMA LineSet ==
  ASSUME NEW sp \in Line!Params, Line!serial_ioctl(sp)
  PROVE  Line!SetAsAsked'
<1> USE DEF Line!CS7, Line!CS8, Line!CSIZE, Line!CSTOPB, Line!CREAD, Line!PARENB, Line!PARODD,
            Line!CLOCAL, Line!INPCK, Line!ISTRIP
<1>1. /\ Line!Valid(sp) /\ speed' = sp.baud /\ asked' = sp
      /\ cflag' = Line!CLOCAL \cup Line!CREAD \cup Line!SizeFlags(sp.bits)
                  \cup Line!ParityFlags(sp.parity) \cup Line!StopFlags(sp.stop)
  BY DEF Line!serial_ioctl
<1>2. /\ sp = [baud |-> sp.baud, bits |-> sp.bits, parity |-> sp.parity, stop |-> sp.stop]
      /\ sp.bits \in {7, 8} /\ sp.parity \in {"O", "E", "N"} /\ sp.stop \in {1, 2}
  BY <1>1 DEF Line!Params, Line!Valid
<1> DEFINE size == Line!SizeFlags(sp.bits)
           parity == Line!ParityFlags(sp.parity)
           stop == Line!StopFlags(sp.stop)
<1>3. size = IF sp.bits = 7 THEN {5} ELSE {4, 5}
  BY <1>2 DEF Line!SizeFlags
<1>4. parity = IF sp.parity = "N" THEN {} ELSE IF sp.parity = "O" THEN {4, 5, 8, 9} ELSE {4, 5, 8}
  BY <1>2 DEF Line!ParityFlags
<1>5. stop = IF sp.stop = 2 THEN {6} ELSE {}
  BY <1>2 DEF Line!StopFlags
<1>6. cflag' = {11, 7} \cup size \cup parity \cup stop
  BY <1>1
<1> HIDE DEF size, parity, stop
<1>7. cflag' \cap {4, 5} = IF sp.bits = 7 /\ sp.parity = "N" THEN {5} ELSE {4, 5}
  BY <1>2, <1>3, <1>4, <1>5, <1>6
<1>8. /\ cflag' \cap {8} = {} <=> sp.parity = "N"
      /\ sp.parity # "N" => (cflag' \cap {9} = {} <=> sp.parity = "E")
  BY <1>2, <1>3, <1>4, <1>5, <1>6
<1>9. cflag' \cap {6} = {} <=> sp.stop = 1
  BY <1>2, <1>3, <1>4, <1>5, <1>6
<1>10. Line!Line' = [baud |-> sp.baud,
                     bits |-> IF sp.bits = 7 /\ sp.parity = "N" THEN 7 ELSE 8,
                     parity |-> sp.parity, stop |-> sp.stop]
  BY <1>1, <1>2, <1>7, <1>8, <1>9 DEF Line!Line
<1> QED BY <1>1, <1>2, <1>10 DEF Line!SetAsAsked

(* A serial line is set as serial_ioctl() was last asked to, whatever was  *)
(* set before, except that seven bits with parity come out as eight.       *)
THEOREM LineAlwaysAsAsked == SpecAll => []LineSetAsAsked
<1>1. Line!Init => Line!SetAsAsked
  BY DEF Line!Init, Line!SetAsAsked, Line!Valid
<1>2. Line!SetAsAsked /\ [Line!Next]_(Line!vars) => Line!SetAsAsked'
  <2> SUFFICES ASSUME Line!SetAsAsked, [Line!Next]_(Line!vars) PROVE Line!SetAsAsked'
    OBVIOUS
  <2>1. CASE Line!Next
    BY <2>1, LineSet DEF Line!Next
  <2>2. CASE UNCHANGED Line!vars
    BY <2>2 DEF Line!vars, Line!SetAsAsked, Line!Line
  <2> QED BY <2>1, <2>2
<1>3. Line!Spec => []Line!SetAsAsked
  BY <1>1, <1>2, PTL DEF Line!Spec
<1> QED BY <1>3, LinePart, PTL DEF LineSetAsAsked

-----------------------------------------------------------------------------
(* The service hub.                                                        *)

LEMMA HubPart == SpecAll => Hub!Spec
<1>1. InitAll => Hub!Init
  BY DEF InitAll
<1>2. [NextAll]_all => [Hub!Next]_(Hub!vars)
  BY DEF NextAll, all, hub, Hub!vars
<1> QED BY <1>1, <1>2, PTL DEF SpecAll, Hub!Spec

LEMMA PrefixIs ==
  ASSUME NEW a \in Seq(Nat), NEW b \in Seq(Nat)
  PROVE  Hub!IsPrefix(a, b) <=> Len(a) <= Len(b) /\ \A i \in 1..Len(a) : a[i] = b[i]
<1>1. SubSeq(a, 1, Len(a)) = a
  OBVIOUS
<1>2. ASSUME Len(a) <= Len(b)
      PROVE  a = SubSeq(b, 1, Len(a)) <=> \A i \in 1..Len(a) : a[i] = b[i]
  <2>1. /\ SubSeq(b, 1, Len(a)) \in Seq(Nat) /\ Len(SubSeq(b, 1, Len(a))) = Len(a)
        /\ \A i \in 1..Len(a) : SubSeq(b, 1, Len(a))[i] = b[i]
    BY <1>2
  <2> DEFINE s == SubSeq(b, 1, Len(a))
  <2> HIDE DEF s
  <2> QED BY <2>1 DEF s
<1> QED BY <1>1, <1>2 DEF Hub!IsPrefix

LEMMA StoredParts ==
  ASSUME NEW a \in Seq(Nat)
  PROVE  Hub!Stored(a) \in Seq(Nat) /\ Hub!IsPrefix(Hub!Stored(a), a)
<1>1. HeaderLen \in Nat
  BY PartsAssumption DEF Hub!HubAssumption
<1> DEFINE l == IF Len(a) <= HeaderLen THEN Len(a) ELSE HeaderLen
<1>2. l \in Nat /\ l <= Len(a)
  BY <1>1
<1>3. Hub!Stored(a) = SubSeq(a, 1, l)
  BY DEF Hub!Stored
<1> HIDE DEF l
<1>4. /\ SubSeq(a, 1, l) \in Seq(Nat) /\ Len(SubSeq(a, 1, l)) = l
      /\ \A i \in 1..l : SubSeq(a, 1, l)[i] = a[i]
  BY <1>2
<1>5. /\ Hub!Stored(a) \in Seq(Nat) /\ Len(Hub!Stored(a)) <= Len(a)
      /\ \A i \in 1..Len(Hub!Stored(a)) : Hub!Stored(a)[i] = a[i]
  BY <1>2, <1>3, <1>4
<1> QED BY <1>5, PrefixIs

(* The shorter of two prefixes of one header is a prefix of the other.     *)
LEMMA Shorter ==
  ASSUME NEW x \in Seq(Nat), NEW y \in Seq(Nat), NEW b \in Seq(Nat), NEW h \in Seq(Nat),
         Len(x) <= Len(y), Hub!IsPrefix(x, h), Hub!IsPrefix(y, h), Hub!IsPrefix(y, b)
  PROVE  Hub!IsPrefix(x, b)
<1>1. Len(x) \in Nat /\ Len(y) \in Nat /\ Len(b) \in Nat
  OBVIOUS
<1>2. /\ \A i \in 1..Len(x) : x[i] = h[i]
      /\ \A i \in 1..Len(y) : y[i] = h[i]
      /\ \A i \in 1..Len(y) : y[i] = b[i]
      /\ Len(y) <= Len(b)
  BY PrefixIs
<1>3. ASSUME NEW i \in 1..Len(x) PROVE x[i] = b[i]
  <2>1. i \in 1..Len(y)
    BY <1>1
  <2>2. x[i] = h[i] /\ y[i] = h[i] /\ y[i] = b[i]
    BY <1>2, <2>1
  <2> QED BY <2>2
<1>4. Len(x) <= Len(b)
  BY <1>1, <1>2
<1> QED BY <1>3, <1>4, PrefixIs

(* Two names the hub can tell apart do not both serve one header.          *)
LEMMA SameName ==
  ASSUME NEW a \in Seq(Nat), NEW b \in Seq(Nat), NEW h \in Seq(Nat), ~Hub!Confused(a, b),
         Hub!IsPrefix(Hub!Stored(a), h), Hub!IsPrefix(Hub!Stored(b), h)
  PROVE  a = b
<1>1. /\ Hub!Stored(a) \in Seq(Nat) /\ Hub!IsPrefix(Hub!Stored(a), a)
      /\ Hub!Stored(b) \in Seq(Nat) /\ Hub!IsPrefix(Hub!Stored(b), b)
  BY StoredParts
<1>2. Len(Hub!Stored(a)) <= Len(Hub!Stored(b)) => Hub!IsPrefix(Hub!Stored(a), b)
  BY <1>1, Shorter
<1>3. Len(Hub!Stored(b)) <= Len(Hub!Stored(a)) => Hub!IsPrefix(Hub!Stored(b), a)
  BY <1>1, Shorter
<1>4. Len(Hub!Stored(a)) \in Nat /\ Len(Hub!Stored(b)) \in Nat
  BY <1>1
<1> QED BY <1>2, <1>3, <1>4 DEF Hub!Confused

(* What the hub holds when its callers registered m.                       *)
Entries == [name : MCNames, func : Funcs]

Service(e) == [header |-> Hub!Stored(e.name), func |-> e.func]

Served(m) == [i \in DOMAIN m |-> Service(m[i])]

ToldApart(m) ==
  \A i \in DOMAIN m : \A j \in DOMAIN m : ~Hub!Confused(m[i].name, m[j].name)

HubInv ==
  /\ meant \in Seq(Entries)
  /\ ~ambiguous => services = Served(meant) /\ ToldApart(meant)

LEMMA EntryParts ==
  ASSUME NEW m \in Seq(Entries), NEW i \in DOMAIN m
  PROVE  m[i] \in Entries /\ m[i].name \in MCNames /\ m[i].name \in Seq(Nat)
<1>1. m[i] \in Entries
  BY SeqParts
<1>2. MCNames \subseteq Seq(Nat)
  BY PartsAssumption DEF Hub!HubAssumption
<1> QED BY <1>1, <1>2 DEF Entries

(* Of a served list the first service that matches a header is the newest  *)
(* of its name.                                                            *)
LEMMA HitIs ==
  ASSUME meant \in Seq(Entries), services = Served(meant), ToldApart(meant),
         NEW h \in Seq(Nat), NEW i \in DOMAIN meant
  PROVE  Hub!Hit(h, i) <=> /\ Hub!IsPrefix(Hub!Stored(meant[i].name), h)
                           /\ \A k \in 1..i-1 : meant[k].name # meant[i].name
<1>1. \A j \in DOMAIN meant :
        Hub!Matches(services[j], h) <=> Hub!IsPrefix(Hub!Stored(meant[j].name), h)
  BY DEF Served, Service, Hub!Matches
<1>2. \A k \in 1..i-1 : k \in DOMAIN meant
  OBVIOUS
<1>3. ASSUME Hub!IsPrefix(Hub!Stored(meant[i].name), h), NEW k \in 1..i-1
      PROVE  Hub!IsPrefix(Hub!Stored(meant[k].name), h) <=> meant[k].name = meant[i].name
  <2>1. k \in DOMAIN meant
    BY <1>2
  <2>2. meant[i].name \in Seq(Nat) /\ meant[k].name \in Seq(Nat)
    BY <2>1, EntryParts
  <2>3. ~Hub!Confused(meant[k].name, meant[i].name)
    BY <2>1 DEF ToldApart
  <2>4. Hub!IsPrefix(Hub!Stored(meant[k].name), h) => meant[k].name = meant[i].name
    BY <1>3, <2>2, <2>3, SameName
  <2> QED BY <1>3, <2>4
<1> QED BY <1>1, <1>2, <1>3 DEF Hub!Hit

LEMMA HubTable ==
  ASSUME HubInv PROVE Hub!ActsAsTable
<1> SUFFICES ASSUME ~ambiguous PROVE Hub!ActsAsTable
  BY DEF Hub!ActsAsTable
<1>1. meant \in Seq(Entries) /\ services = Served(meant) /\ ToldApart(meant)
  BY DEF HubInv
<1>2. services = [i \in DOMAIN meant |-> [header |-> Hub!Stored(meant[i].name), func |-> meant[i].func]]
  BY <1>1 DEF Served, Service
<1>3. DOMAIN services = DOMAIN meant /\ \A i \in DOMAIN meant : services[i].func = meant[i].func
  BY <1>2
<1>4. ASSUME NEW header \in MCNames
      PROVE  Hub!svchub_deal(header) =
               {meant[i].func : i \in {j \in DOMAIN meant :
                  /\ Hub!IsPrefix(Hub!Stored(meant[j].name), header)
                  /\ \A k \in 1..j-1 : meant[k].name # meant[j].name}}
  <2>1. header \in Seq(Nat)
    BY PartsAssumption DEF Hub!HubAssumption
  <2>2. \A j \in DOMAIN meant : Hub!Hit(header, j) <=>
          /\ Hub!IsPrefix(Hub!Stored(meant[j].name), header)
          /\ \A k \in 1..j-1 : meant[k].name # meant[j].name
    BY <1>1, <2>1, HitIs
  <2> QED BY <1>3, <2>2 DEF Hub!svchub_deal
<1> QED BY <1>2, <1>4 DEF Hub!ActsAsTable

LEMMA HubAdds ==
  ASSUME HubInv, NEW x \in MCNames, NEW func \in Funcs, Hub!svchub_add_service(x, func)
  PROVE  HubInv'
<1> DEFINE e == [name |-> x, func |-> func]
           m == <<e>> \o meant
<1>1. /\ services' = <<Service(e)>> \o services
      /\ ambiguous' = (ambiguous \/ \E i \in DOMAIN meant : Hub!Confused(x, meant[i].name))
      /\ meant' = IF ambiguous' THEN <<>> ELSE m
  BY DEF Hub!svchub_add_service, Hub!Remember, Service
<1>2. meant \in Seq(Entries) /\ e \in Entries /\ e.name = x
  BY DEF HubInv, Entries
<1> HIDE DEF e
<1>3. /\ m \in Seq(Entries) /\ DOMAIN m = 1..(Len(meant) + 1) /\ m[1] = e
      /\ \A i \in DOMAIN m : i # 1 => i - 1 \in DOMAIN meant /\ m[i] = meant[i - 1]
  BY <1>2
<1>4. CASE ambiguous'
  BY <1>1, <1>4 DEF HubInv
<1>5. CASE ~ambiguous'
  <2>1. /\ meant' = m /\ services = Served(meant) /\ ToldApart(meant)
        /\ \A i \in DOMAIN meant : ~Hub!Confused(x, meant[i].name)
    BY <1>1, <1>5 DEF HubInv
  <2> HIDE DEF m
  <2>2. services' = Served(m)
    <3>1. /\ DOMAIN services = 1..Len(meant) /\ Len(meant) \in Nat
          /\ \A i \in DOMAIN meant : services[i] = Service(meant[i])
      BY <1>2, <2>1 DEF Served
    <3>2. services \in Seq(Range(services)) /\ Len(services) = Len(meant)
      <4>1. services \in [1..Len(meant) -> Range(services)]
        BY <2>1, <3>1 DEF Range, Served
      <4> QED BY <3>1, <4>1
    <3>3. /\ services' \in Seq(Range(services) \cup {Service(e)})
          /\ DOMAIN services' = 1..(Len(meant) + 1) /\ services'[1] = Service(e)
          /\ \A i \in 2..(Len(meant) + 1) : services'[i] = services[i - 1]
      BY <1>1, <3>1, <3>2
    <3>4. ASSUME NEW i \in DOMAIN m PROVE services'[i] = Service(m[i])
      <4>1. CASE i = 1
        BY <1>3, <3>3, <4>1
      <4>2. CASE i # 1
        <5>1. i - 1 \in DOMAIN meant /\ m[i] = meant[i - 1] /\ i \in 2..(Len(meant) + 1)
          BY <1>2, <1>3, <4>2
        <5> QED BY <3>1, <3>3, <5>1
      <4> QED BY <4>1, <4>2
    <3>5. DOMAIN services' = DOMAIN m
      BY <1>3, <3>3
    <3> QED BY <3>3, <3>4, <3>5 DEF Served
  <2>3. ToldApart(m)
    <3> SUFFICES ASSUME NEW i \in DOMAIN m, NEW j \in DOMAIN m, Hub!Confused(m[i].name, m[j].name)
                 PROVE  FALSE
      BY DEF ToldApart
    <3>1. \A a, b : Hub!Confused(a, b) => a # b /\ Hub!Confused(b, a)
      BY DEF Hub!Confused
    <3>2. CASE i = 1 \/ j = 1
      BY <1>2, <1>3, <2>1, <3>1, <3>2
    <3>3. CASE i # 1 /\ j # 1
      BY <1>3, <2>1, <3>3 DEF ToldApart
    <3> QED BY <3>2, <3>3
  <2> QED BY <1>3, <2>1, <2>2, <2>3 DEF HubInv, Served, Service, ToldApart
<1> QED BY <1>4, <1>5

(* A removal finds the newest service of its name.                         *)
LEMMA HubDeletes ==
  ASSUME HubInv, NEW x \in MCNames, Hub!svchub_del_service(x)
  PROVE  HubInv'
<1> DEFINE m == Hub!Withdrawn(x)
           Newest(i) == meant[i].name = x /\ \A j \in 1..i-1 : meant[j].name # x
<1>1. /\ ambiguous' = (ambiguous \/ \E i \in DOMAIN meant : Hub!Confused(x, meant[i].name))
      /\ meant' = IF ambiguous' THEN <<>> ELSE m
  BY DEF Hub!svchub_del_service, Hub!Remember
<1>2. CASE ambiguous'
  BY <1>1, <1>2 DEF HubInv
<1>3. CASE ~ambiguous'
  <2>1. /\ meant' = m /\ meant \in Seq(Entries) /\ services = Served(meant) /\ ToldApart(meant)
        /\ \A i \in DOMAIN meant : ~Hub!Confused(x, meant[i].name)
    BY <1>1, <1>3 DEF HubInv
  <2>2. x \in Seq(Nat) /\ Hub!IsPrefix(Hub!Stored(x), x)
    BY PartsAssumption, StoredParts DEF Hub!HubAssumption
  <2>3. ASSUME NEW i \in DOMAIN meant PROVE Hub!Hit(x, i) <=> Newest(i)
    <3>1. Hub!Hit(x, i) <=> /\ Hub!IsPrefix(Hub!Stored(meant[i].name), x)
                            /\ \A k \in 1..i-1 : meant[k].name # meant[i].name
      BY <2>1, <2>2, HitIs
    <3>2. Hub!IsPrefix(Hub!Stored(meant[i].name), x) <=> meant[i].name = x
      BY <2>1, <2>2 DEF Hub!Confused
    <3> QED BY <3>1, <3>2
  <2>4. DOMAIN services = DOMAIN meant
    BY <2>1 DEF Served
  <2>5. CASE \A i \in DOMAIN meant : meant[i].name # x
    <3>1. m = meant
      BY <2>5 DEF Hub!Withdrawn
    <3>2. \A i \in DOMAIN services : ~Hub!Hit(x, i)
      BY <2>3, <2>4, <2>5
    <3>3. services' = services
      BY <3>2 DEF Hub!svchub_del_service
    <3> QED BY <2>1, <3>1, <3>3 DEF HubInv, Served, Service, ToldApart
  <2>6. CASE \E i \in DOMAIN meant : meant[i].name = x
    <3> DEFINE p == CHOOSE i \in DOMAIN meant : Newest(i)
    <3>1. \E i \in DOMAIN meant : Newest(i)
      <4> DEFINE Places == {i \in DOMAIN meant : meant[i].name = x}
      <4>1. Places \subseteq Nat /\ Places # {}
        BY <2>1, <2>6
      <4>2. PICK i \in Places : \A j \in Places : i <= j
        <5> HIDE DEF Places
        <5> QED BY <4>1, LeastNat
      <4>3. i \in DOMAIN meant /\ meant[i].name = x
        BY <4>2
      <4>4. ASSUME NEW j \in 1..i-1 PROVE meant[j].name # x
        <5>1. j \in DOMAIN meant /\ ~(i <= j)
          BY <2>1, <4>3
        <5> QED BY <4>2, <5>1
      <4> QED BY <4>3, <4>4
    <3>2. p \in DOMAIN meant /\ Newest(p)
      <4> HIDE DEF Newest
      <4> QED BY <3>1
    <3>3. m = RemoveAt(meant, p)
      BY <2>6 DEF Hub!Withdrawn, Hub!RemoveAt, RemoveAt
    <3> HIDE DEF p
    <3>4. \A i \in DOMAIN meant : Newest(i) => i = p
      BY <2>1, <3>2
    <3> HIDE DEF m, Newest
    <3>5. services' = RemoveAt(services, p)
      <4>1. \E i \in DOMAIN services : Hub!Hit(x, i) /\ services' = Hub!RemoveAt(services, i)
        BY <2>3, <2>4, <3>2 DEF Hub!svchub_del_service
      <4>2. services' = Hub!RemoveAt(services, p)
        BY <2>3, <2>4, <3>4, <4>1
      <4> QED BY <4>2 DEF Hub!RemoveAt, RemoveAt
    <3>6. /\ m \in Seq(Entries) /\ DOMAIN m = 1..(Len(meant) - 1)
          /\ \A k \in DOMAIN m : m[k] = meant[IF k < p THEN k ELSE k + 1]
      BY <2>1, <3>2, <3>3, RemoveAtParts
    <3>7. \A k \in DOMAIN m : (IF k < p THEN k ELSE k + 1) \in DOMAIN meant
      BY <2>1, <3>2, <3>6
    <3>8. /\ DOMAIN services' = 1..(Len(meant) - 1) /\ services' \in Seq(Range(services))
          /\ \A k \in DOMAIN services' : services'[k] = services[IF k < p THEN k ELSE k + 1]
      <4>1. services \in Seq(Range(services)) /\ Len(services) = Len(meant)
        <5>1. services \in [1..Len(meant) -> Range(services)] /\ Len(meant) \in Nat
          BY <2>1, <2>4 DEF Range, Served
        <5> QED BY <2>4, <5>1
      <4> QED BY <2>4, <3>2, <3>5, <4>1, RemoveAtParts
    <3>9. services' = Served(m)
      <4>1. ASSUME NEW k \in DOMAIN m PROVE services'[k] = Service(m[k])
        <5> DEFINE o == IF k < p THEN k ELSE k + 1
        <5>1. o \in DOMAIN meant /\ m[k] = meant[o] /\ services'[k] = services[o]
          BY <3>6, <3>7, <3>8
        <5> HIDE DEF o
        <5>2. services[o] = Service(meant[o])
          BY <2>1, <5>1 DEF Served
        <5> QED BY <5>1, <5>2
      <4> QED BY <3>6, <3>8, <4>1 DEF Served
    <3>10. ToldApart(m)
      BY <2>1, <3>6, <3>7 DEF ToldApart
    <3> QED BY <2>1, <3>6, <3>9, <3>10 DEF HubInv, Served, Service, ToldApart
  <2> QED BY <2>5, <2>6
<1> QED BY <1>2, <1>3

(* As long as no two headers are prefixes of one another, the hub is a     *)
(* table from names to handlers: what svchub_del_service() removes was     *)
(* registered under that very name, and svchub_deal() calls the newest     *)
(* handler of a name, for any number of services and any length of header. *)
THEOREM HubIsTable == SpecAll => []HubActsAsTable
<1>1. Hub!Init => HubInv
  BY DEF Hub!Init, HubInv, Served, ToldApart
<1>2. HubInv /\ [Hub!Next]_(Hub!vars) => HubInv'
  <2> SUFFICES ASSUME HubInv, [Hub!Next]_(Hub!vars) PROVE HubInv'
    OBVIOUS
  <2>1. CASE \E x \in MCNames, func \in Funcs : Hub!svchub_add_service(x, func)
    BY <2>1, HubAdds
  <2>2. CASE \E x \in MCNames : Hub!svchub_del_service(x)
    BY <2>2, HubDeletes
  <2>3. CASE Hub!svchub_destroy
    BY <2>3 DEF Hub!svchub_destroy, HubInv, Served, ToldApart
  <2>4. CASE UNCHANGED Hub!vars
    BY <2>4 DEF Hub!vars, HubInv, Served, Service, ToldApart
  <2> QED BY <2>1, <2>2, <2>3, <2>4 DEF Hub!Next
<1>3. HubInv => Hub!ActsAsTable
  BY HubTable
<1>4. Hub!Spec => []Hub!ActsAsTable
  BY <1>1, <1>2, <1>3, PTL DEF Hub!Spec
<1> QED BY <1>4, HubPart, PTL DEF HubActsAsTable

-----------------------------------------------------------------------------
(* The ring buffer.                                                        *)

LEMMA RingPart == SpecAll => Ring!Spec
<1>1. InitAll => Ring!Init
  BY DEF InitAll
<1>2. [NextAll]_all => [Ring!Next]_(Ring!vars)
  BY DEF NextAll, all, ring, Ring!vars
<1> QED BY <1>1, <1>2, PTL DEF SpecAll, Ring!Spec

(* An offset moved on by at most the size of the buffer.                   *)
LEMMA Wraps ==
  ASSUME NEW S \in Nat \ {0}, NEW a \in 0..S-1, NEW k \in 0..S
  PROVE  /\ (a + k) % S = IF a + k < S THEN a + k ELSE (a + k) - S
         /\ (a + k) % S \in 0..S-1
<1>1. CASE a + k < S
  BY <1>1
<1>2. CASE ~(a + k < S)
  <2> DEFINE r == (a + k) - S
  <2>1. r \in Nat /\ r < S /\ a + k = 1 * S + r
    BY <1>2
  <2> HIDE DEF r
  <2>2. \A x \in Nat : x < S => (1 * S + x) % S = x
    OBVIOUS
  <2>3. (a + k) % S = r
    BY <2>1, <2>2
  <2> QED BY <1>2, <2>1, <2>3 DEF r
<1> QED BY <1>1, <1>2

(* Where byte k of the contents lies.                                      *)
Slot(k) == IF offset_out + k < RingSize THEN offset_out + k ELSE (offset_out + k) - RingSize

RingSizes ==
  /\ RingSize \in Nat \ {0} /\ offset_in \in 0..RingSize-1 /\ offset_out \in 0..RingSize-1

LEMMA RingParts ==
  ASSUME Ring!TypeOK
  PROVE  /\ RingSizes /\ rawbuf \in [0..RingSize-1 -> Byte]
         /\ Ring!ringbuf_used \in 0..RingSize-1
         /\ Ring!ringbuf_spare \in 1..RingSize
         /\ \A k \in 0..RingSize : Slot(k) \in 0..RingSize-1 /\ (offset_out + k) % RingSize = Slot(k)
         /\ offset_in = Slot(Ring!ringbuf_used)
<1>1. RingSizes /\ rawbuf \in [0..RingSize-1 -> Byte]
  BY PartsAssumption DEF Ring!RingBufAssumption, Ring!TypeOK, RingSizes
<1>2. Ring!ringbuf_used \in 0..RingSize-1 /\ offset_in = Slot(Ring!ringbuf_used)
  BY <1>1 DEF Ring!ringbuf_used, RingSizes, Slot
<1>3. Ring!ringbuf_spare \in 1..RingSize
  BY <1>1, <1>2 DEF Ring!ringbuf_spare, RingSizes
<1>4. \A k \in 0..RingSize : Slot(k) \in 0..RingSize-1 /\ (offset_out + k) % RingSize = Slot(k)
  BY <1>1, Wraps DEF RingSizes, Slot
<1> QED BY <1>1, <1>2, <1>3, <1>4

LEMMA ChunkParts ==
  ASSUME NEW s \in Ring!Chunks
  PROVE  s \in Seq(Byte) /\ Len(s) \in Nat /\ s \in Ring!Queue!Chunks
<1>1. RingChunk \in Nat
  BY PartsAssumption DEF Ring!RingBufAssumption
<1>2. PICK k \in 0..RingChunk : s \in [1..k -> Byte]
  BY DEF Ring!Chunks
<1>3. k \in Nat
  BY <1>1
<1> QED BY <1>2, <1>3 DEF Ring!Chunks, Ring!Queue!Chunks

(* A write stores its bytes behind the contents and leaves those alone.    *)
LEMMA StoreParts ==
  ASSUME Ring!TypeOK, NEW s \in Seq(Byte), Len(s) <= Ring!ringbuf_spare
  PROVE  /\ Ring!Store(s, Len(s)) \in [0..RingSize-1 -> Byte]
         /\ \A k \in 0..RingSize-1 :
              Ring!Store(s, Len(s))[Slot(k)] =
                IF k >= Ring!ringbuf_used /\ k < Ring!ringbuf_used + Len(s)
                THEN s[(k - Ring!ringbuf_used) + 1] ELSE rawbuf[Slot(k)]
<1> DEFINE l == Len(s)
           used == Ring!ringbuf_used
           St == Ring!Store(s, l)
<1>1. /\ RingSizes /\ rawbuf \in [0..RingSize-1 -> Byte] /\ used \in 0..RingSize-1
      /\ \A k \in 0..RingSize : Slot(k) \in 0..RingSize-1
      /\ offset_in = Slot(used)
  BY RingParts
<1>2. l \in Nat /\ used + l <= RingSize
  BY <1>1 DEF Ring!ringbuf_spare, RingSizes
<1>3. St = [i \in 0..RingSize-1 |->
     IF offset_in <= i /\ i < offset_in + l THEN s[i - offset_in + 1]
     ELSE IF i + RingSize < offset_in + l THEN s[i + RingSize - offset_in + 1]
     ELSE rawbuf[i]]
  BY DEF Ring!Store
<1> HIDE DEF used, St, l
<1>4. /\ offset_in \in Nat /\ offset_in < RingSize /\ offset_out \in Nat
      /\ offset_out < RingSize /\ used \in Nat /\ used < RingSize /\ RingSize \in Nat
  BY <1>1 DEF RingSizes
<1>5. ASSUME NEW i \in 0..RingSize-1 PROVE St[i] \in Byte
  <2>1. CASE offset_in <= i /\ i < offset_in + l
    <3>1. i - offset_in + 1 \in 1..l
      BY <1>2, <1>4, <2>1
    <3> QED BY <1>3, <2>1, <3>1 DEF l
  <2>2. CASE ~(offset_in <= i /\ i < offset_in + l) /\ i + RingSize < offset_in + l
    <3>1. i + RingSize - offset_in + 1 \in 1..l
      BY <1>2, <1>4, <2>2
    <3> QED BY <1>3, <2>2, <3>1 DEF l
  <2>3. CASE ~(offset_in <= i /\ i < offset_in + l) /\ ~(i + RingSize < offset_in + l)
    BY <1>1, <1>3, <2>3
  <2> QED BY <2>1, <2>2, <2>3
<1>6. ASSUME NEW k \in 0..RingSize-1
      PROVE  St[Slot(k)] = IF k >= used /\ k < used + l THEN s[(k - used) + 1] ELSE rawbuf[Slot(k)]
  <2> DEFINE i == Slot(k)
  <2>1. i \in 0..RingSize-1
    BY <1>4 DEF Slot
  <2>2. CASE k >= used /\ k < used + l
    <3>1. \/ offset_in <= i /\ i < offset_in + l /\ i - offset_in + 1 = (k - used) + 1
          \/ /\ ~(offset_in <= i /\ i < offset_in + l) /\ i + RingSize < offset_in + l
             /\ i + RingSize - offset_in + 1 = (k - used) + 1
      BY <1>1, <1>2, <1>4, <2>2 DEF Slot
    <3> HIDE DEF i
    <3>2. St[i] = s[(k - used) + 1]
      BY <1>3, <2>1, <3>1
    <3> QED BY <2>2, <3>2 DEF i
  <2>3. CASE ~(k >= used /\ k < used + l)
    <3>1. ~(offset_in <= i /\ i < offset_in + l) /\ ~(i + RingSize < offset_in + l)
      BY <1>1, <1>2, <1>4, <2>3 DEF Slot
    <3> HIDE DEF i
    <3>2. St[i] = rawbuf[i]
      BY <1>3, <2>1, <3>1
    <3> QED BY <2>3, <3>2 DEF i
  <2> QED BY <2>2, <2>3
<1>7. St \in [0..RingSize-1 -> Byte]
  BY <1>3, <1>5
<1> QED BY <1>6, <1>7 DEF St, l, used

LEMMA PeekIs ==
  ASSUME Ring!TypeOK, NEW k \in 0..RingSize
  PROVE  /\ Ring!PeekBytes(k) = [i \in 1..k |-> rawbuf[Slot(i - 1)]]
         /\ Ring!PeekBytes(k) \in Seq(Byte) /\ Len(Ring!PeekBytes(k)) = k /\ k \in Nat
<1>1. /\ RingSizes /\ rawbuf \in [0..RingSize-1 -> Byte]
      /\ \A l \in 0..RingSize : Slot(l) \in 0..RingSize-1 /\ (offset_out + l) % RingSize = Slot(l)
  BY RingParts
<1>2. k \in Nat /\ \A i \in 1..k : i - 1 \in 0..RingSize
  BY <1>1 DEF RingSizes
<1>3. \A i \in 1..k : (offset_out + i - 1) % RingSize = Slot(i - 1)
  BY <1>1, <1>2
<1>4. Ring!PeekBytes(k) = [i \in 1..k |-> rawbuf[Slot(i - 1)]]
  BY <1>3 DEF Ring!PeekBytes
<1>5. \A i \in 1..k : rawbuf[Slot(i - 1)] \in Byte
  BY <1>1, <1>2
<1> QED BY <1>2, <1>4, <1>5

Contents == Ring!PeekBytes(Ring!ringbuf_used)

ContentsShown ==
  /\ Ring!ringbuf_used \in Nat
  /\ Contents \in Seq(Byte) /\ Len(Contents) = Ring!ringbuf_used
  /\ \A i \in 1..Ring!ringbuf_used : Contents[i] = rawbuf[Slot(i - 1)]

LEMMA ContentsParts == Ring!TypeOK => ContentsShown
<1> SUFFICES ASSUME Ring!TypeOK PROVE ContentsShown
  OBVIOUS
<1>1. Ring!ringbuf_used \in 0..RingSize
  BY RingParts DEF RingSizes
<1> QED BY <1>1, PeekIs DEF Contents, ContentsShown

(* Offsets in S cells: the distance grows and shrinks with them.           *)
Moved(S, a, k) == IF a + k < S THEN a + k ELSE (a + k) - S
Distance(S, in, od) == IF in >= od THEN in - od ELSE in + (S - od)

LEMMA DistanceMoves ==
  ASSUME NEW S \in Nat, NEW in \in Nat, NEW od \in Nat, in < S, od < S, NEW k \in Nat
  PROVE  /\ Distance(S, in, od) + k < S
            => Distance(S, Moved(S, in, k), od) = Distance(S, in, od) + k
         /\ k <= Distance(S, in, od)
            => Distance(S, in, Moved(S, od, k)) = Distance(S, in, od) - k
  BY DEF Moved, Distance

LEMMA RingWrites ==
  ASSUME Ring!TypeOK, NEW s \in Ring!Chunks, Ring!ringbuf_write(s)
  PROVE  Ring!TypeOK' /\ (Ring!Queue!Put(s) \/ Ring!Queue!Die)
<1>1. s \in Seq(Byte) /\ Len(s) \in Nat /\ s \in Ring!Queue!Chunks
  BY ChunkParts
<1> DEFINE used == Ring!ringbuf_used
           l == Len(s)
<1>2. /\ RingSizes /\ used \in 0..RingSize-1
      /\ Ring!ringbuf_spare \in 1..RingSize /\ Ring!ringbuf_spare = RingSize - used
      /\ offset_in = Slot(used) /\ rawbuf \in [0..RingSize-1 -> Byte]
  BY RingParts DEF Ring!ringbuf_spare
<1>3. ~ring_dead /\ l < Ring!ringbuf_spare /\ l < RingSize
  BY <1>1, <1>2 DEF Ring!ringbuf_write, RingSizes
<1>4. Ring!Least(l, Ring!ringbuf_spare) = l
  BY <1>1, <1>2, <1>3 DEF Ring!Least
<1>5. /\ rawbuf' = Ring!Store(s, l) /\ offset_in' = (offset_in + l) % RingSize
      /\ ring_io' = SubSeq(s, 1, l) /\ offset_out' = offset_out /\ ring_dead' = ring_dead
  BY <1>3, <1>4 DEF Ring!ringbuf_write, Ring!Advance
<1>6. /\ Ring!Store(s, l) \in [0..RingSize-1 -> Byte]
      /\ \A k \in 0..RingSize-1 :
           Ring!Store(s, l)[Slot(k)] =
                IF k >= used /\ k < used + l THEN s[(k - used) + 1] ELSE rawbuf[Slot(k)]
  BY <1>1, <1>2, <1>3, StoreParts
<1>7. /\ RingSize \in Nat \ {0} /\ offset_in \in 0..RingSize-1 /\ offset_out \in 0..RingSize-1
      /\ l \in 0..RingSize
  BY <1>1, <1>2, <1>3 DEF RingSizes
<1>8. /\ offset_in' = IF offset_in + l < RingSize THEN offset_in + l ELSE (offset_in + l) - RingSize
      /\ offset_in' \in 0..RingSize-1
  BY <1>5, <1>7, Wraps
<1>9. Ring!TypeOK'
  BY <1>5, <1>6, <1>7, <1>8 DEF Ring!TypeOK
<1>10. Ring!ringbuf_used' = used + l
  <2>1. /\ RingSize \in Nat /\ offset_in \in Nat /\ offset_out \in Nat /\ l \in Nat
        /\ offset_in < RingSize /\ offset_out < RingSize /\ used + l < RingSize
    BY <1>1, <1>2, <1>3, <1>7
  <2>2. offset_in' = Moved(RingSize, offset_in, l)
    BY <1>8 DEF Moved
  <2>3. /\ used = Distance(RingSize, offset_in, offset_out)
        /\ Ring!ringbuf_used' = Distance(RingSize, offset_in', offset_out')
    BY DEF Distance, Ring!ringbuf_used
  <2> HIDE DEF l, used
  <2> QED BY <1>5, <2>1, <2>2, <2>3, DistanceMoves
<1>11. ring_io' = s
  BY <1>1, <1>5
<1>12. /\ used \in Nat /\ Contents \in Seq(Byte) /\ Len(Contents) = used
       /\ \A i \in 1..used : Contents[i] = rawbuf[Slot(i - 1)]
  BY ContentsParts DEF ContentsShown
<1>13. /\ Contents' \in Seq(Byte) /\ Len(Contents') = used + l
       /\ \A i \in 1..(used + l) : Contents'[i] = rawbuf'[Slot(i - 1)]
  <2>1. /\ Contents' \in Seq(Byte) /\ Len(Contents') = Ring!ringbuf_used'
        /\ \A i \in 1..Ring!ringbuf_used' : Contents'[i] = rawbuf'[Slot(i - 1)']
    <3>1. ContentsShown'
      BY <1>9, ContentsParts, PTL
    <3> QED BY <3>1 DEF ContentsShown
  <2> QED BY <1>5, <1>10, <2>1 DEF Slot
<1>14. Contents' = Contents \o s
  <2> HIDE DEF l, used
  <2>1. /\ Contents \o s \in Seq(Byte) /\ Len(Contents \o s) = used + l
        /\ \A i \in 1..(used + l) :
             (Contents \o s)[i] = IF i <= used THEN Contents[i] ELSE s[i - used]
    BY <1>1, <1>12 DEF l
  <2>2. ASSUME NEW i \in 1..(used + l) PROVE Contents'[i] = (Contents \o s)[i]
    <3>1. i - 1 \in 0..RingSize-1 /\ i \in Nat /\ l \in Nat
      BY <1>1, <1>2, <1>3, <1>7, <1>12
    <3>2. rawbuf'[Slot(i - 1)] = IF i - 1 >= used /\ i - 1 < used + l
                                 THEN s[((i - 1) - used) + 1] ELSE rawbuf[Slot(i - 1)]
      BY <1>5, <1>6, <3>1
    <3>3. CASE i <= used
      BY <1>12, <1>13, <2>1, <3>1, <3>2, <3>3
    <3>4. CASE ~(i <= used)
      <4>1. i - 1 >= used /\ i - 1 < used + l /\ ((i - 1) - used) + 1 = i - used
        BY <1>12, <3>1, <3>4
      <4> QED BY <1>13, <2>1, <3>2, <3>4, <4>1
    <3> QED BY <3>3, <3>4
  <2> DEFINE a == Contents'
             b == Contents \o s
  <2>3. a \in Seq(Byte) /\ b \in Seq(Byte) /\ Len(a) = Len(b) /\ \A i \in 1..Len(a) : a[i] = b[i]
    BY <1>13, <2>1, <2>2
  <2> HIDE DEF a, b
  <2>4. a = b
    BY <2>3
  <2> QED BY <2>4 DEF a, b
<1> QED BY <1>3, <1>5, <1>9, <1>11, <1>14 DEF Ring!Queue!Put, Contents

(* Moving offset_out takes bytes off the front.                            *)
LEMMA RingDrops ==
  ASSUME Ring!TypeOK, NEW m \in 0..Ring!ringbuf_used,
         offset_out' = (offset_out + m) % RingSize,
         UNCHANGED <<rawbuf, offset_in, ring_dead>>
  PROVE  Ring!TypeOK' /\ Contents' = SubSeq(Contents, m + 1, Len(Contents))
<1> DEFINE used == Ring!ringbuf_used
<1>1. /\ RingSizes /\ used \in 0..RingSize-1 /\ rawbuf \in [0..RingSize-1 -> Byte]
  BY RingParts
<1>2. /\ RingSize \in Nat \ {0} /\ offset_in \in 0..RingSize-1 /\ offset_out \in 0..RingSize-1
      /\ m \in 0..RingSize /\ m \in Nat /\ m <= used /\ used \in Nat
  BY <1>1 DEF RingSizes
<1>3. offset_out' = Moved(RingSize, offset_out, m) /\ offset_out' \in 0..RingSize-1
  BY <1>2, Wraps DEF Moved
<1>4. Ring!TypeOK'
  BY <1>3 DEF Ring!TypeOK
<1>5. Ring!ringbuf_used' = used - m
  <2>1. /\ RingSize \in Nat /\ offset_in \in Nat /\ offset_out \in Nat
        /\ offset_in < RingSize /\ offset_out < RingSize
    BY <1>2
  <2>2. /\ used = Distance(RingSize, offset_in, offset_out)
        /\ Ring!ringbuf_used' = Distance(RingSize, offset_in', offset_out')
    BY DEF Distance, Ring!ringbuf_used
  <2> HIDE DEF used
  <2> QED BY <1>2, <1>3, <2>1, <2>2, DistanceMoves
<1>6. /\ Contents \in Seq(Byte) /\ Len(Contents) = used
      /\ \A i \in 1..used : Contents[i] = rawbuf[Slot(i - 1)]
  BY ContentsParts DEF ContentsShown
<1>7. /\ Contents' \in Seq(Byte) /\ Len(Contents') = used - m
      /\ \A i \in 1..(used - m) : Contents'[i] = rawbuf[Slot(i - 1)']
  <2>1. ContentsShown'
    BY <1>4, ContentsParts, PTL
  <2> QED BY <1>5, <2>1 DEF ContentsShown
<1> HIDE DEF used
<1>8. \A k \in Nat : k + m < RingSize => Slot(k)' = Slot(k + m)
  <2> SUFFICES ASSUME NEW k \in Nat, k + m < RingSize PROVE Slot(k)' = Slot(k + m)
    OBVIOUS
  <2>1. Slot(k)' = IF offset_out' + k < RingSize THEN offset_out' + k
                   ELSE (offset_out' + k) - RingSize
    BY DEF Slot
  <2> QED BY <1>2, <1>3, <2>1 DEF Slot, Moved
<1> DEFINE a == Contents'
           b == SubSeq(Contents, m + 1, Len(Contents))
<1>9. /\ b \in Seq(Byte) /\ Len(b) = used - m
      /\ \A i \in 1..(used - m) : b[i] = Contents[m + i]
  BY <1>2, <1>6
<1>10. ASSUME NEW i \in 1..(used - m) PROVE a[i] = b[i]
  <2>1. /\ m + i \in 1..used /\ i - 1 \in Nat /\ (i - 1) + m < RingSize
        /\ (m + i) - 1 = (i - 1) + m
    BY <1>1, <1>2
  <2>2. b[i] = rawbuf[Slot((i - 1) + m)]
    <3>1. Contents[m + i] = rawbuf[Slot((m + i) - 1)]
      BY <1>6, <2>1
    <3> QED BY <1>9, <2>1, <3>1
  <2>3. a[i] = rawbuf[Slot((i - 1) + m)]
    BY <1>7, <1>8, <2>1
  <2> QED BY <2>2, <2>3
<1> HIDE DEF a, b
<1>11. a = b
  BY <1>7, <1>9, <1>10 DEF a
<1> QED BY <1>4, <1>11 DEF a, b

(* A peek shows the front.                                                 *)
LEMMA RingShows ==
  ASSUME Ring!TypeOK, NEW m \in 0..Ring!ringbuf_used
  PROVE  Ring!PeekBytes(m) = SubSeq(Contents, 1, m)
<1> DEFINE used == Ring!ringbuf_used
           a == Ring!PeekBytes(m)
           b == SubSeq(Contents, 1, m)
<1>1. used \in 0..RingSize-1 /\ RingSize \in Nat
  BY RingParts DEF RingSizes
<1>2. m \in 0..RingSize /\ m \in Nat /\ m <= used /\ used \in Nat
  BY <1>1
<1>3. /\ Contents \in Seq(Byte) /\ Len(Contents) = used
      /\ \A i \in 1..used : Contents[i] = rawbuf[Slot(i - 1)]
  BY ContentsParts DEF ContentsShown
<1>4. a \in Seq(Byte) /\ Len(a) = m /\ \A i \in 1..m : a[i] = rawbuf[Slot(i - 1)]
  BY <1>2, PeekIs
<1> HIDE DEF a, used
<1>5. b \in Seq(Byte) /\ Len(b) = m /\ \A i \in 1..m : b[i] = Contents[i]
  BY <1>2, <1>3
<1> HIDE DEF b
<1>6. ASSUME NEW i \in 1..m PROVE a[i] = b[i]
  <2>1. i \in 1..used
    BY <1>2
  <2> QED BY <1>3, <1>4, <1>5, <2>1
<1>7. a = b
  BY <1>4, <1>5, <1>6
<1> QED BY <1>7 DEF a, b

(* Every operation of the ring buffer is one of a queue.                   *)
LEMMA RingStep ==
  ASSUME Ring!TypeOK, [Ring!Next]_(Ring!vars)
  PROVE  Ring!TypeOK' /\ [Ring!Queue!Next]_(Ring!Queue!vars)
<1>1. CASE \E s \in Ring!Chunks : Ring!ringbuf_write(s)
  BY <1>1, RingWrites, ChunkParts DEF Ring!Queue!Next
<1>2. ASSUME Ring!Die, ~ring_dead PROVE Ring!TypeOK' /\ Ring!Queue!Die
  BY <1>2 DEF Ring!Die, Ring!TypeOK, Ring!Queue!Die, Ring!PeekBytes, Ring!ringbuf_used
<1>3. ASSUME NEW k \in 0..RingChunk,
             Ring!ringbuf_peek(k) \/ Ring!ringbuf_read(k) \/ Ring!ringbuf_read_advance(k)
      PROVE  Ring!TypeOK' /\ Ring!Queue!Next
  <2> DEFINE m == Ring!Least(k, Ring!ringbuf_used)
  <2>1. k \in Nat /\ Ring!ringbuf_used \in Nat
    BY RingParts, PartsAssumption DEF Ring!RingBufAssumption, RingSizes
  <2>2. m \in 0..Ring!ringbuf_used /\ Len(Contents) = Ring!ringbuf_used
    BY <2>1, ContentsParts DEF Ring!Least, ContentsShown
  <2> HIDE DEF m
  <2>3. CASE Ring!Die
    <3>1. ~ring_dead
      BY <1>3 DEF Ring!ringbuf_peek, Ring!ringbuf_read, Ring!ringbuf_read_advance
    <3> QED BY <1>2, <2>3, <3>1 DEF Ring!Queue!Next
  <2>4. CASE Ring!ringbuf_peek(k) /\ ~Ring!Die
    <3>1. /\ ~ring_dead /\ ring_io' = Ring!PeekBytes(m)
          /\ UNCHANGED <<rawbuf, offset_in, offset_out, ring_dead>>
      BY <2>4 DEF Ring!ringbuf_peek, m
    <3>2. Ring!TypeOK' /\ Contents' = Contents
      BY <3>1 DEF Ring!TypeOK, Contents, Ring!PeekBytes, Ring!ringbuf_used
    <3>3. Ring!Queue!Look(m)
      BY <2>2, <3>1, <3>2, RingShows DEF Ring!Queue!Look, Contents
    <3> QED BY <2>2, <3>2, <3>3 DEF Ring!Queue!Next, Contents
  <2>5. CASE Ring!ringbuf_read(k) /\ ~Ring!Die
    <3>1. /\ ~ring_dead /\ ring_io' = Ring!PeekBytes(m)
          /\ offset_out' = (offset_out + m) % RingSize
          /\ UNCHANGED <<rawbuf, offset_in, ring_dead>>
      BY <2>5 DEF Ring!ringbuf_read, Ring!Advance, m
    <3>2. Ring!TypeOK' /\ Contents' = SubSeq(Contents, m + 1, Len(Contents))
      BY <2>2, <3>1, RingDrops
    <3>3. Ring!Queue!Take(m)
      BY <2>2, <3>1, <3>2, RingShows DEF Ring!Queue!Take, Ring!Queue!Rest, Contents
    <3> QED BY <2>2, <3>2, <3>3 DEF Ring!Queue!Next, Contents
  <2>6. CASE Ring!ringbuf_read_advance(k) /\ ~Ring!Die
    <3>1. /\ ~ring_dead /\ k \in 0..Ring!ringbuf_used
          /\ offset_out' = (offset_out + k) % RingSize
          /\ UNCHANGED <<rawbuf, offset_in, ring_dead, ring_io>>
      BY <2>1, <2>6 DEF Ring!ringbuf_read_advance, Ring!Advance
    <3>2. Ring!TypeOK' /\ Contents' = SubSeq(Contents, k + 1, Len(Contents))
      BY <3>1, RingDrops
    <3>3. Ring!Queue!Skip(k)
      BY <3>1, <3>2 DEF Ring!Queue!Skip, Ring!Queue!Rest, Contents
    <3> QED BY <2>2, <3>1, <3>2, <3>3 DEF Ring!Queue!Next, Contents
  <2> QED BY <1>3, <2>3, <2>4, <2>5, <2>6
<1>4. CASE UNCHANGED Ring!vars
  BY <1>4 DEF Ring!vars, Ring!TypeOK, Ring!Queue!vars, Ring!PeekBytes, Ring!ringbuf_used
<1> QED BY <1>1, <1>3, <1>4 DEF Ring!Next

LEMMA RingInit == Ring!Init => Ring!TypeOK /\ Ring!Queue!Init
<1> SUFFICES ASSUME Ring!Init PROVE Ring!TypeOK /\ Ring!Queue!Init
  OBVIOUS
<1>1. RingSize \in Nat \ {0} /\ Nul \in Byte
  BY PartsAssumption DEF Ring!RingBufAssumption
<1>2. Ring!TypeOK
  <2>1. 0 \in 0..RingSize-1 /\ [i \in 0..RingSize-1 |-> Nul] \in [0..RingSize-1 -> Byte]
    BY <1>1
  <2> QED BY <2>1 DEF Ring!Init, Ring!TypeOK
<1>3. Ring!ringbuf_used = 0
  BY DEF Ring!Init, Ring!ringbuf_used
<1>4. Contents = <<>>
  BY <1>2, <1>3, ContentsParts DEF ContentsShown
<1> QED BY <1>2, <1>4 DEF Ring!Init, Ring!Queue!Init, Contents

(* While its callers leave a byte spare, the ring buffer is a first-in     *)
(* first-out queue of bytes, whatever its size and however the offsets     *)
(* wrap around: ringbuf_write() puts, ringbuf_read() takes, ringbuf_peek() *)
(* looks and ringbuf_read_advance() skips.                                 *)
THEOREM RingIsQueue == SpecAll => RingFifo
<1>1. Ring!Init => Ring!TypeOK /\ Ring!Queue!Init
  BY RingInit
<1>2. Ring!TypeOK /\ [Ring!Next]_(Ring!vars)
      => Ring!TypeOK' /\ [Ring!Queue!Next]_(Ring!Queue!vars)
  BY RingStep
<1>3. Ring!Spec => Ring!Queue!Spec
  BY <1>1, <1>2, PTL DEF Ring!Spec, Ring!Queue!Spec
<1> QED BY <1>3, RingPart, PTL DEF RingFifo, Ring!FifoQueue

-----------------------------------------------------------------------------
(* The list of timer loops.  While no two threads have met inside timer.c  *)
(* the loops that have timers lie between the head and the head in the     *)
(* order of their ranks r, the head ranking m, below them all.             *)

LEMMA LoopsPart == SpecAll => TimerList!Spec
<1>1. InitAll => TimerList!Init
  BY DEF InitAll
<1>2. [NextAll]_all => [TimerList!Next]_(TimerList!vars)
  BY DEF NextAll, all, loops, TimerList!vars, TimerList!cells
<1> QED BY <1>1, <1>2, PTL DEF SpecAll, TimerList!Spec

Linked == {l \in Loops : \E t \in Threads : loop[t] = l}
OnList == Linked \cup {Head_}

Rank(r, m, c) == IF c = Head_ THEN m ELSE r[c]

(* No loop lies between c and d, and d lies behind c.                      *)
Follows(r, m, c, d) ==
  IF d = Head_ THEN \A e \in Linked : r[e] <= Rank(r, m, c)
  ELSE /\ d \in Linked /\ Rank(r, m, c) < r[d]
       /\ \A e \in Linked : Rank(r, m, c) < r[e] => r[d] <= r[e]

Ranked(r, m) ==
  /\ r \in [Loops -> Int] /\ m \in Int
  /\ \A c \in Linked : m < r[c]
  /\ \A c, d \in Linked : r[c] = r[d] => c = d
  /\ \A c \in OnList : Follows(r, m, c, after[c])

LoopTypes ==
  /\ after \in [TimerList!Cells -> TimerList!Cells]
  /\ before \in [TimerList!Cells -> TimerList!Cells]
  /\ pid \in [Loops -> Threads \cup {None}]
  /\ DOMAIN loops_at = Threads /\ loops_at = [t \in Threads |-> loops_at[t]]
  /\ loop \in [Threads -> Loops \cup {None}]
  /\ cur \in [Threads -> TimerList!Cells \cup {None}]
  /\ ends \in [Threads -> [prev : TimerList!Cells \cup {None}, next : TimerList!Cells \cup {None}]]

Owned == \A t \in Threads : loop[t] # None => pid[loop[t]] = t

Alone == \A t, u \in Threads : loops_at[t] # "idle" /\ loops_at[u] # "idle" => t = u

(* The cell whose prev a thread has already set while its neighbour's next *)
(* is still to be.                                                         *)
Mending(c) ==
  \E t \in Threads : loops_at[t] \in {"add2", "add3", "del2"} /\ ends[t].next = c

Backs == \A c \in OnList : Mending(c) \/ (before[c] \in OnList /\ after[before[c]] = c)

(* What a thread inside timer.c has seen is still so.                      *)
Busy(r, t) ==
  /\ loops_at[t] = "new" => loop[t] = None /\ cur[t] \in OnList
  /\ loops_at[t] = "loop" => /\ loop[t] # None /\ cur[t] \in Linked
                             /\ r[cur[t]] <= r[loop[t]]
  /\ loops_at[t] \in {"add1", "add2", "add3"} =>
       /\ loop[t] = None /\ cur[t] \in Loops /\ pid[cur[t]] = t
       /\ ends[t].prev = Head_ /\ ends[t].next = after[Head_]
  /\ loops_at[t] \in {"add2", "add3"} => before[ends[t].next] = cur[t]
  /\ loops_at[t] = "add3" => after[cur[t]] = ends[t].next /\ before[cur[t]] = Head_
  /\ loops_at[t] \in {"del1", "del2"} =>
       /\ loop[t] # None /\ ends[t].prev \in OnList
       /\ after[ends[t].prev] = loop[t] /\ ends[t].next = after[loop[t]]
  /\ loops_at[t] = "del2" => before[ends[t].next] = ends[t].prev

Orderly(r, m) ==
  /\ ~overlapped /\ ~failed
  /\ LoopTypes /\ Owned /\ Alone /\ Backs
  /\ Ranked(r, m)
  /\ \A t \in Threads : Busy(r, t)

LoopInv == overlapped \/ \E r, m : Orderly(r, m)

LEMMA LinkedParts ==
  ASSUME LoopTypes, Owned
  PROVE  /\ Head_ \notin Loops /\ None \notin Loops /\ None \notin Threads
         /\ OnList \subseteq TimerList!Cells
         /\ \A l \in Linked : /\ l \in Loops /\ l # Head_ /\ l # None
                              /\ pid[l] \in Threads /\ loop[pid[l]] = l
         /\ \A t \in Threads : loop[t] # None => loop[t] \in Linked
<1>1. Head_ \notin Loops /\ None \notin Loops /\ None \notin Threads
  BY PartsAssumption DEF TimerList!LoopsAssumption
<1>2. ASSUME NEW l \in Linked
      PROVE  l \in Loops /\ l # Head_ /\ l # None /\ pid[l] \in Threads /\ loop[pid[l]] = l
  <2>1. PICK t \in Threads : loop[t] = l
    BY DEF Linked
  <2>2. l \in Loops /\ l # None
    BY <1>1 DEF Linked
  <2> QED BY <1>1, <2>1, <2>2 DEF Owned
<1>3. \A t \in Threads : loop[t] # None => loop[t] \in Linked
  BY DEF Linked, LoopTypes
<1> QED BY <1>1, <1>2, <1>3 DEF OnList, Linked, TimerList!Cells

(* A step that changes neither the next pointers nor who has timers leaves *)
(* the list in its order.                                                  *)
LEMMA ListSame ==
  ASSUME after' = after, loop' = loop
  PROVE  /\ Linked' = Linked /\ OnList' = OnList
         /\ \A r, m : Ranked(r, m) => Ranked(r, m)'
<1>1. Linked' = Linked
  BY DEF Linked
<1>2. OnList' = OnList
  BY <1>1 DEF OnList
<1>3. ASSUME NEW CONSTANT r, NEW CONSTANT m, Ranked(r, m) PROVE Ranked(r, m)'
  <2>1. \A c, d : Follows(r, m, c, d)' <=> Follows(r, m, c, d)
    BY <1>1 DEF Follows, Rank
  <2> QED BY <1>1, <1>2, <1>3, <2>1 DEF Ranked
<1> QED BY <1>1, <1>2, <1>3

(* timer_new() and timer_loop() begin to look for the thread's loop.       *)
LEMMA LoopFindBegins ==
  ASSUME NEW CONSTANT r, NEW CONSTANT m, Orderly(r, m), ~overlapped', NEW t \in Threads,
         TimerList!timer_new(t) \/ TimerList!timer_loop(t)
  PROVE  Orderly(r, m)'
<1> USE DEF Orderly
<1>1. /\ UNCHANGED <<after, before, pid, loop, ends, failed>>
      /\ cur' = [cur EXCEPT ![t] = after[Head_]]
      /\ \A u \in Threads : loops_at[u] = "idle"
      /\ \/ loop[t] = None /\ loops_at' = [loops_at EXCEPT ![t] = "new"]
         \/ loop[t] # None /\ loops_at' = [loops_at EXCEPT ![t] = "loop"]
  BY DEF TimerList!timer_new, TimerList!timer_loop, TimerList!FindBegin, TimerList!Enter,
         TimerList!Goto, TimerList!cells
<1>2. Linked' = Linked /\ OnList' = OnList /\ Ranked(r, m)'
  BY <1>1, ListSame
<1>3. after[Head_] \in OnList /\ after[Head_] \in TimerList!Cells
  BY LinkedParts DEF Ranked, Follows, OnList, LoopTypes, TimerList!Cells
<1>4. LoopTypes'
  BY <1>1, <1>3 DEF LoopTypes
<1>5. Owned'
  BY <1>1 DEF Owned
<1>6. \A u \in Threads : u # t => loops_at'[u] = "idle"
  BY <1>1 DEF LoopTypes
<1>7. Alone'
  BY <1>6 DEF Alone
<1>8. Backs'
  <2>1. \A c \in OnList : before[c] \in OnList /\ after[before[c]] = c
    BY <1>1 DEF Backs, Mending
  <2> QED BY <1>1, <1>2, <2>1 DEF Backs
<1>9. \A u \in Threads : u # t => Busy(r, u)'
  BY <1>6 DEF Busy
<1>10. Busy(r, t)'
  <2>1. cur'[t] = after[Head_] /\ loop' = loop /\ Linked' = Linked /\ OnList' = OnList
    BY <1>1, <1>2 DEF LoopTypes
  <2>2. CASE loop[t] = None /\ loops_at' = [loops_at EXCEPT ![t] = "new"]
    <3>1. loops_at'[t] = "new"
      BY <2>2 DEF LoopTypes
    <3> QED BY <1>3, <2>1, <2>2, <3>1 DEF Busy
  <2>3. CASE loop[t] # None /\ loops_at' = [loops_at EXCEPT ![t] = "loop"]
    <3>1. loops_at'[t] = "loop"
      BY <2>3 DEF LoopTypes
    <3>2. loop[t] \in Linked
      BY <2>3, LinkedParts
    <3>3. m < r[loop[t]] /\ r[loop[t]] \in Int /\ m \in Int
      BY <3>2 DEF Ranked, Linked
    <3>4. Follows(r, m, Head_, after[Head_])
      BY DEF Ranked, OnList
    <3>5. after[Head_] \in Linked /\ r[after[Head_]] <= r[loop[t]]
      BY <3>2, <3>3, <3>4 DEF Follows, Rank
    <3> QED BY <2>1, <2>3, <3>1, <3>5 DEF Busy
  <2> QED BY <1>1, <2>2, <2>3
<1> QED BY <1>1, <1>2, <1>4, <1>5, <1>7, <1>8, <1>9, <1>10

(* The walk goes on: a thread whose loop is listed has not passed it.      *)
LEMMA LoopFindNext ==
  ASSUME NEW CONSTANT r, NEW CONSTANT m, Orderly(r, m), NEW t \in Threads, TimerList!FindNext(t)
  PROVE  Orderly(r, m)'
<1> USE DEF Orderly
<1>1. /\ UNCHANGED <<after, before, pid, loops_at, loop, ends, overlapped, failed>>
      /\ cur' = [cur EXCEPT ![t] = after[cur[t]]]
      /\ loops_at[t] \in {"new", "loop"}
      /\ cur[t] # Head_ /\ pid[cur[t]] # t
  BY DEF TimerList!FindNext, TimerList!Finding, TimerList!cells
<1>2. Linked' = Linked /\ OnList' = OnList /\ Ranked(r, m)'
  BY <1>1, ListSame
<1>3. cur[t] \in Linked
  BY <1>1 DEF Busy, OnList
<1>4. Follows(r, m, cur[t], after[cur[t]])
  BY <1>3 DEF Ranked, OnList
<1>5. after[cur[t]] \in OnList
  BY <1>4 DEF Follows, OnList
<1>6. LoopTypes'
  BY <1>1, <1>5, LinkedParts DEF LoopTypes
<1>7. Owned' /\ Alone'
  BY <1>1 DEF Owned, Alone
<1>8. Backs'
  BY <1>1, <1>2 DEF Backs, Mending
<1>9. \A u \in Threads : u # t => Busy(r, u)'
  <2>1. \A u \in Threads : u # t => loops_at'[u] = "idle"
    BY <1>1 DEF Alone
  <2> QED BY <2>1 DEF Busy
<1>10. Busy(r, t)'
  <2>1. cur'[t] = after[cur[t]]
    BY <1>1 DEF LoopTypes
  <2>2. CASE loops_at[t] = "new"
    BY <1>1, <1>2, <1>5, <2>1, <2>2 DEF Busy
  <2>3. CASE loops_at[t] = "loop"
    <3>1. loop[t] \in Linked /\ r[cur[t]] <= r[loop[t]] /\ loop[t] # None
      BY <2>3, LinkedParts DEF Busy
    <3>2. cur[t] # loop[t]
      BY <1>1, <3>1 DEF Owned
    <3>3. r[cur[t]] \in Int /\ r[loop[t]] \in Int
      BY <1>3, <3>1 DEF Ranked, Linked
    <3>4. r[cur[t]] < r[loop[t]]
      BY <1>3, <3>1, <3>2, <3>3 DEF Ranked
    <3>5. after[cur[t]] \in Linked /\ r[after[cur[t]]] <= r[loop[t]]
      BY <1>1, <1>4, <3>1, <3>3, <3>4 DEF Follows, Rank
    <3> QED BY <1>1, <1>2, <2>1, <2>3, <3>1, <3>5 DEF Busy
  <2> QED BY <1>1, <2>2, <2>3
<1> QED BY <1>1, <1>2, <1>6, <1>7, <1>8, <1>9, <1>10

(* It ends at the loop the thread already had.                             *)
LEMMA LoopFound ==
  ASSUME NEW CONSTANT r, NEW CONSTANT m, Orderly(r, m), NEW t \in Threads, TimerList!Found(t)
  PROVE  Orderly(r, m)'
<1> USE DEF Orderly
<1>1. /\ UNCHANGED <<after, before, pid, cur, ends, overlapped, failed>>
      /\ loops_at' = [loops_at EXCEPT ![t] = "idle"]
      /\ loop' = [loop EXCEPT ![t] = cur[t]]
      /\ loops_at[t] \in {"new", "loop"}
      /\ cur[t] # Head_ /\ pid[cur[t]] = t
  BY DEF TimerList!Found, TimerList!Finding, TimerList!cells
<1>2. loop' = loop
  <2>1. cur[t] \in Linked
    BY <1>1 DEF Busy, OnList
  <2>2. loop[t] = cur[t]
    BY <1>1, <2>1, LinkedParts
  <2> QED BY <1>1, <2>2 DEF LoopTypes
<1>3. Linked' = Linked /\ OnList' = OnList /\ Ranked(r, m)'
  BY <1>1, <1>2, ListSame
<1>4. \A u \in Threads : loops_at[u] # "idle" => u = t
  BY <1>1 DEF Alone
<1>5. \A u \in Threads : loops_at'[u] = "idle"
  BY <1>1, <1>4 DEF LoopTypes
<1>6. LoopTypes'
  BY <1>1, <1>2 DEF LoopTypes
<1>7. Owned'
  BY <1>1, <1>2 DEF Owned
<1>8. Alone' /\ \A u \in Threads : Busy(r, u)'
  BY <1>5 DEF Alone, Busy
<1>9. Backs'
  <2>1. \A c : ~Mending(c)
    BY <1>1, <1>4 DEF Mending
  <2> QED BY <1>1, <1>3, <2>1 DEF Backs
<1> QED BY <1>1, <1>3, <1>6, <1>7, <1>8, <1>9

(* The walk never meets a freed loop, nor, for timer_loop(), the end.      *)
LEMMA LoopNeverFails ==
  ASSUME NEW CONSTANT r, NEW CONSTANT m, Orderly(r, m), NEW t \in Threads, TimerList!Fails(t)
  PROVE  FALSE
<1> USE DEF Orderly
<1>1. /\ loops_at[t] \in {"new", "loop"}
      /\ IF cur[t] = Head_ THEN loops_at[t] = "loop" ELSE pid[cur[t]] = None
  BY DEF TimerList!Fails, TimerList!Finding
<1>2. CASE cur[t] = Head_
  BY <1>1, <1>2, LinkedParts DEF Busy
<1>3. CASE cur[t] # Head_
  <2>1. cur[t] \in Linked
    BY <1>1, <1>3 DEF Busy, OnList
  <2> QED BY <1>1, <1>3, <2>1, LinkedParts
<1> QED BY <1>2, <1>3

(* timer_loop_new() makes a loop and list_add() looks at the head.         *)
LEMMA LoopMade ==
  ASSUME NEW CONSTANT r, NEW CONSTANT m, Orderly(r, m), NEW t \in Threads, NEW l \in Loops,
         TimerList!NotFound(t, l)
  PROVE  Orderly(r, m)'
<1> USE DEF Orderly
<1>1. /\ UNCHANGED <<loop, overlapped, failed>>
      /\ loops_at[t] = "new" /\ loops_at' = [loops_at EXCEPT ![t] = "add1"]
      /\ pid[l] = None /\ pid' = [pid EXCEPT ![l] = t]
      /\ after' = [after EXCEPT ![l] = l] /\ before' = [before EXCEPT ![l] = l]
      /\ cur' = [cur EXCEPT ![t] = l]
      /\ ends' = [ends EXCEPT ![t] = [prev |-> Head_, next |-> after[Head_]]]
  BY DEF TimerList!NotFound, TimerList!Goto
<1>2. l \notin OnList /\ Head_ \in TimerList!Cells /\ l \in TimerList!Cells
  <2>1. l \notin Linked
    BY <1>1, LinkedParts
  <2> QED BY <2>1, LinkedParts DEF OnList, TimerList!Cells
<1>3. \A c \in OnList : after'[c] = after[c] /\ before'[c] = before[c]
  BY <1>1, <1>2, LinkedParts DEF LoopTypes
<1>4. Linked' = Linked /\ OnList' = OnList
  BY <1>1 DEF Linked, OnList
<1>5. Ranked(r, m)'
  <2>1. \A c, d : Follows(r, m, c, d)' <=> Follows(r, m, c, d)
    BY <1>4 DEF Follows, Rank
  <2> QED BY <1>3, <1>4, <2>1 DEF Ranked
<1>6. after[Head_] \in OnList /\ after[Head_] \in TimerList!Cells
  BY <1>2 DEF Ranked, Follows, OnList, LoopTypes
<1>7. LoopTypes'
  BY <1>1, <1>2, <1>6 DEF LoopTypes
<1>8. Owned'
  BY <1>1, <1>2, LinkedParts DEF Owned, OnList, LoopTypes
<1>9. \A u \in Threads : u # t => loops_at[u] = "idle" /\ loops_at'[u] = "idle"
  BY <1>1 DEF Alone, LoopTypes
<1>10. Alone'
  BY <1>9 DEF Alone
<1>11. Backs'
  <2>1. \A c : ~Mending(c)
    BY <1>1, <1>9 DEF Mending
  <2> QED BY <1>3, <1>4, <2>1 DEF Backs
<1>12. \A u \in Threads : u # t => Busy(r, u)'
  BY <1>9 DEF Busy
<1>13. Busy(r, t)'
  <2>1. /\ loops_at'[t] = "add1" /\ cur'[t] = l /\ pid'[l] = t
        /\ ends'[t].prev = Head_ /\ ends'[t].next = after[Head_]
    BY <1>1 DEF LoopTypes
  <2>2. loop[t] = None
    BY <1>1 DEF Busy
  <2>3. after'[Head_] = after[Head_]
    BY <1>3 DEF OnList
  <2> QED BY <1>1, <2>1, <2>2, <2>3 DEF Busy
<1> QED BY <1>1, <1>5, <1>7, <1>8, <1>10, <1>11, <1>12, <1>13

(* The first stores of __list_add() and __list_del() into a prev pointer.  *)
LEMMA LoopAdd1 ==
  ASSUME NEW CONSTANT r, NEW CONSTANT m, Orderly(r, m), NEW t \in Threads, TimerList!Add1(t)
  PROVE  Orderly(r, m)'
<1> USE DEF Orderly
<1>1. /\ UNCHANGED <<after, pid, loop, cur, ends, overlapped, failed>>
      /\ loops_at[t] = "add1" /\ loops_at' = [loops_at EXCEPT ![t] = "add2"]
      /\ before' = [before EXCEPT ![ends[t].next] = cur[t]]
  BY DEF TimerList!Add1, TimerList!Goto
<1>2. /\ loop[t] = None /\ cur[t] \in Loops /\ pid[cur[t]] = t
      /\ ends[t].prev = Head_ /\ ends[t].next = after[Head_]
  BY <1>1 DEF Busy
<1>3. Linked' = Linked /\ OnList' = OnList /\ Ranked(r, m)'
  BY <1>1, ListSame
<1>4. ends[t].next \in TimerList!Cells /\ cur[t] \in TimerList!Cells
  BY <1>2 DEF LoopTypes, TimerList!Cells
<1>5. LoopTypes'
  BY <1>1, <1>4 DEF LoopTypes
<1>6. Owned'
  BY <1>1 DEF Owned
<1>7. \A u \in Threads : u # t => loops_at[u] = "idle" /\ loops_at'[u] = "idle"
  BY <1>1 DEF Alone, LoopTypes
<1>8. Alone' /\ \A u \in Threads : u # t => Busy(r, u)'
  BY <1>7 DEF Alone, Busy
<1>9. loops_at'[t] = "add2" /\ before'[ends[t].next] = cur[t]
  BY <1>1, <1>4 DEF LoopTypes
<1>10. Backs'
  <2>1. Mending(ends[t].next)'
    BY <1>1, <1>9 DEF Mending
  <2>2. \A c : ~Mending(c)
    BY <1>1, <1>7 DEF Mending
  <2>3. \A c \in OnList : c # ends[t].next => before'[c] = before[c]
    BY <1>1, LinkedParts DEF LoopTypes
  <2> QED BY <1>1, <1>3, <2>1, <2>2, <2>3 DEF Backs
<1>11. Busy(r, t)'
  BY <1>1, <1>2, <1>9 DEF Busy
<1> QED BY <1>1, <1>3, <1>5, <1>6, <1>8, <1>10, <1>11

LEMMA LoopDel1 ==
  ASSUME NEW CONSTANT r, NEW CONSTANT m, Orderly(r, m), NEW t \in Threads, TimerList!Del1(t)
  PROVE  Orderly(r, m)'
<1> USE DEF Orderly
<1>1. /\ UNCHANGED <<after, pid, loop, cur, ends, overlapped, failed>>
      /\ loops_at[t] = "del1" /\ loops_at' = [loops_at EXCEPT ![t] = "del2"]
      /\ before' = [before EXCEPT ![ends[t].next] = ends[t].prev]
  BY DEF TimerList!Del1, TimerList!Goto
<1>2. /\ loop[t] # None /\ ends[t].prev \in OnList
      /\ after[ends[t].prev] = loop[t] /\ ends[t].next = after[loop[t]]
  BY <1>1 DEF Busy
<1>3. Linked' = Linked /\ OnList' = OnList /\ Ranked(r, m)'
  BY <1>1, ListSame
<1>4. ends[t].next \in TimerList!Cells /\ ends[t].prev \in TimerList!Cells
  BY <1>2, LinkedParts DEF LoopTypes, TimerList!Cells
<1>5. LoopTypes'
  BY <1>1, <1>4 DEF LoopTypes
<1>6. Owned'
  BY <1>1 DEF Owned
<1>7. \A u \in Threads : u # t => loops_at[u] = "idle" /\ loops_at'[u] = "idle"
  BY <1>1 DEF Alone, LoopTypes
<1>8. Alone' /\ \A u \in Threads : u # t => Busy(r, u)'
  BY <1>7 DEF Alone, Busy
<1>9. loops_at'[t] = "del2" /\ before'[ends[t].next] = ends[t].prev
  BY <1>1, <1>4 DEF LoopTypes
<1>10. Backs'
  <2>1. Mending(ends[t].next)'
    BY <1>1, <1>9 DEF Mending
  <2>2. \A c : ~Mending(c)
    BY <1>1, <1>7 DEF Mending
  <2>3. \A c \in OnList : c # ends[t].next => before'[c] = before[c]
    BY <1>1, LinkedParts DEF LoopTypes
  <2> QED BY <1>1, <1>3, <2>1, <2>2, <2>3 DEF Backs
<1>11. Busy(r, t)'
  BY <1>1, <1>2, <1>3, <1>9 DEF Busy
<1> QED BY <1>1, <1>3, <1>5, <1>6, <1>8, <1>10, <1>11

(* The new loop points into the list.                                      *)
LEMMA LoopAdd2 ==
  ASSUME NEW CONSTANT r, NEW CONSTANT m, Orderly(r, m), NEW t \in Threads, TimerList!Add2(t)
  PROVE  Orderly(r, m)'
<1> USE DEF Orderly
<1>1. /\ UNCHANGED <<pid, loop, cur, ends, overlapped, failed>>
      /\ loops_at[t] = "add2" /\ loops_at' = [loops_at EXCEPT ![t] = "add3"]
      /\ after' = [after EXCEPT ![cur[t]] = ends[t].next]
      /\ before' = [before EXCEPT ![cur[t]] = ends[t].prev]
  BY DEF TimerList!Add2, TimerList!Goto
<1>2. /\ loop[t] = None /\ cur[t] \in Loops /\ pid[cur[t]] = t
      /\ ends[t].prev = Head_ /\ ends[t].next = after[Head_]
      /\ before[ends[t].next] = cur[t]
  BY <1>1 DEF Busy
<1>3. Linked' = Linked /\ OnList' = OnList
  BY <1>1 DEF Linked, OnList
<1>4. cur[t] \notin OnList /\ Head_ \in OnList
  <2>1. cur[t] \notin Linked
    BY <1>2, LinkedParts
  <2> QED BY <1>2, <2>1, LinkedParts DEF OnList
<1>5. /\ ends[t].next \in OnList /\ ends[t].next \in TimerList!Cells
      /\ Head_ \in TimerList!Cells /\ cur[t] \in TimerList!Cells
  BY <1>2 DEF Ranked, Follows, OnList, LoopTypes, TimerList!Cells
<1>6. \A c \in OnList : after'[c] = after[c] /\ before'[c] = before[c]
  BY <1>1, <1>4, LinkedParts DEF LoopTypes
<1>7. Ranked(r, m)'
  <2>1. \A c, d : Follows(r, m, c, d)' <=> Follows(r, m, c, d)
    BY <1>3 DEF Follows, Rank
  <2> QED BY <1>3, <1>6, <2>1 DEF Ranked
<1>8. LoopTypes'
  BY <1>1, <1>2, <1>5 DEF LoopTypes
<1>9. Owned'
  BY <1>1 DEF Owned
<1>10. \A u \in Threads : u # t => loops_at[u] = "idle" /\ loops_at'[u] = "idle"
  BY <1>1 DEF Alone, LoopTypes
<1>11. Alone' /\ \A u \in Threads : u # t => Busy(r, u)'
  BY <1>10 DEF Alone, Busy
<1>12. /\ loops_at'[t] = "add3" /\ after'[cur[t]] = ends[t].next
       /\ before'[cur[t]] = Head_
  BY <1>1, <1>2, <1>5 DEF LoopTypes
<1>13. Backs'
  <2>1. \A c : Mending(c) => Mending(c)'
    BY <1>1, <1>10, <1>12 DEF Mending
  <2> QED BY <1>3, <1>6, <2>1 DEF Backs
<1>14. Busy(r, t)'
  <2>1. after'[Head_] = after[Head_] /\ before'[ends[t].next] = cur[t]
    BY <1>2, <1>4, <1>5, <1>6
  <2> QED BY <1>1, <1>2, <1>12, <2>1 DEF Busy
<1> QED BY <1>1, <1>7, <1>8, <1>9, <1>11, <1>13, <1>14

(* The head points at the new loop, which ranks below all others.          *)
LEMMA LoopAdd3 ==
  ASSUME NEW CONSTANT r, NEW CONSTANT m, Orderly(r, m), NEW t \in Threads, TimerList!Add3(t),
         NEW CONSTANT l, l = cur[t], NEW CONSTANT q, q = [r EXCEPT ![l] = m],
         NEW CONSTANT k, k = m - 1
  PROVE  Orderly(q, k)'
<1> USE DEF Orderly
<1>1. /\ UNCHANGED <<before, pid, cur, ends, overlapped, failed>>
      /\ loops_at[t] = "add3" /\ loops_at' = [loops_at EXCEPT ![t] = "idle"]
      /\ after' = [after EXCEPT ![ends[t].prev] = l]
      /\ loop' = [loop EXCEPT ![t] = l]
  BY DEF TimerList!Add3, TimerList!Goto
<1>2. /\ loop[t] = None /\ l \in Loops /\ pid[l] = t
      /\ ends[t].prev = Head_ /\ ends[t].next = after[Head_]
      /\ before[ends[t].next] = l /\ after[l] = ends[t].next /\ before[l] = Head_
  BY <1>1 DEF Busy
<1>3. l \notin Linked /\ l # Head_ /\ l # None /\ Head_ \notin Linked
  BY <1>2, LinkedParts
<1>4. Linked' = Linked \cup {l}
  <2>1. \A u \in Threads : loop'[u] = IF u = t THEN l ELSE loop[u]
    BY <1>1 DEF LoopTypes
  <2> QED BY <1>2, <2>1, LinkedParts DEF Linked
<1>5. OnList' = OnList \cup {l}
  BY <1>4 DEF OnList
<1>6. /\ q \in [Loops -> Int] /\ k \in Int /\ m \in Int /\ q[l] = m /\ k < m
      /\ \A c \in Linked : q[c] = r[c] /\ r[c] \in Int /\ m < r[c]
  BY <1>2, <1>3 DEF Ranked, Linked
<1>7. /\ after'[Head_] = l /\ after'[l] = after[Head_]
      /\ \A c \in Linked : after'[c] = after[c]
      /\ Head_ \in TimerList!Cells /\ l \in TimerList!Cells
  BY <1>1, <1>2, <1>3, LinkedParts DEF LoopTypes, OnList, TimerList!Cells
<1>8. Ranked(q, k)'
  <2>1. ASSUME NEW c \in OnList' PROVE Follows(q, k, c, after[c])'
    <3>1. CASE c = Head_
      <4>1. Rank(q, k, c) = k
        BY <3>1 DEF Rank
      <4> QED BY <1>3, <1>4, <1>6, <1>7, <3>1, <4>1 DEF Follows, Rank
    <3>2. CASE c = l
      <4>1. Follows(r, m, Head_, after[Head_])
        BY DEF Ranked, OnList
      <4>2. Rank(q, k, l) = m /\ Rank(r, m, Head_) = m
        BY <1>3, <1>6 DEF Rank
      <4>3. CASE after[Head_] = Head_
        <5>1. \A e \in Linked : r[e] <= m
          BY <4>1, <4>2, <4>3 DEF Follows
        <5>2. \A e \in Linked' : q[e] <= m
          BY <1>4, <1>6, <5>1
        <5> QED BY <1>7, <3>2, <4>2, <4>3, <5>2 DEF Follows
      <4>4. CASE after[Head_] # Head_
        <5>1. /\ after[Head_] \in Linked /\ m < r[after[Head_]]
              /\ \A e \in Linked : m < r[e] => r[after[Head_]] <= r[e]
          BY <4>1, <4>2, <4>4 DEF Follows
        <5>2. after[Head_] \in Linked' /\ m < q[after[Head_]]
          BY <1>4, <1>6, <5>1
        <5>3. \A e \in Linked' : m < q[e] => q[after[Head_]] <= q[e]
          BY <1>4, <1>6, <5>1
        <5> QED BY <1>7, <3>2, <4>2, <4>4, <5>2, <5>3 DEF Follows
      <4> QED BY <4>3, <4>4
    <3>3. CASE c \in Linked
      <4>1. Follows(r, m, c, after[c]) /\ c # Head_
        BY <1>3, <3>3 DEF Ranked, OnList
      <4>2. Rank(q, k, c) = r[c] /\ Rank(r, m, c) = r[c] /\ r[c] \in Int /\ m < r[c]
        BY <1>6, <3>3, <4>1 DEF Rank
      <4>3. CASE after[c] = Head_
        <5>1. \A e \in Linked : r[e] <= r[c]
          BY <4>1, <4>2, <4>3 DEF Follows
        <5>2. \A e \in Linked' : q[e] <= r[c]
          BY <1>4, <1>6, <4>2, <5>1
        <5> QED BY <1>7, <3>3, <4>2, <4>3, <5>2 DEF Follows, Rank
      <4>4. CASE after[c] # Head_
        <5>1. /\ after[c] \in Linked /\ r[c] < r[after[c]]
              /\ \A e \in Linked : r[c] < r[e] => r[after[c]] <= r[e]
          BY <4>1, <4>2, <4>4 DEF Follows
        <5>2. after[c] \in Linked' /\ r[c] < q[after[c]]
          BY <1>4, <1>6, <5>1
        <5>3. \A e \in Linked' : r[c] < q[e] => q[after[c]] <= q[e]
          BY <1>4, <1>6, <4>2, <5>1
        <5> QED BY <1>7, <3>3, <4>2, <4>4, <5>2, <5>3 DEF Follows
      <4> QED BY <4>3, <4>4
    <3> QED BY <1>5, <3>1, <3>2, <3>3 DEF OnList
  <2>2. \A c \in Linked' : k < q[c]
    BY <1>4, <1>6
  <2>3. \A c, d \in Linked' : q[c] = q[d] => c = d
    <3>1. \A c, d \in Linked : r[c] = r[d] => c = d
      BY DEF Ranked
    <3> QED BY <1>4, <1>6, <3>1
  <2> QED BY <1>6, <2>1, <2>2, <2>3 DEF Ranked
<1>9. LoopTypes'
  BY <1>1, <1>2, <1>7 DEF LoopTypes
<1>10. Owned'
  BY <1>1, <1>2 DEF Owned, LoopTypes
<1>11. \A u \in Threads : u # t => loops_at[u] = "idle"
  BY <1>1 DEF Alone
<1>12. \A u \in Threads : loops_at'[u] = "idle"
  BY <1>1, <1>11 DEF LoopTypes
<1>13. Alone' /\ \A u \in Threads : Busy(q, u)'
  BY <1>12 DEF Alone, Busy
<1>14. Backs'
  <2> SUFFICES ASSUME NEW c \in OnList'
               PROVE  before'[c] \in OnList' /\ after'[before'[c]] = c
    BY DEF Backs
  <2>1. CASE c = l
    BY <1>1, <1>2, <1>5, <1>7, <2>1 DEF OnList
  <2>2. CASE c = ends[t].next
    BY <1>1, <1>2, <1>5, <1>7, <2>2
  <2>3. CASE c # l /\ c # ends[t].next
    <3>1. c \in OnList /\ ~Mending(c)
      BY <1>5, <1>11, <2>3 DEF Mending
    <3>2. before[c] \in OnList /\ after[before[c]] = c
      BY <3>1 DEF Backs
    <3>3. before[c] # Head_
      BY <1>2, <2>3, <3>2
    <3> QED BY <1>1, <1>5, <1>7, <3>2, <3>3 DEF OnList
  <2> QED BY <2>1, <2>2, <2>3
<1> QED BY <1>1, <1>8, <1>9, <1>10, <1>13, <1>14

(* timer_destroy() takes the neighbours of the thread's loop.              *)
LEMMA LoopDestroyBegins ==
  ASSUME NEW CONSTANT r, NEW CONSTANT m, Orderly(r, m), ~overlapped', NEW t \in Threads,
         TimerList!timer_destroy(t)
  PROVE  Orderly(r, m)'
<1> USE DEF Orderly
<1>1. /\ UNCHANGED <<after, before, pid, loop, cur, failed>>
      /\ \A u \in Threads : loops_at[u] = "idle"
      /\ loop[t] # None /\ loops_at' = [loops_at EXCEPT ![t] = "del1"]
      /\ ends' = [ends EXCEPT ![t] = [prev |-> before[loop[t]], next |-> after[loop[t]]]]
  BY DEF TimerList!timer_destroy, TimerList!Enter, TimerList!Goto, TimerList!cells
<1>2. Linked' = Linked /\ OnList' = OnList /\ Ranked(r, m)'
  BY <1>1, ListSame
<1>3. loop[t] \in OnList /\ loop[t] \in TimerList!Cells
  BY <1>1, LinkedParts DEF OnList
<1>4. \A c : ~Mending(c)
  BY <1>1 DEF Mending
<1>5. before[loop[t]] \in OnList /\ after[before[loop[t]]] = loop[t]
  BY <1>3, <1>4 DEF Backs
<1>6. LoopTypes'
  <2>1. before[loop[t]] \in TimerList!Cells /\ after[loop[t]] \in TimerList!Cells
    BY <1>3 DEF LoopTypes
  <2> QED BY <1>1, <2>1 DEF LoopTypes
<1>7. Owned'
  BY <1>1 DEF Owned
<1>8. \A u \in Threads : u # t => loops_at'[u] = "idle"
  BY <1>1 DEF LoopTypes
<1>9. Alone' /\ \A u \in Threads : u # t => Busy(r, u)'
  BY <1>8 DEF Alone, Busy
<1>10. Backs'
  BY <1>1, <1>2, <1>4 DEF Backs
<1>11. Busy(r, t)'
  <2>1. /\ loops_at'[t] = "del1"
        /\ ends'[t].prev = before[loop[t]] /\ ends'[t].next = after[loop[t]]
    BY <1>1 DEF LoopTypes
  <2> QED BY <1>1, <1>2, <1>5, <2>1 DEF Busy
<1> QED BY <1>1, <1>2, <1>6, <1>7, <1>9, <1>10, <1>11

(* The loop before it points past the loop of the thread, which is freed.  *)
LEMMA LoopDel2 ==
  ASSUME NEW CONSTANT r, NEW CONSTANT m, Orderly(r, m), NEW t \in Threads, TimerList!Del2(t),
         NEW CONSTANT l, l = loop[t], NEW CONSTANT p, p = ends[t].prev,
         NEW CONSTANT x, x = ends[t].next
  PROVE  Orderly(r, m)'
<1> USE DEF Orderly
<1>1. /\ UNCHANGED <<before, cur, ends, overlapped, failed>>
      /\ loops_at[t] = "del2" /\ loops_at' = [loops_at EXCEPT ![t] = "idle"]
      /\ after' = [after EXCEPT ![p] = x]
      /\ pid' = [pid EXCEPT ![l] = None] /\ loop' = [loop EXCEPT ![t] = None]
  BY DEF TimerList!Del2, TimerList!Goto
<1>2. l # None /\ p \in OnList /\ after[p] = l /\ x = after[l] /\ before[x] = p
  BY <1>1 DEF Busy
<1>3. l \in Linked /\ l \in Loops /\ l # Head_ /\ Head_ \notin Linked /\ pid[l] = t
  BY <1>2, LinkedParts DEF Owned
<1>4. Linked' = Linked \ {l} /\ OnList' = OnList \ {l}
  <2>1. \A u \in Threads : loop'[u] = IF u = t THEN None ELSE loop[u]
    BY <1>1 DEF LoopTypes
  <2>2. \A u \in Threads : loop[u] = l => u = t
    BY <1>2, <1>3 DEF Owned
  <2>3. Linked' = Linked \ {l}
    BY <1>3, <2>1, <2>2, LinkedParts DEF Linked
  <2> QED BY <1>3, <2>3 DEF OnList
<1>5. /\ p \in TimerList!Cells /\ x \in TimerList!Cells
      /\ after'[p] = x /\ \A c \in OnList : c # p => after'[c] = after[c]
  BY <1>1, <1>2, <1>3, LinkedParts DEF LoopTypes, OnList
<1>6. /\ m \in Int /\ \A c \in Linked : r[c] \in Int /\ m < r[c]
      /\ \A c, d \in Linked : r[c] = r[d] => c = d
  BY DEF Ranked, Linked
<1>7. /\ \A c \in OnList : Rank(r, m, c) \in Int
      /\ \A c, d \in OnList : Rank(r, m, c) = Rank(r, m, d) => c = d
  BY <1>3, <1>6 DEF Rank, OnList
<1>8. \A c \in OnList : Follows(r, m, c, after[c])
  BY DEF Ranked
<1>9. /\ Rank(r, m, p) < r[l]
      /\ \A e \in Linked : Rank(r, m, p) < r[e] => r[l] <= r[e]
  <2>1. Follows(r, m, p, l)
    BY <1>2, <1>8
  <2> QED BY <1>3, <2>1 DEF Follows
<1>10. Follows(r, m, l, x) /\ Rank(r, m, l) = r[l]
  BY <1>2, <1>3, <1>8 DEF OnList, Rank
<1>11. p # l /\ x # l
  <2>1. p # l
    BY <1>3, <1>6, <1>9, <1>10
  <2>2. x # l
    BY <1>3, <1>6, <1>10 DEF Follows
  <2> QED BY <2>1, <2>2
<1>12. \A c \in OnList : after[c] = l => c = p
  <2> SUFFICES ASSUME NEW c \in OnList, after[c] = l, c # p PROVE FALSE
    OBVIOUS
  <2>1. /\ Rank(r, m, c) < r[l]
        /\ \A e \in Linked : Rank(r, m, c) < r[e] => r[l] <= r[e]
    <3>1. Follows(r, m, c, l)
      BY <1>8
    <3> QED BY <1>3, <3>1 DEF Follows
  <2>2. Rank(r, m, c) \in Int /\ Rank(r, m, p) \in Int /\ Rank(r, m, c) # Rank(r, m, p)
    BY <1>2, <1>7
  <2>3. CASE Rank(r, m, c) < Rank(r, m, p)
    <3>1. p \in Linked /\ Rank(r, m, p) = r[p]
      <4>1. p # Head_
        <5>1. c = Head_ \/ m < Rank(r, m, c)
          BY <1>6 DEF OnList, Rank
        <5> QED BY <1>6, <2>2, <2>3, <5>1 DEF Rank
      <4> QED BY <1>2, <4>1 DEF OnList, Rank
    <3>2. r[l] <= r[p]
      BY <2>1, <2>3, <3>1
    <3> QED BY <1>3, <1>6, <1>9, <3>1, <3>2
  <2>4. CASE Rank(r, m, p) < Rank(r, m, c)
    <3>1. c \in Linked /\ Rank(r, m, c) = r[c]
      <4>1. c # Head_
        <5>1. p = Head_ \/ m < Rank(r, m, p)
          BY <1>2, <1>6 DEF OnList, Rank
        <5> QED BY <1>6, <2>2, <2>4, <5>1 DEF Rank
      <4> QED BY <4>1 DEF OnList, Rank
    <3>2. r[l] <= r[c]
      BY <1>9, <2>4, <3>1
    <3> QED BY <1>3, <1>6, <2>1, <3>1, <3>2
  <2> QED BY <2>2, <2>3, <2>4
<1>13. Ranked(r, m)'
  <2>1. ASSUME NEW c \in OnList' PROVE Follows(r, m, c, after[c])'
    <3>1. c \in OnList /\ c # l /\ Rank(r, m, c) \in Int
      BY <1>4, <1>7
    <3>2. CASE c = p /\ x = Head_
      <4>1. \A e \in Linked : r[e] <= r[l]
        BY <1>10, <3>2 DEF Follows
      <4>2. \A e \in Linked' : r[e] <= Rank(r, m, p)
        BY <1>3, <1>4, <1>6, <1>9, <3>1, <3>2, <4>1
      <4> QED BY <1>5, <3>2, <4>2 DEF Follows
    <3>3. CASE c = p /\ x # Head_
      <4>1. x \in Linked /\ r[l] < r[x] /\ \A e \in Linked : r[l] < r[e] => r[x] <= r[e]
        BY <1>10, <3>3 DEF Follows
      <4>2. x \in Linked' /\ Rank(r, m, p) < r[x]
        BY <1>3, <1>4, <1>6, <1>9, <1>11, <3>1, <3>3, <4>1
      <4>3. \A e \in Linked' : Rank(r, m, p) < r[e] => r[x] <= r[e]
        <5> TAKE e \in Linked'
        <5> HAVE Rank(r, m, p) < r[e]
        <5>1. e \in Linked /\ e # l /\ r[l] <= r[e]
          BY <1>4, <1>9
        <5>2. r[l] < r[e]
          BY <1>3, <1>6, <5>1
        <5> QED BY <4>1, <5>1, <5>2
      <4> QED BY <1>5, <3>3, <4>2, <4>3 DEF Follows
    <3>4. CASE c # p
      <4>1. after'[c] = after[c] /\ after[c] # l /\ Follows(r, m, c, after[c])
        BY <1>5, <1>8, <1>12, <3>1, <3>4
      <4> QED BY <1>4, <4>1 DEF Follows
    <3> QED BY <3>2, <3>3, <3>4
  <2>2. r \in [Loops -> Int]
    BY DEF Ranked
  <2> QED BY <1>4, <1>6, <2>1, <2>2 DEF Ranked
<1>14. LoopTypes'
  BY <1>1, <1>5 DEF LoopTypes
<1>15. Owned'
  <2> SUFFICES ASSUME NEW u \in Threads, loop'[u] # None PROVE pid'[loop'[u]] = u
    BY DEF Owned
  <2>1. u # t /\ loop'[u] = loop[u]
    BY <1>1 DEF LoopTypes
  <2>2. pid[loop[u]] = u /\ loop[u] \in Loops
    BY <2>1, LinkedParts DEF Owned
  <2>3. loop[u] # l
    BY <1>3, <2>1, <2>2
  <2> QED BY <1>1, <2>1, <2>2, <2>3 DEF LoopTypes
<1>16. \A u \in Threads : u # t => loops_at[u] = "idle"
  BY <1>1 DEF Alone
<1>17. \A u \in Threads : loops_at'[u] = "idle"
  BY <1>1, <1>16 DEF LoopTypes
<1>18. Alone' /\ \A u \in Threads : Busy(r, u)'
  BY <1>17 DEF Alone, Busy
<1>19. Backs'
  <2> SUFFICES ASSUME NEW c \in OnList'
               PROVE  before'[c] \in OnList' /\ after'[before'[c]] = c
    BY DEF Backs
  <2>1. CASE c = x
    BY <1>1, <1>2, <1>4, <1>5, <1>11, <2>1
  <2>2. CASE c # x
    <3>1. c \in OnList /\ c # l /\ ~Mending(c)
      BY <1>4, <1>16, <2>2 DEF Mending
    <3>2. before[c] \in OnList /\ after[before[c]] = c
      BY <3>1 DEF Backs
    <3>3. before[c] # l /\ before[c] # p
      BY <1>2, <2>2, <3>1, <3>2
    <3> QED BY <1>1, <1>4, <1>5, <3>2, <3>3
  <2> QED BY <2>1, <2>2
<1> QED BY <1>1, <1>13, <1>14, <1>15, <1>18, <1>19

LEMMA LoopInit == TimerList!Init => LoopInv
<1> SUFFICES ASSUME TimerList!Init PROVE Orderly([l \in Loops |-> 0], 0)
  BY DEF LoopInv
<1> DEFINE r == [l \in Loops |-> 0]
<1>1. None \notin Loops /\ Head_ \in TimerList!Cells
  BY PartsAssumption DEF TimerList!LoopsAssumption, TimerList!Cells
<1>2. Linked = {} /\ OnList = {Head_}
  BY <1>1 DEF TimerList!Init, Linked, OnList
<1>3. Ranked(r, 0)
  BY <1>1, <1>2 DEF TimerList!Init, Ranked, Follows
<1>4. LoopTypes
  BY DEF TimerList!Init, LoopTypes, TimerList!NoEnds
<1>5. Owned /\ Alone /\ \A t \in Threads : Busy(r, t)
  BY DEF TimerList!Init, Owned, Alone, Busy
<1>6. Backs
  BY <1>1, <1>2 DEF TimerList!Init, Backs
<1> QED BY <1>3, <1>4, <1>5, <1>6 DEF TimerList!Init, Orderly

LEMMA LoopStep == LoopInv /\ [TimerList!Next]_(TimerList!vars) => LoopInv'
<1> SUFFICES ASSUME LoopInv, [TimerList!Next]_(TimerList!vars), ~overlapped' PROVE LoopInv'
  BY DEF LoopInv
<1>1. CASE UNCHANGED TimerList!vars
  <2> SUFFICES ASSUME NEW CONSTANT r, NEW CONSTANT m, Orderly(r, m) PROVE Orderly(r, m)'
    BY <1>1 DEF LoopInv, TimerList!vars
  <2>1. UNCHANGED <<after, before, pid, loops_at, loop, cur, ends, overlapped, failed>>
    BY <1>1 DEF TimerList!vars, TimerList!cells
  <2>2. Linked' = Linked /\ OnList' = OnList /\ Ranked(r, m)'
    BY <2>1, ListSame DEF Orderly
  <2> QED BY <2>1, <2>2 DEF Orderly, LoopTypes, Owned, Alone, Backs, Mending, Busy
<1>2. ASSUME NEW t \in Threads,
             \/ TimerList!timer_new(t) \/ TimerList!timer_loop(t) \/ TimerList!timer_destroy(t)
             \/ TimerList!FindNext(t) \/ TimerList!Found(t) \/ TimerList!Fails(t)
             \/ \E l \in Loops : TimerList!NotFound(t, l)
             \/ TimerList!Add1(t) \/ TimerList!Add2(t) \/ TimerList!Add3(t)
             \/ TimerList!Del1(t) \/ TimerList!Del2(t)
      PROVE  LoopInv'
  <2>1. ~overlapped
    BY <1>2 DEF TimerList!timer_new, TimerList!timer_loop, TimerList!FindBegin, TimerList!Enter,
         TimerList!timer_destroy, TimerList!FindNext, TimerList!Found, TimerList!Fails,
         TimerList!NotFound, TimerList!Add1, TimerList!Add2, TimerList!Add3,
         TimerList!Del1, TimerList!Del2
  <2>2. PICK r, m : Orderly(r, m)
    BY <2>1 DEF LoopInv
  <2>3. CASE TimerList!timer_new(t) \/ TimerList!timer_loop(t)
    BY <2>2, <2>3, LoopFindBegins DEF LoopInv
  <2>4. CASE TimerList!timer_destroy(t)
    BY <2>2, <2>4, LoopDestroyBegins DEF LoopInv
  <2>5. CASE TimerList!FindNext(t)
    BY <2>2, <2>5, LoopFindNext DEF LoopInv
  <2>6. CASE TimerList!Found(t)
    BY <2>2, <2>6, LoopFound DEF LoopInv
  <2>7. CASE TimerList!Fails(t)
    BY <2>2, <2>7, LoopNeverFails
  <2>8. CASE \E l \in Loops : TimerList!NotFound(t, l)
    BY <2>2, <2>8, LoopMade DEF LoopInv
  <2>9. CASE TimerList!Add1(t)
    BY <2>2, <2>9, LoopAdd1 DEF LoopInv
  <2>10. CASE TimerList!Add2(t)
    BY <2>2, <2>10, LoopAdd2 DEF LoopInv
  <2>11. CASE TimerList!Add3(t)
    <3>1. PICK l, q, k : l = cur[t] /\ q = [r EXCEPT ![l] = m] /\ k = m - 1
      OBVIOUS
    <3>2. Orderly(q, k)'
      BY <2>2, <2>11, <3>1, LoopAdd3
    <3> QED BY <3>2 DEF LoopInv
  <2>12. CASE TimerList!Del1(t)
    BY <2>2, <2>12, LoopDel1 DEF LoopInv
  <2>13. CASE TimerList!Del2(t)
    <3>1. PICK l, p, x : l = loop[t] /\ p = ends[t].prev /\ x = ends[t].next
      OBVIOUS
    <3>2. Orderly(r, m)'
      BY <2>2, <2>13, <3>1, LoopDel2
    <3> QED BY <3>2 DEF LoopInv
  <2> QED BY <1>2, <2>3, <2>4, <2>5, <2>6, <2>7, <2>8, <2>9, <2>10, <2>11, <2>12, <2>13
<1> QED BY <1>1, <1>2 DEF TimerList!Next

(* A thread with timers finds its timer loop, and no freed loop is used,   *)
(* however many threads come and go, unless two of them have been inside   *)
(* timer.c at the same time.                                               *)
THEOREM TimerLoopFound == SpecAll => []LoopFoundUnlessOverlapped
<1>1. TimerList!Init => LoopInv
  BY LoopInit
<1>2. LoopInv /\ [TimerList!Next]_(TimerList!vars) => LoopInv'
  BY LoopStep
<1>3. LoopInv => TimerList!FoundUnlessOverlapped
  BY DEF LoopInv, Orderly, TimerList!FoundUnlessOverlapped
<1>4. TimerList!Spec => []TimerList!FoundUnlessOverlapped
  BY <1>1, <1>2, <1>3, PTL DEF TimerList!Spec
<1> QED BY <1>4, LoopsPart, PTL DEF LoopFoundUnlessOverlapped

-----------------------------------------------------------------------------

LEMMA AtBufPart == SpecAll => Spec
<1>1. InitAll => Init
  BY DEF InitAll
<1>2. [NextAll]_all => [Next]_vars
  BY DEF NextAll, all, atbuf
<1> QED BY <1>1, <1>2, PTL DEF SpecAll, Spec

(* The states of the two buffers, the timers and the module loader have    *)
(* their types; the ring buffer's offsets always index its memory.         *)
THEOREM PartsTypeCorrect == SpecAll => []TypesOK
<1>1. Spec => []TypeOK
  BY BufferTypeCorrect
<1>2. Ring!Init => Ring!TypeOK
  BY RingInit
<1>3. Ring!TypeOK /\ [Ring!Next]_(Ring!vars) => Ring!TypeOK'
  BY RingStep
<1>4. Ring!Spec => []Ring!TypeOK
  BY <1>2, <1>3, PTL DEF Ring!Spec
<1>5. TimerLoop!Spec => []TimerLoop!TypeOK
  BY PartsAssumption, TimerLoop!TypeCorrect
<1>6. Loader!Spec => []Loader!TypeOK
  BY PartsAssumption, Loader!TypeCorrect
<1> QED BY <1>1, <1>4, <1>5, <1>6, AtBufPart, RingPart, TimerPart, LoaderPart, PTL DEF TypesOK

=============================================================================
