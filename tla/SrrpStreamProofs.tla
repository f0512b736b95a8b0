-------------------------- MODULE SrrpStreamProofs --------------------------
(***************************************************************************)
(* What parse_packet() cuts out of the stream, for any packets sent, any   *)
(* fragments and any timing.  The stream is described once by where each   *)
(* packet starts in it; after that a byte is a position in the stream, and *)
(* what the buffer and the line hold is a range of positions with at most  *)
(* one missing.                                                            *)
(***************************************************************************)
EXTENDS SrrpStream, ListLemmas, TLAPS

-----------------------------------------------------------------------------
(* Where the packets are in the stream.                                    *)

Written == [k \in 1..NumPackets |-> srrp_write(k)]

Sent == CHOOSE g : Joins(g, Written, NumPackets, Bytes)

Start(k) == Len(Sent[k - 1])

LEMMA WrittenParts ==
  ASSUME SrrpAssumption
  PROVE  /\ Written \in [1..NumPackets -> Seq(Bytes)]
         /\ \A k \in 1..NumPackets : /\ Len(srrp_write(k)) = Size[k] /\ Size[k] \in Nat /\ Size[k] >= 6
                                     /\ \A i \in 1..Size[k] : srrp_write(k)[i] = Byte(k, i)
<1>1. ASSUME NEW k \in 1..NumPackets
      PROVE  /\ Size[k] \in Nat /\ Size[k] >= 6
             /\ srrp_write(k) \in Seq(Bytes) /\ Len(srrp_write(k)) = Size[k]
             /\ \A i \in 1..Size[k] : srrp_write(k)[i] = Byte(k, i)
  <2>1. Size[k] \in Nat /\ Size[k] >= 6
    BY DEF SrrpAssumption
  <2>2. \A i \in 1..Size[k] : Byte(k, i) \in Bytes
    BY <2>1 DEF Byte, Bytes
  <2>3. srrp_write(k) \in [1..Size[k] -> Bytes]
    BY <2>2 DEF srrp_write
  <2>4. srrp_write(k) \in Seq(Bytes) /\ Len(srrp_write(k)) = Size[k]
    BY <2>1, <2>3, FunctionSeq
  <2>5. \A i \in 1..Size[k] : srrp_write(k)[i] = Byte(k, i)
    BY DEF srrp_write
  <2> QED BY <2>1, <2>4, <2>5
<1> QED BY <1>1 DEF Written

LEMMA SentJoins ==
  ASSUME SrrpAssumption
  PROVE  /\ NumPackets \in Nat \ {0}
         /\ Joins(Sent, Written, NumPackets, Bytes)
         /\ Stream = Sent[NumPackets]
<1>1. NumPackets \in Nat \ {0} /\ Written \in [1..NumPackets -> Seq(Bytes)]
  BY WrittenParts DEF SrrpAssumption
<1>2. \E g : Joins(g, Written, NumPackets, Bytes)
  BY <1>1, JoinsExist
<1>3. Joins(Sent, Written, NumPackets, Bytes)
  BY <1>2, Zenon DEF Sent
<1>4. FlattenSeq(Written) = Sent[NumPackets]
  BY <1>1, <1>3, FlattenIsJoin
<1> QED BY <1>1, <1>3, <1>4, Zenon DEF Stream, Written

(* Each packet has its place in the stream, after its predecessors, and    *)
(* there is nothing else in it.                                            *)
LEMMA StreamParts ==
  ASSUME SrrpAssumption
  PROVE  /\ Stream \in Seq(Bytes)
         /\ \A k \in 1..NumPackets :
              /\ Start(k) \in Nat /\ Size[k] \in Nat /\ Size[k] >= 6
              /\ Len(Sent[k]) = Start(k) + Size[k]
              /\ Start(k) + Size[k] <= Len(Stream)
              /\ \A i \in 1..Size[k] : Stream[Start(k) + i] = Byte(k, i)
         /\ \A k, h \in 1..NumPackets : k < h => Start(k) + Size[k] <= Start(h)
         /\ \A p \in 1..Len(Stream) :
              \E k \in 1..NumPackets : Start(k) < p /\ p <= Start(k) + Size[k]
<1> DEFINE N == NumPackets
<1>1. /\ N \in Nat \ {0} /\ Joins(Sent, Written, N, Bytes) /\ Stream = Sent[N]
      /\ Written \in [1..N -> Seq(Bytes)]
  BY SentJoins, WrittenParts
<1>2. \A m \in 0..N : Sent[m] \in Seq(Bytes) /\ Len(Sent[m]) \in Nat
  BY <1>1 DEF Joins
<1>3. Stream \in Seq(Bytes) /\ N \in 0..N
  BY <1>1, <1>2
<1>4. ASSUME NEW k \in 1..N
      PROVE  /\ Start(k) \in Nat /\ Size[k] \in Nat /\ Size[k] >= 6
             /\ Len(Sent[k]) = Start(k) + Size[k]
             /\ \A i \in 1..Size[k] : Sent[k][Start(k) + i] = Byte(k, i)
  <2> DEFINE a == Sent[k - 1]
             b == srrp_write(k)
  <2>1. k - 1 \in 0..N /\ k \in 0..N
    BY <1>1
  <2>2. Sent[k] = a \o b
    BY <1>1, Zenon DEF Joins, Links, Written
  <2>3. /\ a \in Seq(Bytes) /\ b \in Seq(Bytes) /\ Len(b) = Size[k]
        /\ Size[k] \in Nat /\ Size[k] >= 6 /\ Len(a) \in Nat
        /\ \A i \in 1..Size[k] : b[i] = Byte(k, i)
    BY <1>1, <1>2, <2>1, WrittenParts DEF Written
  <2>4. Start(k) = Len(a)
    BY Zenon DEF Start
  <2> HIDE DEF a, b
  <2>5. Len(a \o b) = Len(a) + Len(b) /\ \A i \in 1..Len(b) : (a \o b)[Len(a) + i] = b[i]
    <3>1. a \in Seq(Bytes) /\ b \in Seq(Bytes)
      BY <2>3
    <3> QED BY <3>1, ConcatParts, SMT
  <2> QED BY <2>2, <2>3, <2>4, <2>5
<1>5. ASSUME NEW k \in 1..N
      PROVE  /\ Start(k) + Size[k] <= Len(Stream)
             /\ \A i \in 1..Size[k] : Stream[Start(k) + i] = Byte(k, i)
  <2>1. k \in 0..N /\ k <= N
    BY <1>1
  <2>2. Len(Sent[k]) <= Len(Stream) /\ \A i \in 1..Len(Sent[k]) : Stream[i] = Sent[k][i]
    <3>1. Begins(Sent[k], Sent[N])
      BY <1>1, <1>3, <2>1, JoinsPrefix
    <3> QED BY <1>1, <3>1, Zenon DEF Begins
  <2>3. \A i \in 1..Size[k] : Start(k) + i \in 1..Len(Sent[k])
    BY <1>4, SMTT(30)
  <2> QED BY <1>4, <2>2, <2>3
<1>6. ASSUME NEW k \in 1..N, NEW h \in 1..N, k < h PROVE Start(k) + Size[k] <= Start(h)
  <2>1. k \in 0..N /\ h - 1 \in 0..N /\ k <= h - 1
    BY <1>1, <1>6
  <2>2. Len(Sent[k]) <= Len(Sent[h - 1])
    <3>1. Begins(Sent[k], Sent[h - 1])
      BY <1>1, <2>1, JoinsPrefix
    <3> QED BY <3>1 DEF Begins
  <2> QED BY <1>4, <2>2 DEF Start
<1>7. ASSUME NEW p \in 1..Len(Stream)
      PROVE  \E k \in 1..N : Start(k) < p /\ p <= Start(k) + Size[k]
  <2>1. \E k \in 1..N : Len(Sent[k - 1]) < p /\ p <= Len(Sent[k])
    BY <1>1, JoinsCover
  <2> QED BY <1>4, <2>1 DEF Start
<1> QED BY <1>3, <1>4, <1>5, <1>6, <1>7

(* A byte of the stream tells its position.                                *)
LEMMA PositionOf ==
  ASSUME SrrpAssumption, NEW p \in 1..Len(Stream)
  PROVE  /\ Stream[p].pac \in 1..NumPackets
         /\ Stream[p].pos \in 1..Size[Stream[p].pac]
         /\ p = Start(Stream[p].pac) + Stream[p].pos
<1>1. PICK k \in 1..NumPackets : Start(k) < p /\ p <= Start(k) + Size[k]
  BY StreamParts
<1>2. Start(k) \in Nat /\ Size[k] \in Nat /\ p \in Nat
  <2>1. Start(k) \in Nat /\ Size[k] \in Nat /\ Stream \in Seq(Bytes)
    BY StreamParts, Zenon
  <2> QED BY <2>1
<1>3. p - Start(k) \in 1..Size[k] /\ Start(k) + (p - Start(k)) = p
  BY <1>1, <1>2
<1>4. \A i \in 1..Size[k] : Stream[Start(k) + i] = Byte(k, i)
  BY StreamParts
<1>5. Stream[p] = Byte(k, p - Start(k))
  BY <1>3, <1>4
<1> QED BY <1>3, <1>5 DEF Byte

-----------------------------------------------------------------------------
(* The buffer and the line as one sequence.                                *)

LEMMA MinParts ==
  ASSUME NEW T, T \subseteq Nat, T # {}
  PROVE  Min(T) \in T /\ \A y \in T : Min(T) <= y
<1>1. \E x \in T : \A y \in T : x <= y
  BY LeastNat
<1> QED BY <1>1, Zenon DEF Min

(* Bytes taken off the front.                                              *)
LEMMA DropFront ==
  ASSUME NEW S, NEW a \in Seq(S), NEW b \in Seq(S), NEW e \in 0..Len(a)
  PROVE  LET u == SubSeq(a, e + 1, Len(a))
         IN /\ u \in Seq(S) /\ Len(u) = Len(a) - e
            /\ \A i \in 1..Len(u) : u[i] = a[i + e]
            /\ u \o b \in Seq(S) /\ Len(u \o b) = Len(a \o b) - e
            /\ \A i \in 1..Len(u \o b) : i + e \in 1..Len(a \o b) /\ (u \o b)[i] = (a \o b)[i + e]
<1> DEFINE u == SubSeq(a, e + 1, Len(a))
<1>0. Len(a) \in Nat /\ Len(b) \in Nat /\ e \in Nat /\ e <= Len(a)
  OBVIOUS
<1>1. /\ u \in Seq(S) /\ Len(u) = Len(a) - e
      /\ \A i \in 1..Len(u) : u[i] = a[i + e]
  BY <1>0
<1> HIDE DEF u
<1>2. /\ u \o b \in Seq(S) /\ Len(u \o b) = Len(u) + Len(b) /\ Len(a \o b) = Len(a) + Len(b)
      /\ \A i \in 1..Len(u) : (u \o b)[i] = u[i]
      /\ \A i \in 1..Len(b) : (u \o b)[Len(u) + i] = b[i]
      /\ \A i \in 1..Len(a) : (a \o b)[i] = a[i]
      /\ \A i \in 1..Len(b) : (a \o b)[Len(a) + i] = b[i]
  <2>1. u \in Seq(S)
    BY <1>1
  <2>2. /\ u \o b \in Seq(S) /\ Len(u \o b) = Len(u) + Len(b)
        /\ \A i \in 1..Len(u) : (u \o b)[i] = u[i]
        /\ \A i \in 1..Len(b) : (u \o b)[Len(u) + i] = b[i]
    BY <2>1, ConcatParts
  <2>3. /\ Len(a \o b) = Len(a) + Len(b)
        /\ \A i \in 1..Len(a) : (a \o b)[i] = a[i]
        /\ \A i \in 1..Len(b) : (a \o b)[Len(a) + i] = b[i]
    BY ConcatParts
  <2> QED BY <2>2, <2>3
<1>3. ASSUME NEW i \in 1..Len(u \o b)
      PROVE  i + e \in 1..Len(a \o b) /\ (u \o b)[i] = (a \o b)[i + e]
  <2>1. i \in Nat /\ i >= 1 /\ i <= (Len(a) - e) + Len(b) /\ i + e \in 1..Len(a \o b)
    BY <1>0, <1>1, <1>2
  <2>2. CASE i <= Len(a) - e
    <3>1. i \in 1..Len(u) /\ i + e \in 1..Len(a)
      BY <1>0, <1>1, <2>1, <2>2
    <3> QED BY <1>1, <1>2, <2>1, <3>1
  <2>3. CASE ~(i <= Len(a) - e)
    <3> DEFINE j == i - Len(u)
    <3>1. j \in 1..Len(b) /\ i = Len(u) + j /\ i + e = Len(a) + j
      BY <1>0, <1>1, <2>1, <2>3
    <3> HIDE DEF j
    <3> QED BY <1>2, <2>1, <3>1
  <2> QED BY <2>2, <2>3
<1>4. Len(u \o b) = Len(a \o b) - e
  BY <1>0, <1>1, <1>2
<1> QED BY <1>1, <1>2, <1>3, <1>4 DEF u

(* Bytes that go from the line to the buffer.                              *)
Moves(a, b, n, c, d) == c = a \o SubSeq(b, 1, n) /\ d = SubSeq(b, n + 1, Len(b))

LEMMA MoveOver ==
  ASSUME NEW S, NEW a \in Seq(S), NEW b \in Seq(S), NEW n \in 1..Len(b), NEW c, NEW d,
         Moves(a, b, n, c, d)
  PROVE  c \in Seq(S) /\ d \in Seq(S) /\ Len(c) = Len(a) + n /\ c \o d = a \o b
<1> DEFINE u == SubSeq(b, 1, n)
           w == SubSeq(b, n + 1, Len(b))
<1>0. Len(a) \in Nat /\ Len(b) \in Nat /\ n \in Nat /\ n >= 1 /\ n <= Len(b)
  OBVIOUS
<1>1. /\ u \in Seq(S) /\ Len(u) = n /\ \A i \in 1..n : u[i] = b[i]
      /\ w \in Seq(S) /\ Len(w) = Len(b) - n /\ \A i \in 1..Len(w) : w[i] = b[i + n]
  <2>1. u \in Seq(S) /\ Len(u) = n /\ \A i \in 1..n : u[i] = b[i]
    BY <1>0
  <2>2. w \in Seq(S) /\ Len(w) = Len(b) - n /\ \A i \in 1..Len(w) : w[i] = b[i + n]
    BY <1>0
  <2> HIDE DEF u, w
  <2> QED BY <2>1, <2>2
<1>2. u \o w = b
  <2> HIDE DEF u, w
  <2>0. u \in Seq(S) /\ w \in Seq(S)
    BY <1>1
  <2>1. /\ u \o w \in Seq(S) /\ Len(u \o w) = Len(u) + Len(w)
        /\ \A i \in 1..Len(u) : (u \o w)[i] = u[i]
        /\ \A i \in 1..Len(w) : (u \o w)[Len(u) + i] = w[i]
    BY <2>0, ConcatParts
  <2>2. Len(u \o w) = Len(b)
    BY <1>0, <1>1, <2>1
  <2>3. ASSUME NEW i \in 1..Len(b) PROVE (u \o w)[i] = b[i]
    <3>1. CASE i <= n
      BY <1>0, <1>1, <2>1, <3>1
    <3>2. CASE ~(i <= n)
      <4> DEFINE j == i - n
      <4>1. j \in 1..Len(w) /\ i = Len(u) + j /\ i = j + n
        BY <1>0, <1>1, <3>2
      <4> HIDE DEF j
      <4> QED BY <1>1, <2>1, <4>1
    <3> QED BY <3>1, <3>2
  <2> QED BY <2>1, <2>2, <2>3, SeqEqual
<1>3. c = a \o u /\ d = w
  BY DEF Moves
<1> HIDE DEF u, w
<1>4. (a \o u) \o w = a \o (u \o w)
  BY <1>1
<1> QED BY <1>1, <1>2, <1>3, <1>4, ConcatParts

(* The next byte of the line is lost.                                      *)
LEMMA LoseOne ==
  ASSUME NEW S, NEW a \in Seq(S), NEW b \in Seq(S), b # <<>>
  PROVE  /\ a \o Tail(b) \in Seq(S) /\ Len(a \o Tail(b)) = Len(a \o b) - 1
         /\ \A i \in 1..Len(a \o Tail(b)) :
              (a \o Tail(b))[i] = (a \o b)[IF i > Len(a) THEN i + 1 ELSE i]
<1> DEFINE u == Tail(b)
<1>0. Len(a) \in Nat /\ Len(b) \in Nat /\ Len(b) >= 1
  OBVIOUS
<1>1. u \in Seq(S) /\ Len(u) = Len(b) - 1 /\ \A i \in 1..Len(u) : u[i] = b[i + 1]
  BY <1>0
<1> HIDE DEF u
<1>9. u \in Seq(S)
  BY <1>1
<1>2. /\ a \o u \in Seq(S) /\ Len(a \o u) = Len(a) + Len(u) /\ Len(a \o b) = Len(a) + Len(b)
      /\ \A i \in 1..Len(a) : (a \o u)[i] = a[i]
      /\ \A i \in 1..Len(u) : (a \o u)[Len(a) + i] = u[i]
      /\ \A i \in 1..Len(a) : (a \o b)[i] = a[i]
      /\ \A i \in 1..Len(b) : (a \o b)[Len(a) + i] = b[i]
  BY <1>9, ConcatParts
<1>3. ASSUME NEW i \in 1..Len(a \o u)
      PROVE  (a \o u)[i] = (a \o b)[IF i > Len(a) THEN i + 1 ELSE i]
  <2>1. CASE i > Len(a)
    <3> DEFINE j == i - Len(a)
    <3>1. j \in 1..Len(u) /\ i = Len(a) + j /\ j + 1 \in 1..Len(b) /\ i + 1 = Len(a) + (j + 1)
      BY <1>0, <1>1, <1>2, <2>1
    <3> HIDE DEF j
    <3>2. (a \o u)[i] = u[j] /\ u[j] = b[j + 1] /\ (a \o b)[i + 1] = b[j + 1]
      BY <1>1, <1>2, <3>1
    <3> QED BY <2>1, <3>2
  <2>2. CASE ~(i > Len(a))
    <3>1. i \in 1..Len(a)
      BY <1>0, <1>1, <1>2, <2>2
    <3> QED BY <1>2, <2>2, <3>1
  <2> QED BY <2>1, <2>2
<1>4. Len(a \o u) = Len(a \o b) - 1
  BY <1>0, <1>1, <1>2
<1> QED BY <1>2, <1>3, <1>4 DEF u

-----------------------------------------------------------------------------
(* The inductive invariant.                                                *)

Rest == buf \o line

(* The position in the stream of the i-th byte of a sequence that begins   *)
(* after position base and misses a byte after its first gap ones.         *)
At(base, gap, i) == IF i > gap THEN base + i + 1 ELSE base + i

Follows(r, base, gap) ==
  \A i \in 1..Len(r) :
    At(base, gap, i) \in 1..Len(Stream) /\ r[i] = Stream[At(base, gap, i)]

(* Of the packets delivered at most the stop byte of the last is left.     *)
Ends(k) == Start(k) + Size[k]

Passed(texts, base) ==
  \A i \in DOMAIN texts :
    texts[i][1].pac \in 1..NumPackets /\ Ends(texts[i][1].pac) <= base + 1

InStream ==
  \E base, gap \in Nat :
    Follows(Rest, base, gap) /\ Passed(delivered, base) /\ (lost = 0 => gap >= Len(Rest))

GInv == TypeOK /\ InStream /\ GenuineInOrder

(* In a clean run the packets delivered are the first of the stream, and   *)
(* Rest is what comes after them.                                          *)
Behind == Len(Sent[Len(delivered)])

CleanRest ==
  /\ Len(delivered) <= NumPackets
  /\ \A i \in DOMAIN delivered : delivered[i][1].pac = i
  /\ Len(Stream) = Behind + Len(Rest)
  /\ \A i \in 1..Len(Rest) : Rest[i] = Stream[Behind + i]

CInv == clean => lost = 0 /\ CleanRest /\ (buf # <<>> => ~CutAtStop(buf) /\ ~Expired)

-----------------------------------------------------------------------------
(* What the parser sees and what it drops.                                 *)

(* What is received moves from the line to the buffer.                     *)
LEMMA Received ==
  ASSUME buf \in Seq(Bytes), line \in Seq(Bytes), NEW n \in 1..Len(line), Recv(n)
  PROVE  /\ buf' \in Seq(Bytes) /\ line' \in Seq(Bytes) /\ Len(buf') = Len(buf) + n
         /\ Rest' = Rest
<1>1. Moves(buf, line, n, buf', line')
  BY DEF Recv, Moves
<1>2. /\ buf' \in Seq(Bytes) /\ line' \in Seq(Bytes) /\ Len(buf') = Len(buf) + n
      /\ buf' \o line' = buf \o line
  BY <1>1, MoveOver, SMTT(60)
<1> QED BY <1>2, Zenon DEF Rest

LEMMA BytesParts ==
  ASSUME SrrpAssumption, NEW b \in Bytes
  PROVE  b.pac \in 1..NumPackets /\ b.pos \in 1..Size[b.pac] /\ b = Byte(b.pac, b.pos)
  BY DEF Bytes, Byte

(* A C string: the bytes before the first NUL.                             *)
LEMMA TextParts ==
  ASSUME NEW b \in Seq(Bytes)
  PROVE  /\ Text(b) \in Seq(Bytes) /\ Len(Text(b)) <= Len(b)
         /\ \A i \in 1..Len(Text(b)) : Text(b)[i] = b[i] /\ ~IsStop(b[i])
<1> DEFINE stops == {i \in DOMAIN b : IsStop(b[i])}
<1>0. DOMAIN b = 1..Len(b) /\ Len(b) \in Nat
  OBVIOUS
<1>1. CASE stops = {}
  <2>1. Text(b) = b
    BY <1>1, Zenon DEF Text
  <2>2. \A i \in 1..Len(b) : ~IsStop(b[i])
    BY <1>0, <1>1
  <2> QED BY <1>0, <2>1, <2>2
<1>2. CASE stops # {}
  <2> DEFINE m == Min(stops)
  <2>1. stops \subseteq Nat
    BY <1>0
  <2>2. m \in stops /\ \A y \in stops : m <= y
    <3> HIDE DEF stops
    <3> QED BY <1>2, <2>1, MinParts
  <2>3. Text(b) = SubSeq(b, 1, m - 1)
    BY <1>2, Zenon DEF Text
  <2> HIDE DEF m
  <2>4. m \in 1..Len(b) /\ \A i \in 1..(m - 1) : ~IsStop(b[i])
    <3>1. m \in 1..Len(b)
      BY <1>0, <2>2
    <3>2. ASSUME NEW i \in 1..(m - 1), IsStop(b[i]) PROVE FALSE
      <4>1. i \in stops /\ i < m
        BY <1>0, <3>1, <3>2
      <4> QED BY <2>2, <3>1, <4>1
    <3> QED BY <3>1, <3>2
  <2>5. /\ SubSeq(b, 1, m - 1) \in Seq(Bytes) /\ Len(SubSeq(b, 1, m - 1)) = m - 1
        /\ \A i \in 1..(m - 1) : SubSeq(b, 1, m - 1)[i] = b[i]
    BY <1>0, <2>4
  <2> QED BY <1>0, <2>3, <2>4, <2>5
<1> QED BY <1>1, <1>2

(* The offset of the next packet is a distance or -1.                      *)
LEMMA OffsetParts ==
  ASSUME NEW b \in Seq(Bytes)
  PROVE  LET offset == srrp_next_packet_offset(b)
         IN offset \in Int /\ offset >= -1
<1> DEFINE t == Text(b)
           kinds == {kind \in 1..5 : LeaderAt(t, kind) # {}}
           offset == srrp_next_packet_offset(b)
<1>1. t \in Seq(Bytes)
  BY TextParts
<1>2. CASE offset \in {0, -1}
  BY <1>2
<1>3. CASE kinds # {} /\ offset = Min(LeaderAt(t, Min(kinds))) - 1
  <2>1. kinds \subseteq Nat
    OBVIOUS
  <2>2. Min(kinds) \in kinds
    <3> HIDE DEF kinds
    <3> QED BY <1>3, <2>1, MinParts
  <2> DEFINE L == LeaderAt(t, Min(kinds))
  <2>3. L # {}
    BY <2>2, Zenon
  <2>4. L \subseteq DOMAIN t
    BY Zenon DEF LeaderAt
  <2>5. L \subseteq Nat /\ \A x \in L : x >= 1
    <3> HIDE DEF L, t
    <3> QED BY <1>1, <2>4
  <2>6. Min(L) \in L
    <3> HIDE DEF L
    <3> QED BY <2>3, <2>5, MinParts
  <2>7. offset = Min(L) - 1
    BY <1>3, Zenon
  <2> DEFINE x == Min(L)
  <2>8. x \in Nat /\ x >= 1 /\ offset = x - 1
    BY <2>5, <2>6, <2>7, Zenon
  <2> HIDE DEF L, x
  <2> QED BY <2>8
<1> QED BY <1>2, <1>3, Zenon DEF srrp_next_packet_offset

(* atbuf_read_advance() drops bytes from the front, all if asked for more. *)
LEMMA AdvanceParts ==
  ASSUME buf \in Seq(Bytes), NEW n \in Nat, atbuf_read_advance(n)
  PROVE  LET e == IF n > Len(buf) THEN Len(buf) ELSE n
         IN e \in 0..Len(buf) /\ buf' = SubSeq(buf, e + 1, Len(buf))
<1>0. Len(buf) \in Nat
  OBVIOUS
<1>1. CASE n > Len(buf)
  <2>1. buf' = <<>>
    BY <1>1 DEF atbuf_read_advance
  <2>2. SubSeq(buf, Len(buf) + 1, Len(buf)) = <<>>
    BY <1>0
  <2> QED BY <1>0, <1>1, <2>1, <2>2
<1>2. CASE ~(n > Len(buf))
  BY <1>0, <1>2 DEF atbuf_read_advance
<1> QED BY <1>1, <1>2

(* Whatever parse_packet() takes away comes off the front of the buffer.   *)
Drops(e) == e \in 0..Len(buf) /\ buf' = SubSeq(buf, e + 1, Len(buf)) /\ line' = line

LEMMA DiscardParts ==
  ASSUME buf \in Seq(Bytes), ParseDiscard
  PROVE  \E e \in Nat : Drops(e)
<1> DEFINE offset == srrp_next_packet_offset(buf)
           n == IF offset \in {-1, 0} THEN Len(buf) ELSE offset
<1>1. offset \in Int /\ offset >= -1 /\ Len(buf) \in Nat
  BY OffsetParts
<1>2. atbuf_read_advance(n) /\ line' = line
  BY Zenon DEF ParseDiscard
<1>3. n \in Nat
  <2> HIDE DEF offset
  <2> QED BY <1>1
<1> HIDE DEF n
<1> DEFINE e == IF n > Len(buf) THEN Len(buf) ELSE n
<1>4. e \in 0..Len(buf) /\ buf' = SubSeq(buf, e + 1, Len(buf))
  BY <1>2, <1>3, AdvanceParts
<1> HIDE DEF e
<1>5. e \in Nat
  BY <1>1, <1>4
<1> QED BY <1>2, <1>4, <1>5 DEF Drops

-----------------------------------------------------------------------------
(* The type invariant.                                                     *)

(* A stream that may have been entered in its first packet.                *)
LEMMA InitParts ==
  ASSUME SrrpAssumption, Init
  PROVE  \E n \in Nat : /\ n < Len(Stream) /\ line \in Seq(Bytes) /\ Len(line) = Len(Stream) - n
                        /\ \A i \in 1..Len(line) : line[i] = Stream[n + i]
<1>1. PICK n \in 0..Size[1] - 1 : line = SubSeq(Stream, n + 1, Len(Stream))
  BY DEF Init
<1>2. /\ 1 \in 1..NumPackets /\ Start(1) \in Nat /\ Size[1] \in Nat
      /\ Start(1) + Size[1] <= Len(Stream) /\ Stream \in Seq(Bytes)
  <2>1. 1 \in 1..NumPackets
    BY DEF SrrpAssumption
  <2> QED BY <2>1, StreamParts
<1>3. n \in Nat /\ n < Len(Stream) /\ n \in 0..Len(Stream) /\ Len(Stream) \in Nat
  BY <1>2
<1>4. /\ line \in Seq(Bytes) /\ Len(line) = Len(Stream) - n
      /\ \A i \in 1..Len(line) : line[i] = Stream[n + i]
  <2> DEFINE u == SubSeq(Stream, n + 1, Len(Stream))
  <2>1. u \in Seq(Bytes) /\ Len(u) = Len(Stream) - n /\ \A i \in 1..Len(u) : u[i] = Stream[i + n]
    BY <1>2, <1>3, DropFront
  <2>2. line = u
    BY <1>1
  <2> HIDE DEF u
  <2>3. \A i \in 1..Len(u) : i + n = n + i
    BY <1>3, <2>1
  <2> QED BY <2>1, <2>2, <2>3
<1> QED BY <1>3, <1>4

LEMMA InitType ==
  ASSUME SrrpAssumption, Init
  PROVE  TypeOK
<1>1. line \in Seq(Bytes)
  BY InitParts
<1>2. buf \in Seq(Bytes) /\ delivered \in Seq(Seq(Bytes))
  BY DEF Init
<1>3. clean \in BOOLEAN
  BY Zenon DEF Init
<1>4. phase \in 0..TicksPerSecond - 1 /\ lost \in 0..MaxLost
  BY DEF Init, SrrpAssumption
<1>5. age \in 0..ParseTimeout * TicksPerSecond
  <2>1. ParseTimeout * TicksPerSecond \in Nat
    BY DEF SrrpAssumption
  <2> QED BY <2>1 DEF Init
<1>6. pc \in {"recv", "parse"}
  BY DEF Init
<1> QED BY <1>1, <1>2, <1>3, <1>4, <1>5, <1>6 DEF TypeOK

LEMMA NextType ==
  ASSUME SrrpAssumption, TypeOK, [Next]_vars
  PROVE  TypeOK'
<1>0. /\ line \in Seq(Bytes) /\ buf \in Seq(Bytes) /\ delivered \in Seq(Seq(Bytes))
      /\ phase \in 0..TicksPerSecond - 1 /\ age \in 0..ParseTimeout * TicksPerSecond
      /\ lost \in 0..MaxLost /\ clean \in BOOLEAN /\ pc \in {"recv", "parse"}
      /\ TicksPerSecond \in Nat \ {0} /\ MaxLost \in Nat
  BY DEF TypeOK, SrrpAssumption
<1>1. ParseTimeout * TicksPerSecond \in Nat
  BY DEF SrrpAssumption
<1>2. CASE Tick
  <2>1. phase' \in 0..TicksPerSecond - 1
    <3>1. phase + 1 \in Nat /\ phase' = (phase + 1) % TicksPerSecond
      BY <1>0, <1>2 DEF Tick
    <3> QED BY <1>0, <3>1
  <2>2. age' \in 0..ParseTimeout * TicksPerSecond
    <3> DEFINE q == ParseTimeout * TicksPerSecond
    <3>1. q \in Nat /\ age \in 0..q /\ age' = IF age < q THEN age + 1 ELSE age
      BY <1>0, <1>1, <1>2 DEF Tick
    <3> HIDE DEF q
    <3>2. age' \in 0..q
      BY <3>1
    <3> QED BY <3>2 DEF q
  <2>3. clean' \in BOOLEAN
    BY <1>2, Zenon DEF Tick
  <2>4. UNCHANGED <<line, buf, pc, delivered, lost>>
    BY <1>2 DEF Tick
  <2> QED BY <1>0, <2>1, <2>2, <2>3, <2>4 DEF TypeOK
<1>3. CASE Lose
  <2>1. line' \in Seq(Bytes)
    BY <1>0, <1>3 DEF Lose
  <2>2. lost' \in 0..MaxLost
    BY <1>0, <1>3 DEF Lose
  <2>3. clean' \in BOOLEAN /\ UNCHANGED <<buf, pc, phase, age, delivered>>
    BY <1>3 DEF Lose
  <2> QED BY <1>0, <2>1, <2>2, <2>3 DEF TypeOK
<1>4. ASSUME NEW n \in 1..Len(line), Recv(n) PROVE TypeOK'
  <2>1. buf' \in Seq(Bytes) /\ line' \in Seq(Bytes)
    BY <1>0, <1>4, Received
  <2>2. clean' \in BOOLEAN
    BY <1>4, Zenon DEF Recv
  <2>3. age' \in 0..ParseTimeout * TicksPerSecond
    BY <1>1, <1>4 DEF Recv
  <2>4. pc' \in {"recv", "parse"} /\ UNCHANGED <<phase, delivered, lost>>
    BY <1>4 DEF Recv
  <2> QED BY <1>0, <2>1, <2>2, <2>3, <2>4 DEF TypeOK
<1>5. CASE NothingToRecv \/ ParseWait \/ ParseDone
  <2>1. UNCHANGED <<line, buf, phase, age, delivered, lost, clean>> /\ pc' \in {"recv", "parse"}
    BY <1>5 DEF NothingToRecv, ParseWait, ParseDone
  <2> QED BY <1>0, <2>1 DEF TypeOK
<1>6. CASE ParsePacket
  <2>1. buf[3].pac \in 1..NumPackets /\ Size[buf[3].pac] \in Nat
    <3>1. Text(buf) \in Seq(Bytes) /\ Len(Text(buf)) <= Len(buf) /\ Len(Text(buf)) >= 3
      BY <1>0, <1>6, TextParts DEF ParsePacket, srrp_read_one_packet, FieldsMatch
    <3>2. 3 \in 1..Len(buf)
      BY <1>0, <3>1
    <3>3. buf[3] \in Bytes
      BY <1>0, <3>2
    <3> QED BY <3>3, BytesParts DEF SrrpAssumption
  <2>2. atbuf_read_advance(Size[buf[3].pac])
    BY <1>6 DEF ParsePacket
  <2>3. PICK e \in 0..Len(buf) : buf' = SubSeq(buf, e + 1, Len(buf))
    BY <1>0, <2>1, <2>2, AdvanceParts
  <2>4. buf' \in Seq(Bytes)
    BY <1>0, <2>3, DropFront
  <2>5. delivered' \in Seq(Seq(Bytes))
    <3>1. Text(buf) \in Seq(Bytes)
      BY <1>0, TextParts
    <3>2. delivered' = Append(delivered, Text(buf))
      BY <1>6 DEF ParsePacket
    <3> QED BY <1>0, <3>1, <3>2
  <2>6. UNCHANGED <<line, pc, phase, age, lost, clean>>
    BY <1>6 DEF ParsePacket
  <2> QED BY <1>0, <2>4, <2>5, <2>6 DEF TypeOK
<1>7. CASE ParseDiscard
  <2>1. PICK e \in Nat : Drops(e)
    BY <1>0, <1>7, DiscardParts
  <2>2. buf' \in Seq(Bytes)
    BY <1>0, <2>1, DropFront DEF Drops
  <2>3. UNCHANGED <<line, phase, age, delivered, lost, clean>> /\ pc' \in {"recv", "parse"}
    BY <1>7 DEF ParseDiscard
  <2> QED BY <1>0, <2>2, <2>3 DEF TypeOK
<1>8. CASE UNCHANGED vars
  BY <1>0, <1>8 DEF vars, TypeOK
<1> QED BY <1>2, <1>3, <1>4, <1>5, <1>6, <1>7, <1>8 DEF Next, Poll, parse_packet

(* Every reachable state has its type: whatever is read, kept and          *)
(* delivered are bytes the peer has sent, however far parse_packet()       *)
(* advances.                                                               *)
THEOREM TypeCorrect == Spec => []TypeOK
<1>1. Init => TypeOK
  BY InitType, SrrpAssumption
<1>2. TypeOK /\ [Next]_vars => TypeOK'
  BY NextType, SrrpAssumption
<1> QED BY <1>1, <1>2, PTL DEF Spec

-----------------------------------------------------------------------------
(* What is delivered is genuine.                                           *)

(* A text that is a packet, and one that lacks the digit at place 4.       *)
Whole(t, k) ==
  Len(t) = Size[k] - 1 /\ \A i \in 1..Size[k] - 1 : t[i] = Byte(k, i)

Short(t, k) ==
  Len(t) = Size[k] - 2 /\ \A i \in 1..Size[k] - 2 : t[i] = Byte(k, IF i <= 3 THEN i ELSE i + 1)

(* An accepted text is one packet or, when the byte missing is the fourth, *)
(* one packet without it: the first three bytes are neighbours in the      *)
(* stream, a missing header is noticed, and a byte missing after it either *)
(* brings the stop byte into a text of that length or was the stop byte,   *)
(* and the text is too long.                                               *)
LEMMA Accepted ==
  ASSUME SrrpAssumption, TypeOK, NEW base \in Nat, NEW gap \in Nat,
         Follows(Rest, base, gap), srrp_read_one_packet(buf)
  PROVE  LET k == buf[3].pac
         IN /\ k \in 1..NumPackets /\ Size[k] \in Nat /\ Size[k] >= 6
            /\ Len(Text(buf)) <= Len(buf)
            /\ \A i \in 1..Len(Text(buf)) : Text(buf)[i] = buf[i]
            /\ At(base, gap, 1) = Start(k) + 1
            /\ Whole(Text(buf), k) \/ (gap = 3 /\ Short(Text(buf), k))
<1> DEFINE t == Text(buf)
           L == Len(t)
           h == buf[1].pac
           k == buf[3].pac
           hd == HeaderAt(t)
           at(i) == At(base, gap, i)
           sk == Start(k)
           zk == Size[k]
<1>0. buf \in Seq(Bytes) /\ line \in Seq(Bytes) /\ Len(buf) \in Nat
  BY DEF TypeOK
<1>1. /\ t \in Seq(Bytes) /\ L \in Nat /\ L <= Len(buf) /\ L >= 3 /\ DOMAIN t = 1..L
      /\ \A i \in 1..L : t[i] = buf[i] /\ ~IsStop(buf[i])
  BY <1>0, TextParts, SMTT(60) DEF srrp_read_one_packet, FieldsMatch
<1>2. /\ t[1].pos = 1 /\ t[3].pos = 3 /\ \E i \in DOMAIN t : t[i].pos = 5
      /\ MeasuredLen(t) = Size[t[3].pac]
  BY Zenon DEF srrp_read_one_packet, FieldsMatch
<1>3. 4 + (L - hd + 1) + 1 = Size[t[3].pac]
  BY <1>2 DEF MeasuredLen, FieldsWidth
<1>4. hd \in 1..L /\ t[hd].pos = 5 /\ \A y \in 1..L : t[y].pos = 5 => hd <= y
  <2> DEFINE S == {i \in DOMAIN t : t[i].pos = 5}
  <2> HIDE DEF t
  <2>1. S \subseteq Nat /\ S # {}
    BY <1>1, <1>2
  <2>2. hd = Min(S)
    BY Zenon DEF HeaderAt
  <2>3. Min(S) \in S /\ \A y \in S : Min(S) <= y
    <3> HIDE DEF S
    <3> QED BY <2>1, MinParts
  <2> HIDE DEF hd
  <2>4. hd \in S /\ \A y \in S : hd <= y
    BY <2>2, <2>3, Zenon
  <2> QED BY <1>1, <2>4
<1> HIDE DEF t, hd
<1>5. 1 \in 1..L /\ 3 \in 1..L
  BY <1>1
<1>6. /\ buf[1].pos = 1 /\ buf[3].pos = 3 /\ 4 + (L - hd + 1) + 1 = zk
      /\ buf[hd].pos = 5 /\ \A y \in 1..L : buf[y].pos = 5 => hd <= y
  BY <1>1, <1>2, <1>3, <1>4, <1>5
<1>7. ASSUME NEW i \in 1..L PROVE at(i) \in 1..Len(Stream) /\ buf[i] = Stream[at(i)]
  <2>1. i \in 1..Len(buf) /\ i \in 1..Len(Rest) /\ Rest[i] = buf[i]
    <3>1. /\ Len(buf \o line) = Len(buf) + Len(line) /\ Len(line) \in Nat
          /\ \A j \in 1..Len(buf) : (buf \o line)[j] = buf[j]
      BY <1>0, ConcatParts
    <3> QED BY <1>0, <1>1, <3>1 DEF Rest
  <2> QED BY <2>1 DEF Follows
<1>8. ASSUME NEW i \in 1..L
      PROVE  buf[i].pac \in 1..NumPackets /\ at(i) = Start(buf[i].pac) + buf[i].pos
  BY <1>7, PositionOf
<1>9. h \in 1..NumPackets /\ k \in 1..NumPackets /\ at(1) = Start(h) + 1 /\ at(3) = Start(k) + 3
  BY <1>5, <1>6, <1>8
<1> HIDE DEF h, k, L
<1>10. /\ Start(h) \in Nat /\ Start(k) \in Nat /\ Size[h] \in Nat /\ Size[k] \in Nat
       /\ Size[h] >= 6 /\ Size[k] >= 6
       /\ h < k => Start(h) + Size[h] <= Start(k)
       /\ k < h => Start(k) + Size[k] <= Start(h)
  BY <1>9, StreamParts
<1>11. at(3) = at(1) + 2 \/ at(3) = at(1) + 3
  BY DEF At
<1> HIDE DEF at
<1>12. h = k
  <2>1. h \in Int /\ k \in Int
    BY <1>9
  <2>2. h < k \/ k < h \/ h = k
    BY <2>1
  <2> DEFINE sh == Start(h)
             zh == Size[h]
  <2>3. /\ sh \in Nat /\ sk \in Nat /\ zh \in Nat /\ zk \in Nat /\ zh >= 6 /\ zk >= 6
        /\ sk + 3 = sh + 3 \/ sk + 3 = sh + 4
        /\ h < k => sh + zh <= sk
        /\ k < h => sk + zk <= sh
    BY <1>9, <1>10, <1>11, SMTT(60)
  <2> HIDE DEF sh, sk, zh, zk
  <2> QED BY <2>2, <2>3
<1>13. /\ sk \in Nat /\ zk \in Nat /\ zk >= 6 /\ at(1) = sk + 1 /\ at(3) = sk + 3
       /\ L \in Nat /\ L >= 3 /\ hd \in 1..L /\ hd \in Nat
  BY <1>1, <1>4, <1>9, <1>10, <1>12 DEF L
<1>14. ASSUME NEW i \in 1..L, NEW x \in 1..zk, at(i) = sk + x
       PROVE  buf[i] = Byte(k, x) /\ buf[i].pos = x /\ x # zk
  <2>1. buf[i] = Byte(k, x)
    BY <1>7, <1>9, <1>14, StreamParts
  <2>2. ~IsStop(buf[i])
    BY <1>1 DEF L
  <2> QED BY <2>1, <2>2 DEF IsStop, Byte
<1> HIDE DEF sk, zk
<1>15. \/ \A i \in 1..L : at(i) = sk + i
       \/ gap >= 3 /\ gap < L /\ \A i \in 1..L : at(i) = IF i > gap THEN sk + i + 1 ELSE sk + i
  <2>1. \A i \in 1..L : i \in Nat /\ i >= 1 /\ at(i) = IF i > gap THEN base + i + 1 ELSE base + i
    BY <1>13 DEF at, At
  <2>2. /\ at(1) = IF 1 > gap THEN base + 2 ELSE base + 1
        /\ at(3) = IF 3 > gap THEN base + 4 ELSE base + 3
    BY DEF at, At
  <2>3. CASE gap < 1
    <3>1. base + 1 = sk
      BY <1>13, <2>2, <2>3
    <3> QED BY <2>1, <2>3, <3>1
  <2>4. CASE gap >= 1
    <3>1. base = sk /\ gap >= 3
      BY <1>13, <2>2, <2>4
    <3>2. CASE gap >= L
      BY <1>13, <2>1, <3>1, <3>2
    <3>3. CASE ~(gap >= L)
      BY <1>13, <2>1, <3>1, <3>3
    <3> QED BY <3>2, <3>3
  <2> QED BY <2>3, <2>4
<1>16. ASSUME \A i \in 1..L : at(i) = sk + i
       PROVE  Whole(t, k) \/ (gap = 3 /\ Short(t, k))
  <2>1. L < zk
    <3> SUFFICES ASSUME ~(L < zk) PROVE FALSE
      OBVIOUS
    <3>1. zk \in 1..L /\ zk \in 1..zk
      BY <1>13
    <3> QED BY <1>14, <1>16, <3>1
  <2>2. ASSUME NEW i \in 1..L PROVE buf[i] = Byte(k, i) /\ buf[i].pos = i
    <3>1. i \in 1..zk
      BY <1>13, <2>1
    <3> QED BY <1>14, <1>16, <3>1
  <2>3. hd = 5
    BY <1>6, <1>13, <2>2
  <2>4. L = zk - 1
    BY <1>6, <1>13, <2>3
  <2>5. ASSUME NEW i \in 1..zk - 1 PROVE t[i] = Byte(k, i)
    <3>1. i \in 1..L
      BY <2>4
    <3> QED BY <1>1, <2>2, <3>1 DEF L
  <2> QED BY <2>4, <2>5 DEF Whole, L, zk
<1>17. ASSUME gap >= 3, gap < L,
              \A i \in 1..L : at(i) = IF i > gap THEN sk + i + 1 ELSE sk + i
       PROVE  Whole(t, k) \/ (gap = 3 /\ Short(t, k))
  <2>1. ASSUME NEW i \in 1..L, i <= gap, i <= zk
        PROVE  buf[i] = Byte(k, i) /\ buf[i].pos = i /\ i # zk
    <3>1. i \in 1..zk /\ at(i) = sk + i
      BY <1>13, <1>17, <2>1
    <3> QED BY <1>14, <3>1
  <2>2. ASSUME NEW i \in 1..L, i > gap, i + 1 <= zk
        PROVE  buf[i] = Byte(k, i + 1) /\ buf[i].pos = i + 1 /\ i + 1 # zk
    <3>1. i + 1 \in 1..zk /\ at(i) = sk + (i + 1)
      BY <1>13, <1>17, <2>2
    <3> QED BY <1>14, <3>1
  <2>3. CASE gap >= 5
    <3>1. 5 \in 1..L /\ 5 <= gap /\ 5 <= zk
      BY <1>13, <1>17, <2>3
    <3>2. hd <= 5
      BY <1>6, <2>1, <3>1
    <3>3. hd = 5
      <4>1. hd <= gap /\ hd <= zk
        BY <1>13, <2>3, <3>2
      <4> QED BY <1>6, <1>13, <2>1, <4>1
    <3>4. L \in 1..L /\ L > gap /\ L + 1 = zk
      BY <1>6, <1>13, <1>17, <3>3
    <3>5. L + 1 <= zk
      BY <1>13, <3>4
    <3> QED BY <2>2, <3>4, <3>5
  <2>4. CASE gap = 3 \/ gap = 4
    <3>1. L < zk - 1
      <4> SUFFICES ASSUME ~(L < zk - 1) PROVE FALSE
        OBVIOUS
      <4> DEFINE j == zk - 1
      <4>1. j \in 1..L /\ j > gap /\ j + 1 = zk /\ j + 1 <= zk
        BY <1>13, <2>4
      <4> HIDE DEF j
      <4> QED BY <2>2, <4>1
    <3>2. ASSUME NEW i \in 1..L
          PROVE  /\ i <= gap => buf[i] = Byte(k, i) /\ buf[i].pos = i
                 /\ i > gap => buf[i] = Byte(k, i + 1) /\ buf[i].pos = i + 1
      <4>1. i <= zk /\ i + 1 <= zk
        BY <1>13, <3>1
      <4> QED BY <2>1, <2>2, <4>1
    <3>3. hd = 4 /\ gap = 3
      <4>1. hd <= gap => hd = 5
        BY <1>6, <1>13, <3>2
      <4>2. hd > gap => hd + 1 = 5
        BY <1>6, <1>13, <3>2
      <4> QED BY <1>13, <2>4, <4>1, <4>2
    <3>4. L = zk - 2
      BY <1>6, <1>13, <3>3
    <3>5. ASSUME NEW i \in 1..zk - 2 PROVE t[i] = Byte(k, IF i <= 3 THEN i ELSE i + 1)
      <4>1. i \in 1..L /\ (i <= 3 <=> ~(i > gap))
        BY <1>13, <3>3, <3>4
      <4>2. t[i] = buf[i]
        BY <1>1, <4>1 DEF L
      <4> QED BY <3>2, <3>3, <4>1, <4>2
    <3> QED BY <3>3, <3>4, <3>5 DEF Short, L, zk
  <2> QED BY <1>17, <2>3, <2>4
<1>18. at(1) = Start(k) + 1
  BY <1>13 DEF sk
<1>19. Whole(t, k) \/ (gap = 3 /\ Short(t, k))
  BY <1>15, <1>16, <1>17
<1>20. Len(t) <= Len(buf) /\ \A i \in 1..Len(t) : t[i] = buf[i]
  BY <1>1 DEF L
<1> QED BY <1>9, <1>10, <1>18, <1>19, <1>20, Zenon DEF at, t, k

(* What is left after the front went is as much in the stream.             *)
LEMMA DropKeeps ==
  ASSUME NEW r \in Seq(Bytes), NEW u \in Seq(Bytes), NEW e \in Nat, e <= Len(r),
         Len(u) = Len(r) - e, \A i \in 1..Len(u) : u[i] = r[i + e],
         NEW base \in Nat, NEW gap \in Nat, Follows(r, base, gap)
  PROVE  \E b, g \in Nat : /\ Follows(u, b, g) /\ b >= base
                           /\ e >= 1 => b + 1 >= At(base, gap, 1) + e
                           /\ gap >= 1 /\ gap < e => b >= At(base, gap, 1) + e
                           /\ gap >= Len(r) => g >= Len(u)
<1>0. Len(r) \in Nat /\ Len(u) \in Nat
  OBVIOUS
<1>1. \A i \in 1..Len(u) : i \in Nat /\ i + e \in 1..Len(r)
  BY <1>0
<1>2. CASE e <= gap
  <2> DEFINE b == base + e
             g == gap - e
  <2>1. b \in Nat /\ g \in Nat
    BY <1>2
  <2>2. \A i \in 1..Len(u) : At(b, g, i) = At(base, gap, i + e)
    BY <1>1, <1>2 DEF At
  <2>3. /\ b >= base /\ (e >= 1 => b + 1 >= At(base, gap, 1) + e) /\ (gap >= Len(r) => g >= Len(u))
        /\ gap >= 1 /\ gap < e => b >= At(base, gap, 1) + e
    BY <1>0, <1>2 DEF At
  <2> HIDE DEF b, g
  <2>4. Follows(u, b, g)
    BY <1>1, <2>2 DEF Follows
  <2> QED BY <2>1, <2>3, <2>4
<1>3. CASE ~(e <= gap)
  <2> DEFINE b == base + e + 1
             g == Len(u)
  <2>1. b \in Nat /\ g \in Nat
    BY <1>0
  <2>2. \A i \in 1..Len(u) : At(b, g, i) = At(base, gap, i + e)
    BY <1>0, <1>1, <1>3 DEF At
  <2>3. /\ b >= base /\ (e >= 1 => b + 1 >= At(base, gap, 1) + e) /\ (gap >= Len(r) => g >= Len(u))
        /\ gap >= 1 /\ gap < e => b >= At(base, gap, 1) + e
    BY <1>0, <1>3 DEF At
  <2> HIDE DEF b, g
  <2>4. Follows(u, b, g)
    BY <1>1, <2>2 DEF Follows
  <2> QED BY <2>1, <2>3, <2>4
<1> QED BY <1>2, <1>3

(* The bytes of a packet without the stop byte are a packet.               *)
LEMMA TextIsPacket ==
  ASSUME SrrpAssumption, NEW k \in 1..NumPackets, NEW t \in Seq(Bytes), Whole(t, k)
  PROVE  IsPacket(t, k) /\ t[1].pac = k
<1> DEFINE w == srrp_write(k)
           z == Size[k]
           a == Append(t, Byte(k, z))
<1>1. z \in Nat /\ z >= 6 /\ w \in Seq(Bytes) /\ Len(w) = z /\ \A i \in 1..z : w[i] = Byte(k, i)
  BY WrittenParts DEF Written
<1>2. Byte(k, z) \in Bytes
  <2>1. z \in 1..z
    BY <1>1
  <2> QED BY <1>1, <2>1 DEF Byte, Bytes
<1>3. Len(t) = z - 1 /\ \A i \in 1..z - 1 : t[i] = Byte(k, i)
  BY DEF Whole
<1> HIDE DEF w, z
<1>4. a \in Seq(Bytes) /\ Len(a) = z
  BY <1>1, <1>2, <1>3
<1>5. ASSUME NEW i \in 1..z PROVE a[i] = Byte(k, i)
  BY <1>1, <1>2, <1>3
<1> HIDE DEF a
<1>6. a = w
  BY <1>1, <1>4, <1>5, SeqEqual
<1>7. t[1] = Byte(k, 1)
  BY <1>1, <1>3
<1> QED BY <1>6, <1>7 DEF a, w, z, IsPacket, Byte

(* So are those of one that lacks a digit, but for the digit.              *)
LEMMA TextLacksDigit ==
  ASSUME SrrpAssumption, NEW k \in 1..NumPackets, NEW t \in Seq(Bytes), Short(t, k)
  PROVE  LacksDigit(t, k) /\ t[1].pac = k
<1> DEFINE w == srrp_write(k)
           z == Size[k]
           a == Append(t, Byte(k, z))
           r == RemoveAt(w, 4)
<1>1. z \in Nat /\ z >= 6 /\ w \in Seq(Bytes) /\ Len(w) = z /\ \A i \in 1..z : w[i] = Byte(k, i)
  BY WrittenParts DEF Written
<1>2. Byte(k, z) \in Bytes
  <2>1. z \in 1..z
    BY <1>1
  <2> QED BY <1>1, <2>1 DEF Byte, Bytes
<1>3. Len(t) = z - 2 /\ \A i \in 1..z - 2 : t[i] = Byte(k, IF i <= 3 THEN i ELSE i + 1)
  BY DEF Short
<1> HIDE DEF w, z
<1>4. 4 \in 1..Len(w)
  BY <1>1
<1>5. /\ r \in Seq(Bytes) /\ Len(r) = z - 1
      /\ \A i \in 1..Len(r) : r[i] = IF i < 4 THEN w[i] ELSE w[i + 1]
  BY <1>1, <1>4, RemoveAtParts, SMTT(30)
<1>6. a \in Seq(Bytes) /\ Len(a) = z - 1
  BY <1>1, <1>2, <1>3
<1>7. ASSUME NEW i \in 1..z - 1 PROVE a[i] = Byte(k, IF i <= 3 THEN i ELSE i + 1)
  BY <1>1, <1>2, <1>3
<1> HIDE DEF a, r
<1>8. ASSUME NEW i \in 1..z - 1 PROVE a[i] = r[i]
  <2>1. i \in 1..Len(r) /\ (i < 4 <=> i <= 3) /\ i \in 1..z /\ i + 1 \in 1..z
    BY <1>1, <1>5
  <2> QED BY <1>1, <1>5, <1>7, <2>1
<1>9. a = r
  BY <1>5, <1>6, <1>8, SeqEqual
<1>10. t[1] = Byte(k, 1)
  BY <1>1, <1>3
<1> QED BY <1>9, <1>10 DEF a, r, w, z, LacksDigit, Byte

(* The text of one delivered packet, as GenuineInOrder asks for it.        *)
Genuine(t, n) == IsPacket(t, t[1].pac) \/ (n > 0 /\ LacksDigit(t, t[1].pac))

LEMMA RestParts ==
  ASSUME TypeOK, NEW e \in Nat, Drops(e)
  PROVE  /\ Rest \in Seq(Bytes) /\ Rest' \in Seq(Bytes) /\ e <= Len(Rest) /\ e <= Len(buf)
         /\ Len(Rest') = Len(Rest) - e
         /\ \A i \in 1..Len(Rest') : Rest'[i] = Rest[i + e]
<1>1. buf \in Seq(Bytes) /\ line \in Seq(Bytes) /\ e \in 0..Len(buf) /\ e <= Len(buf)
  BY DEF TypeOK, Drops
<1> DEFINE u == SubSeq(buf, e + 1, Len(buf))
           v == u \o line
           r == buf \o line
<1>2. /\ v \in Seq(Bytes) /\ Len(v) = Len(r) - e
      /\ \A i \in 1..Len(v) : v[i] = r[i + e]
  BY <1>1, DropFront, SMTT(60)
<1>3. Rest' = v /\ Rest = r
  BY DEF Rest, Drops
<1>4. r \in Seq(Bytes) /\ Len(r) = Len(buf) + Len(line) /\ Len(buf) \in Nat /\ Len(line) \in Nat
  BY <1>1, ConcatParts
<1> HIDE DEF u, v, r
<1>5. e <= Len(r)
  BY <1>1, <1>4
<1> QED BY <1>1, <1>2, <1>3, <1>4, <1>5

LEMMA PassedMono ==
  ASSUME SrrpAssumption, NEW texts, NEW base \in Nat, NEW b \in Nat, b >= base, Passed(texts, base)
  PROVE  Passed(texts, b)
<1>1. ASSUME NEW k \in 1..NumPackets PROVE Ends(k) \in Nat
  <2>1. Start(k) \in Nat /\ Size[k] \in Nat
    BY StreamParts, Zenon
  <2> QED BY <2>1 DEF Ends
<1>2. \A x \in Nat : x <= base + 1 => x <= b + 1
  OBVIOUS
<1> QED BY <1>1, <1>2, Zenon DEF Passed

LEMMA SameStays ==
  ASSUME InStream, GenuineInOrder, Rest' = Rest, delivered' = delivered, lost' = lost
  PROVE  InStream' /\ GenuineInOrder'
<1>1. InStream'
  BY DEF InStream
<1>2. GenuineInOrder'
  BY DEF GenuineInOrder
<1> QED BY <1>1, <1>2

(* A discarded front leaves everything behind it in place.                 *)
LEMMA DropStays ==
  ASSUME SrrpAssumption, TypeOK, InStream, NEW e \in Nat, Drops(e), delivered' = delivered, lost' = lost
  PROVE  InStream'
<1>1. PICK base \in Nat, gap \in Nat :
        Follows(Rest, base, gap) /\ Passed(delivered, base) /\ (lost = 0 => gap >= Len(Rest))
  BY Zenon DEF InStream
<1>2. PICK b \in Nat, g \in Nat : /\ Follows(Rest', b, g) /\ b >= base
                                  /\ gap >= Len(Rest) => g >= Len(Rest')
  BY <1>1, RestParts, DropKeeps, ZenonT(30)
<1>3. Passed(delivered', b)
  BY <1>1, <1>2, PassedMono
<1> QED BY <1>1, <1>2, <1>3 DEF InStream

(* srrp_read_one_packet() accepts a text and its packet comes off the      *)
(* buffer, together with its stop byte if that is there.                   *)
LEMMA PacketDrops ==
  ASSUME SrrpAssumption, TypeOK, ParsePacket, NEW base \in Nat, NEW gap \in Nat,
         Follows(Rest, base, gap)
  PROVE  \E e \in Nat : /\ Drops(e) /\ e >= Len(Text(buf)) /\ e >= 1
                        /\ Size[buf[3].pac] <= Len(buf) => e = Size[buf[3].pac]
<1> DEFINE z == Size[buf[3].pac]
           L == Len(Text(buf))
<1>1. srrp_read_one_packet(buf) /\ atbuf_read_advance(z) /\ line' = line
  BY DEF ParsePacket
<1>2. z \in Nat /\ z >= 6 /\ L <= Len(buf) /\ (L = z - 1 \/ L = z - 2)
  BY <1>1, Accepted DEF Whole, Short
<1>3. buf \in Seq(Bytes) /\ Len(buf) \in Nat
  BY DEF TypeOK
<1> HIDE DEF z, L
<1> DEFINE e == IF z > Len(buf) THEN Len(buf) ELSE z
<1>4. e \in 0..Len(buf) /\ buf' = SubSeq(buf, e + 1, Len(buf))
  BY <1>1, <1>2, <1>3, AdvanceParts
<1>5. e \in Nat /\ e >= L /\ e >= 1 /\ (z <= Len(buf) => e = z)
  BY <1>2, <1>3, SMTT(30)
<1> HIDE DEF e
<1> QED BY <1>1, <1>4, <1>5 DEF Drops, z, L

LEMMA PacketStays ==
  ASSUME SrrpAssumption, TypeOK, InStream, GenuineInOrder, ParsePacket
  PROVE  InStream' /\ GenuineInOrder'
<1> DEFINE k == buf[3].pac
           t == Text(buf)
           n == Len(delivered)
<1>1. PICK base \in Nat, gap \in Nat :
        Follows(Rest, base, gap) /\ Passed(delivered, base) /\ (lost = 0 => gap >= Len(Rest))
  BY Zenon DEF InStream
<1>2. srrp_read_one_packet(buf) /\ delivered' = Append(delivered, t) /\ lost' = lost
  BY DEF ParsePacket
<1>3. /\ k \in 1..NumPackets /\ Size[k] \in Nat /\ Size[k] >= 6 /\ Len(t) <= Len(buf)
      /\ At(base, gap, 1) = Start(k) + 1
      /\ Whole(t, k) \/ (gap = 3 /\ Short(t, k))
  BY <1>1, <1>2, Accepted
<1>4. t \in Seq(Bytes) /\ buf \in Seq(Bytes) /\ delivered \in Seq(Seq(Bytes)) /\ lost \in Nat
  BY TextParts DEF TypeOK
<1>5. PICK e \in Nat : Drops(e) /\ e >= Len(t) /\ e >= 1
  BY <1>1, PacketDrops
<1>6. PICK b \in Nat, g \in Nat : /\ Follows(Rest', b, g) /\ b >= base
                                  /\ b + 1 >= At(base, gap, 1) + e
                                  /\ gap >= 1 /\ gap < e => b >= At(base, gap, 1) + e
                                  /\ gap >= Len(Rest) => g >= Len(Rest')
  BY <1>1, <1>5, RestParts, DropKeeps, ZenonT(30)
<1> HIDE DEF k, t
<1>7. Start(k) \in Nat
  BY <1>3, StreamParts, Zenon
<1>8. /\ t[1].pac = k
      /\ IsPacket(t, k) \/ (lost > 0 /\ LacksDigit(t, k))
  <2>1. CASE Whole(t, k)
    BY <1>3, <1>4, <2>1, TextIsPacket
  <2>2. CASE gap = 3 /\ Short(t, k)
    <3>1. LacksDigit(t, k) /\ t[1].pac = k
      BY <1>3, <1>4, <2>2, TextLacksDigit
    <3>2. Len(t) >= 4 /\ Len(t) \in Nat
      BY <1>3, <1>4, <2>2 DEF Short
    <3>3. e <= Len(Rest) /\ Len(Rest) \in Nat
      BY <1>5, RestParts
    <3>4. lost > 0
      BY <1>1, <1>4, <1>5, <2>2, <3>2, <3>3
    <3> QED BY <3>1, <3>4
  <2> QED BY <1>3, <2>1, <2>2
<1>9. Ends(k) <= b + 1
  <2> DEFINE sk == Start(k)
             zk == Size[k]
             p == At(base, gap, 1)
             L == Len(t)
  <2>1. /\ sk \in Nat /\ zk \in Nat /\ zk >= 6 /\ p = sk + 1 /\ L \in Nat /\ e >= L
        /\ b + 1 >= p + e /\ (gap >= 1 /\ gap < e => b >= p + e)
    BY <1>3, <1>4, <1>5, <1>6, <1>7
  <2>2. L = zk - 1 \/ (gap = 3 /\ L = zk - 2)
    BY <1>3 DEF Whole, Short
  <2>3. sk + zk <= b + 1
    <3> HIDE DEF sk, zk, p, L
    <3>1. CASE L = zk - 1
      BY <2>1, <3>1
    <3>2. CASE gap = 3 /\ L = zk - 2
      <4>1. gap < e
        BY <2>1, <3>2
      <4> QED BY <2>1, <3>2, <4>1
    <3> QED BY <2>2, <3>1, <3>2
  <2> QED BY <2>3 DEF Ends
<1>10. /\ n \in Nat /\ Len(delivered') = n + 1 /\ DOMAIN delivered' = 1..n + 1
       /\ DOMAIN delivered = 1..n /\ delivered'[n + 1] = t
       /\ \A i \in 1..n : delivered'[i] = delivered[i]
  BY <1>2, <1>4
<1> HIDE DEF n
<1>11. \A i \in 1..n + 1 : i \in 1..n \/ i = n + 1
  BY <1>10
<1>12. Passed(delivered', b)
  <2>1. Passed(delivered, b)
    BY <1>1, <1>6, PassedMono
  <2>2. ASSUME NEW i \in 1..n + 1
        PROVE  delivered'[i][1].pac \in 1..NumPackets /\ Ends(delivered'[i][1].pac) <= b + 1
    <3>1. CASE i = n + 1
      BY <1>3, <1>8, <1>9, <1>10, <3>1, Zenon
    <3>2. CASE i \in 1..n
      BY <1>10, <2>1, <3>2, Zenon DEF Passed
    <3> QED BY <1>11, <3>1, <3>2
  <2> QED BY <1>10, <2>2 DEF Passed
<1>13. InStream'
  BY <1>1, <1>2, <1>6, <1>12 DEF InStream
<1>14. ASSUME NEW i \in 1..n PROVE delivered[i][1].pac < k
  <2> DEFINE h == delivered[i][1].pac
  <2>1. h \in 1..NumPackets /\ Ends(h) <= base + 1
    BY <1>1, <1>10, Zenon DEF Passed
  <2> HIDE DEF h
  <2>2. /\ Start(h) \in Nat /\ Size[h] \in Nat /\ Size[h] >= 6
        /\ k < h => Start(k) + Size[k] <= Start(h)
    BY <1>3, <2>1, StreamParts
  <2>3. base + 1 <= Start(k) + 1
    BY <1>3, <1>7 DEF At
  <2>4. Start(h) + Size[h] <= Start(k) + 1
    BY <1>7, <2>1, <2>2, <2>3 DEF Ends
  <2>5. h # k
    BY <1>7, <2>2, <2>4
  <2>6. ~(k < h)
    BY <1>3, <1>7, <2>2, <2>4, SMTT(60)
  <2>7. h \in Int /\ k \in Int
    BY <1>3, <2>1
  <2>8. h < k
    BY <2>5, <2>6, <2>7
  <2> QED BY <2>8 DEF h
<1>15. GenuineInOrder'
  <2>1. ASSUME NEW i \in 1..n + 1
        PROVE  /\ Genuine(delivered'[i], lost')
               /\ i > 1 => delivered'[i - 1][1].pac < delivered'[i][1].pac
    <3>1. CASE i = n + 1
      <4>1. Genuine(delivered'[i], lost')
        BY <1>2, <1>8, <1>10, <3>1, Zenon DEF Genuine
      <4>2. ASSUME i > 1 PROVE delivered'[i - 1][1].pac < delivered'[i][1].pac
        <5>1. i - 1 = n /\ n \in 1..n
          BY <1>10, <3>1, <4>2
        <5>2. delivered'[i - 1] = delivered[n] /\ delivered'[i][1].pac = k
          BY <1>8, <1>10, <3>1, <5>1
        <5> QED BY <1>14, <5>1, <5>2
      <4> QED BY <4>1, <4>2
    <3>2. CASE i \in 1..n
      <4>1. delivered'[i] = delivered[i] /\ (i > 1 => delivered'[i - 1] = delivered[i - 1])
        BY <1>10, <3>2
      <4> QED BY <1>2, <1>10, <3>2, <4>1 DEF GenuineInOrder, Genuine
    <3> QED BY <1>11, <3>1, <3>2
  <2> QED BY <1>10, <2>1 DEF GenuineInOrder, Genuine
<1> QED BY <1>13, <1>15

(* One byte lost leaves a gap where the buffer ends.                       *)
LEMMA LoseStays ==
  ASSUME TypeOK, InStream, lost = 0, Lose
  PROVE  InStream'
<1>0. buf \in Seq(Bytes) /\ line \in Seq(Bytes) /\ line # <<>>
  BY DEF TypeOK, Lose
<1>1. PICK base \in Nat, gap \in Nat :
        Follows(Rest, base, gap) /\ Passed(delivered, base) /\ gap >= Len(Rest)
  BY Zenon DEF InStream
<1> DEFINE r == buf \o line
           u == buf \o Tail(line)
           m == Len(buf)
<1>2. /\ u \in Seq(Bytes) /\ Len(u) = Len(r) - 1 /\ r \in Seq(Bytes)
      /\ \A i \in 1..Len(u) : u[i] = r[IF i > m THEN i + 1 ELSE i]
  BY <1>0, LoseOne, ConcatParts
<1>3. Rest = r /\ Rest' = u /\ m \in Nat /\ delivered' = delivered /\ lost' = 1
  BY <1>0 DEF Lose, Rest
<1> HIDE DEF r, u, m
<1>4. Len(r) \in Nat /\ Len(u) \in Nat
  BY <1>2
<1>5. ASSUME NEW i \in 1..Len(u) PROVE At(base, m, i) \in 1..Len(Stream) /\ u[i] = Stream[At(base, m, i)]
  <2> DEFINE j == IF i > m THEN i + 1 ELSE i
  <2>1. j \in 1..Len(r) /\ j <= gap /\ j \in Nat
    BY <1>1, <1>2, <1>3, <1>4
  <2>2. u[i] = r[j] /\ At(base, gap, j) \in 1..Len(Stream) /\ r[j] = Stream[At(base, gap, j)]
    BY <1>1, <1>2, <1>3, <2>1 DEF Follows
  <2>3. At(base, gap, j) = At(base, m, i)
    BY <1>3, <1>4, <2>1 DEF At
  <2> HIDE DEF j
  <2> QED BY <2>2, <2>3
<1>6. Follows(u, base, m)
  BY <1>5 DEF Follows
<1> QED BY <1>1, <1>3, <1>6 DEF InStream

LEMMA InitGenuine ==
  ASSUME SrrpAssumption, Init
  PROVE  InStream /\ GenuineInOrder
<1>1. PICK n \in Nat : /\ n < Len(Stream) /\ line \in Seq(Bytes) /\ Len(line) = Len(Stream) - n
                       /\ \A i \in 1..Len(line) : line[i] = Stream[n + i]
  BY InitParts
<1>2. buf = <<>> /\ delivered = <<>> /\ Stream \in Seq(Bytes)
  BY StreamParts DEF Init
<1>3. Rest = line
  BY <1>1, <1>2 DEF Rest
<1>4. Len(line) \in Nat /\ Len(Stream) \in Nat
  BY <1>1, <1>2
<1>5. Follows(Rest, n, Len(line))
  BY <1>1, <1>3, <1>4 DEF Follows, At
<1>6. Passed(delivered, n) /\ GenuineInOrder
  BY <1>2 DEF Passed, GenuineInOrder
<1>7. Len(line) >= Len(Rest)
  BY <1>3, <1>4
<1> QED BY <1>4, <1>5, <1>6, <1>7 DEF InStream

LEMMA NextGenuine ==
  ASSUME SrrpAssumption, GInv, [Next]_vars
  PROVE  InStream' /\ GenuineInOrder'
<1>0. TypeOK /\ buf \in Seq(Bytes) /\ line \in Seq(Bytes) /\ lost \in Nat
  BY DEF GInv, TypeOK
<1>1. Lose => lost = 0
  BY <1>0 DEF Lose, SrrpAssumption
<1>2. InStream /\ GenuineInOrder
  BY DEF GInv
<1>3. CASE Tick \/ NothingToRecv \/ ParseWait \/ ParseDone \/ UNCHANGED vars
  <2>1. UNCHANGED <<line, buf, delivered, lost>>
    BY <1>3 DEF Tick, NothingToRecv, ParseWait, ParseDone, vars
  <2>2. Rest' = Rest
    BY <2>1 DEF Rest
  <2> QED BY <1>2, <2>1, <2>2, SameStays
<1>4. CASE Lose
  <2>1. GenuineInOrder'
    <3>1. delivered' = delivered /\ lost' > 0
      BY <1>0, <1>4 DEF Lose
    <3> QED BY <1>2, <3>1 DEF GenuineInOrder
  <2> QED BY <1>0, <1>1, <1>2, <1>4, <2>1, LoseStays
<1>5. ASSUME NEW n \in 1..Len(line), Recv(n) PROVE InStream' /\ GenuineInOrder'
  <2>1. Rest' = Rest
    BY <1>0, <1>5, Received
  <2>2. delivered' = delivered /\ lost' = lost
    BY <1>5 DEF Recv
  <2> QED BY <1>2, <2>1, <2>2, SameStays
<1>6. CASE ParsePacket
  BY <1>0, <1>2, <1>6, PacketStays
<1>7. CASE ParseDiscard
  <2>1. PICK e \in Nat : Drops(e)
    BY <1>0, <1>7, DiscardParts
  <2>2. delivered' = delivered /\ lost' = lost
    BY <1>7 DEF ParseDiscard
  <2>3. InStream'
    BY <1>0, <1>2, <2>1, <2>2, DropStays
  <2>4. GenuineInOrder'
    BY <1>2, <2>2 DEF GenuineInOrder
  <2> QED BY <2>3, <2>4
<1> QED BY <1>3, <1>4, <1>5, <1>6, <1>7 DEF Next, Poll, parse_packet

(* The inductive invariant holds in every reachable state.                 *)
LEMMA GenuineInvariance == Spec => []GInv
<1>1. Init => GInv
  BY InitType, InitGenuine, SrrpAssumption DEF GInv
<1>2. GInv /\ [Next]_vars => GInv'
  <2> SUFFICES ASSUME GInv, [Next]_vars PROVE GInv'
    OBVIOUS
  <2>1. TypeOK'
    BY NextType, SrrpAssumption DEF GInv
  <2>2. InStream' /\ GenuineInOrder'
    BY NextGenuine, SrrpAssumption
  <2> QED BY <2>1, <2>2 DEF GInv
<1> QED BY <1>1, <1>2, PTL DEF Spec

(* Whatever fragments the stream comes in, and whichever single byte of it *)
(* is lost, the handlers get packets of the peer, each at most once and in *)
(* order, whole or short of one digit of the fields that                   *)
(* srrp_read_one_packet() does not measure.                                *)
THEOREM GenuineDelivery == Spec => []GenuineInOrder
<1>1. GInv => GenuineInOrder
  BY DEF GInv
<1> QED BY <1>1, GenuineInvariance, PTL

-----------------------------------------------------------------------------
(* In a clean run nothing is lost.                                         *)

(* A byte just received has not expired.                                   *)
LEMMA FreshByte ==
  ASSUME TicksPerSecond \in Nat \ {0}, ParseTimeout \in Nat \ {0}, phase' \in 0..TicksPerSecond - 1,
         age' = 0
  PROVE  ~Expired'
<1> DEFINE d == phase' - age'
           p == d % TicksPerSecond
<1>1. d \in Int
  OBVIOUS
<1> HIDE DEF d
<1>2. p \in Nat /\ p < TicksPerSecond
  BY <1>1
<1> HIDE DEF p
<1>3. p + age' = p
  BY <1>2
<1>4. p \div TicksPerSecond = 0
  BY <1>2
<1>5. (p + age') \div TicksPerSecond = 0
  BY <1>3, <1>4
<1>6. ~((p + age') \div TicksPerSecond >= ParseTimeout)
  BY <1>5
<1> QED BY <1>6, Zenon DEF Expired, p, d

(* What the parser drops does not change how the buffer ends.              *)
LEMMA SameEnd ==
  ASSUME TypeOK, NEW e \in Nat, Drops(e), buf' # <<>>
  PROVE  buf # <<>> /\ (CutAtStop(buf') <=> CutAtStop(buf))
<1>1. buf \in Seq(Bytes) /\ e \in 0..Len(buf) /\ buf' = SubSeq(buf, e + 1, Len(buf))
  BY DEF TypeOK, Drops
<1> DEFINE u == SubSeq(buf, e + 1, Len(buf))
<1>2. u \in Seq(Bytes) /\ Len(u) = Len(buf) - e /\ \A i \in 1..Len(u) : u[i] = buf[i + e]
  BY <1>1, DropFront
<1>3. buf' = u
  BY <1>1
<1> HIDE DEF u
<1>4. Len(u) \in Nat /\ Len(u) # 0 /\ Len(buf) \in Nat
  BY <1>1, <1>2, <1>3
<1>5. Len(u) \in 1..Len(u) /\ Len(u) + e = Len(buf)
  BY <1>1, <1>2, <1>4
<1>6. u[Len(u)] = buf[Len(buf)]
  BY <1>2, <1>5
<1>7. Last(buf') = Last(buf)
  BY <1>3, <1>6 DEF Last
<1>8. buf # <<>>
  BY <1>1, <1>4, <1>5
<1> QED BY <1>7, <1>8, Zenon DEF CutAtStop

LEMMA SentParts ==
  ASSUME SrrpAssumption
  PROVE  /\ Len(Sent[0]) = 0 /\ Len(Sent[NumPackets]) = Len(Stream)
         /\ \A m \in 0..NumPackets : Len(Sent[m]) \in Nat
<1>1. /\ NumPackets \in Nat \ {0} /\ Joins(Sent, Written, NumPackets, Bytes)
      /\ Stream = Sent[NumPackets]
  BY SentJoins
<1>2. Sent[0] = <<>> /\ Sent \in [0..NumPackets -> Seq(Bytes)]
  BY <1>1, Zenon DEF Joins, Links
<1>3. \A m \in 0..NumPackets : Len(Sent[m]) \in Nat
  BY <1>2
<1> QED BY <1>1, <1>2, <1>3

(* A clean rest has no gap.                                                *)
LEMMA CleanFollows ==
  ASSUME SrrpAssumption, TypeOK, CleanRest
  PROVE  /\ Behind \in Nat /\ Len(Rest) \in Nat /\ Rest \in Seq(Bytes)
         /\ Follows(Rest, Behind, Len(Rest))
<1> DEFINE n == Len(delivered)
<1>1. Behind \in Nat
  <2>1. n \in Nat /\ n <= NumPackets
    BY DEF TypeOK, CleanRest
  <2>2. n \in 0..NumPackets
    BY <2>1 DEF SrrpAssumption
  <2> HIDE DEF n
  <2>3. Len(Sent[n]) \in Nat
    BY <2>2, SentParts
  <2> QED BY <2>3 DEF Behind, n
<1>2. Rest \in Seq(Bytes) /\ Len(Rest) \in Nat
  <2>1. buf \in Seq(Bytes) /\ line \in Seq(Bytes)
    BY DEF TypeOK
  <2>2. Rest \in Seq(Bytes)
    BY <2>1, ConcatParts DEF Rest
  <2> QED BY <2>2
<1>3. /\ Len(Stream) = Behind + Len(Rest)
      /\ \A i \in 1..Len(Rest) : Rest[i] = Stream[Behind + i]
  BY DEF CleanRest
<1>4. ASSUME NEW i \in 1..Len(Rest)
      PROVE At(Behind, Len(Rest), i) = Behind + i /\ Behind + i \in 1..Len(Stream)
  BY <1>1, <1>2, <1>3 DEF At
<1> QED BY <1>1, <1>2, <1>3, <1>4 DEF Follows

(* The packet accepted is the next one, and it is there with its stop byte.*)
LEMMA CleanPacket ==
  ASSUME SrrpAssumption, TypeOK, CleanRest, ParsePacket, ~CutAtStop(buf)
  PROVE  CleanRest'
<1> DEFINE n == Len(delivered)
           k == buf[3].pac
           t == Text(buf)
<1>1. /\ n \in Nat /\ n <= NumPackets /\ Behind \in Nat /\ Behind = Len(Sent[n])
      /\ delivered \in Seq(Seq(Bytes)) /\ buf \in Seq(Bytes) /\ line \in Seq(Bytes)
  <2>1. n \in Nat /\ n <= NumPackets /\ delivered \in Seq(Seq(Bytes))
        /\ buf \in Seq(Bytes) /\ line \in Seq(Bytes)
    BY DEF TypeOK, CleanRest
  <2>2. n \in 0..NumPackets
    BY <2>1 DEF SrrpAssumption
  <2> QED BY <2>1, <2>2, SentParts DEF Behind
<1>2. Rest \in Seq(Bytes) /\ Len(Rest) \in Nat /\ Stream \in Seq(Bytes) /\ Len(Stream) \in Nat
  <2>1. Rest \in Seq(Bytes)
    BY <1>1, ConcatParts DEF Rest
  <2>2. Stream \in Seq(Bytes)
    BY StreamParts
  <2> QED BY <2>1, <2>2
<1>3. /\ Len(Stream) = Behind + Len(Rest)
      /\ \A i \in 1..Len(Rest) : Rest[i] = Stream[Behind + i]
      /\ \A i \in DOMAIN delivered : delivered[i][1].pac = i
  BY DEF CleanRest
<1>4. Follows(Rest, Behind, Len(Rest))
  BY CleanFollows
<1>5. srrp_read_one_packet(buf) /\ delivered' = Append(delivered, t)
  BY DEF ParsePacket
<1>6. /\ k \in 1..NumPackets /\ Size[k] \in Nat /\ Size[k] >= 6 /\ Size[k] - 1 <= Len(buf)
      /\ At(Behind, Len(Rest), 1) = Start(k) + 1
      /\ \A i \in 1..Size[k] - 1 : t[i] = Byte(k, i) /\ buf[i] = Byte(k, i)
  <2>1. /\ k \in 1..NumPackets /\ Size[k] \in Nat /\ Size[k] >= 6 /\ Len(t) <= Len(buf)
        /\ \A i \in 1..Len(t) : t[i] = buf[i]
        /\ At(Behind, Len(Rest), 1) = Start(k) + 1
        /\ Whole(t, k) \/ (Len(Rest) = 3 /\ Short(t, k))
    BY <1>1, <1>2, <1>4, <1>5, Accepted
  <2> HIDE DEF k, t
  <2>2. Len(Rest) >= Len(buf) /\ Len(buf) \in Nat
    BY <1>1, ConcatParts DEF Rest
  <2>3. Len(t) = Size[k] - 2 => Len(Rest) # 3
    <3> DEFINE z == Size[k]
               L == Len(t)
               b == Len(buf)
               r == Len(Rest)
    <3>1. z \in Nat /\ z >= 6 /\ L <= b /\ b \in Nat /\ r \in Nat /\ r >= b
      BY <1>2, <2>1, <2>2, Zenon
    <3> HIDE DEF z, L, b, r
    <3>2. L = z - 2 => r # 3
      BY <3>1
    <3> QED BY <3>2 DEF z, L, b, r
  <2>4. Whole(t, k)
    BY <2>1, <2>3 DEF Short
  <2> QED BY <2>1, <2>4 DEF Whole
<1> HIDE DEF k, t
<1>7. /\ Start(k) \in Nat /\ Len(Sent[k]) = Start(k) + Size[k]
      /\ Start(k) + Size[k] <= Len(Stream)
  BY <1>6, StreamParts
<1>8. Start(k) = Behind
  <2>2. At(Behind, Len(Rest), 1) = Start(k) + 1
    BY <1>6
  <2>3. Len(Rest) = Len(buf) + Len(line) /\ Len(buf) \in Nat /\ Len(line) \in Nat
    BY <1>1, ConcatParts DEF Rest
  <2>4. Len(buf) >= 3
    BY <1>6, <2>3
  <2>5. Len(Rest) >= 1
    BY <2>3, <2>4
  <2> QED BY <1>1, <1>2, <1>7, <2>2, <2>5 DEF At
<1>9. k = n + 1
  <2>1. n # NumPackets
    <3>1. Behind # Len(Stream)
      BY <1>1, <1>2, <1>6, <1>7, <1>8, SMTT(30)
    <3> QED BY <1>1, <3>1, SentParts
  <2>2. n + 1 \in 1..NumPackets
    BY <1>1, <2>1 DEF SrrpAssumption
  <2>3. Start(n + 1) = Behind
    BY <1>1 DEF Start
  <2>4. /\ Size[n + 1] \in Nat /\ Size[n + 1] >= 6
        /\ k < n + 1 => Start(k) + Size[k] <= Start(n + 1)
        /\ n + 1 < k => Start(n + 1) + Size[n + 1] <= Start(k)
    BY <1>6, <2>2, StreamParts
  <2> DEFINE sn == Start(n + 1)
             zn == Size[n + 1]
             sk == Start(k)
             zk == Size[k]
             h == n + 1
  <2>7. /\ zn \in Nat /\ zn >= 6 /\ zk \in Nat /\ zk >= 6 /\ sk \in Nat /\ sk = sn
        /\ k < h => sk + zk <= sn
        /\ h < k => sn + zn <= sk
    BY <1>6, <1>7, <1>8, <2>3, <2>4
  <2>8. ~(k < h) /\ ~(h < k)
    <3> HIDE DEF sn, zn, sk, zk, h
    <3> QED BY <2>7
  <2>5. ~(k < n + 1) /\ ~(n + 1 < k)
    BY <2>8
  <2>6. k \in Int
    BY <1>6
  <2> QED BY <1>1, <2>5, <2>6
<1>10. Size[k] <= Len(buf)
  <2> SUFFICES ASSUME ~(Size[k] <= Len(buf)) PROVE FALSE
    OBVIOUS
  <2>1. Len(buf) = Size[k] - 1 /\ Len(buf) \in 1..Size[k] - 1
    BY <1>1, <1>6
  <2>2. buf[Len(buf)] = Byte(k, Size[k] - 1)
    BY <1>6, <2>1
  <2>3. CutAtStop(buf)
    BY <1>6, <2>2 DEF CutAtStop, Last, Byte
  <2> QED BY <2>3
<1>11. PICK e \in Nat : Drops(e) /\ e = Size[k]
  BY <1>1, <1>2, <1>4, <1>10, PacketDrops DEF k
<1>12. /\ Len(Rest') = Len(Rest) - e /\ e <= Len(Rest)
       /\ \A i \in 1..Len(Rest') : Rest'[i] = Rest[i + e]
  BY <1>11, RestParts
<1>13. /\ Len(delivered') = n + 1 /\ DOMAIN delivered' = 1..n + 1 /\ DOMAIN delivered = 1..n
       /\ delivered'[n + 1] = t /\ \A i \in 1..n : delivered'[i] = delivered[i]
  <2>1. t \in Seq(Bytes)
    BY <1>1, TextParts DEF t
  <2> QED BY <1>1, <1>5, <2>1
<1> HIDE DEF n
<1>14. Behind' = Behind + e
  <2>1. Behind' = Len(Sent[n + 1])
    BY <1>13 DEF Behind
  <2> QED BY <1>7, <1>8, <1>9, <1>11, <2>1
<1>15. t[1].pac = n + 1
  <2>1. 1 \in 1..Size[k] - 1
    BY <1>6
  <2>2. t[1] = Byte(k, 1)
    BY <1>6, <2>1
  <2> QED BY <1>9, <2>2 DEF Byte
<1>16. \A i \in DOMAIN delivered' : delivered'[i][1].pac = i
  <2>1. \A i \in 1..n + 1 : i \in 1..n \/ i = n + 1
    BY <1>1
  <2> QED BY <1>3, <1>13, <1>15, <2>1
<1>17. Len(delivered') <= NumPackets
  BY <1>6, <1>9, <1>13
<1>18. Len(Stream) = Behind' + Len(Rest')
  BY <1>1, <1>2, <1>3, <1>12, <1>14
<1>19. ASSUME NEW i \in 1..Len(Rest') PROVE Rest'[i] = Stream[Behind' + i]
  <2> DEFINE r == Len(Rest)
             r1 == Len(Rest')
             b == Behind
             b1 == Behind'
  <2>2. r \in Nat /\ r1 = r - e /\ b \in Nat /\ b1 = b + e /\ e \in Nat /\ i \in 1..r1
    BY <1>1, <1>2, <1>12, <1>14
  <2>3. i + e \in 1..r /\ b + (i + e) = b1 + i
    <3> HIDE DEF r, r1, b, b1
    <3> QED BY <2>2
  <2>1. i + e \in 1..Len(Rest) /\ Behind + (i + e) = Behind' + i
    BY <2>3
  <2> QED BY <1>3, <1>12, <2>1
<1> QED BY <1>16, <1>17, <1>18, <1>19 DEF CleanRest

LEMMA InitClean ==
  ASSUME SrrpAssumption, Init
  PROVE  CInv
<1> SUFFICES ASSUME clean PROVE lost = 0 /\ CleanRest /\ buf = <<>>
  BY DEF CInv
<1>1. lost = 0 /\ buf = <<>> /\ delivered = <<>> /\ line = Stream
  BY DEF Init
<1>2. Stream \in Seq(Bytes) /\ Len(Stream) \in Nat
  <2>1. Stream \in Seq(Bytes)
    BY StreamParts
  <2> QED BY <2>1
<1>3. Rest = Stream
  BY <1>1, <1>2 DEF Rest
<1>4. Behind = 0
  BY <1>1, SentParts DEF Behind
<1>5. Len(delivered) <= NumPackets /\ \A i \in DOMAIN delivered : delivered[i][1].pac = i
  BY <1>1 DEF SrrpAssumption
<1> HIDE DEF Stream
<1>6. Len(Stream) = Behind + Len(Rest) /\ \A i \in 1..Len(Rest) : Rest[i] = Stream[Behind + i]
  BY <1>2, <1>3, <1>4
<1> QED BY <1>1, <1>5, <1>6 DEF CleanRest

(* Nothing of CleanRest depends on anything but these.                     *)
LEMMA SameRest ==
  ASSUME CleanRest, Rest' = Rest, delivered' = delivered
  PROVE  CleanRest'
  BY DEF CleanRest, Behind

LEMMA NextClean ==
  ASSUME SrrpAssumption, TypeOK, CInv, [Next]_vars
  PROVE  CInv'
<1> SUFFICES ASSUME clean'
             PROVE  lost' = 0 /\ CleanRest' /\ (buf' # <<>> => ~CutAtStop(buf') /\ ~Expired')
  BY DEF CInv
<1>0. /\ buf \in Seq(Bytes) /\ line \in Seq(Bytes) /\ phase \in 0..TicksPerSecond - 1
      /\ TicksPerSecond \in Nat \ {0} /\ ParseTimeout \in Nat \ {0}
  BY DEF TypeOK, SrrpAssumption
<1>1. clean /\ ~Lose
  BY DEF Next, Poll, parse_packet, Tick, Lose, Recv, NothingToRecv, ParsePacket, ParseWait,
         ParseDiscard, ParseDone, vars
<1>2. lost = 0 /\ CleanRest /\ (buf # <<>> => ~CutAtStop(buf) /\ ~Expired)
  BY <1>1 DEF CInv
<1>3. CASE Tick
  <2>1. UNCHANGED <<line, buf, delivered, lost>> /\ (buf # <<>> => ~Expired')
    BY <1>3 DEF Tick
  <2>2. Rest' = Rest
    BY <2>1 DEF Rest
  <2>3. CleanRest'
    BY <1>2, <2>1, <2>2, SameRest
  <2>4. CutAtStop(buf') <=> CutAtStop(buf)
    BY <2>1
  <2> QED BY <1>2, <2>1, <2>3, <2>4
<1>4. CASE NothingToRecv \/ ParseWait \/ ParseDone \/ UNCHANGED vars
  <2>1. UNCHANGED <<line, buf, delivered, lost, phase, age>>
    BY <1>4 DEF NothingToRecv, ParseWait, ParseDone, vars
  <2>2. Rest' = Rest
    BY <2>1 DEF Rest
  <2>3. CleanRest'
    BY <1>2, <2>1, <2>2, SameRest
  <2>4. CutAtStop(buf') <=> CutAtStop(buf)
    BY <2>1
  <2>5. Expired' <=> Expired
    BY <2>1 DEF Expired
  <2> QED BY <1>2, <2>1, <2>3, <2>4, <2>5
<1>5. ASSUME NEW n \in 1..Len(line), Recv(n)
      PROVE  lost' = 0 /\ CleanRest' /\ (buf' # <<>> => ~CutAtStop(buf') /\ ~Expired')
  <2>1. delivered' = delivered /\ lost' = lost /\ phase' = phase /\ age' = 0 /\ ~CutAtStop(buf')
    BY <1>5 DEF Recv
  <2>2. Rest' = Rest
    BY <1>0, <1>5, Received
  <2>3. CleanRest'
    BY <1>2, <2>1, <2>2, SameRest
  <2>4. ~Expired'
    BY <1>0, <2>1, FreshByte
  <2> QED BY <1>2, <2>1, <2>3, <2>4
<1>6. CASE ParsePacket
  <2>1. buf # <<>>
    BY <1>0, <1>6, TextParts DEF ParsePacket, srrp_read_one_packet, FieldsMatch
  <2>2. ~CutAtStop(buf) /\ ~Expired
    BY <1>2, <2>1
  <2>3. CleanRest'
    BY <1>2, <1>6, <2>2, CleanPacket
  <2>4. lost' = lost /\ (Expired' <=> Expired)
    BY <1>6 DEF ParsePacket, Expired
  <2>5. \E base, gap \in Nat : Follows(Rest, base, gap)
    BY <1>2, CleanFollows
  <2>6. PICK e \in Nat : Drops(e)
    BY <1>6, <2>5, PacketDrops
  <2>7. buf' # <<>> => ~CutAtStop(buf')
    BY <2>2, <2>6, SameEnd
  <2> QED BY <1>2, <2>2, <2>3, <2>4, <2>7
<1>7. CASE ParseDiscard
  <2>1. buf # <<>> /\ Expired
    BY <1>7 DEF ParseDiscard
  <2> QED BY <1>2, <2>1
<1> QED BY <1>1, <1>3, <1>4, <1>5, <1>6, <1>7 DEF Next, Poll, parse_packet

(* The inductive invariant of clean runs.                                  *)
LEMMA CleanInvariance == Spec => [](TypeOK /\ CInv)
<1>1. Init => TypeOK /\ CInv
  BY InitType, InitClean, SrrpAssumption
<1>2. TypeOK /\ CInv /\ [Next]_vars => (TypeOK /\ CInv)'
  BY NextType, NextClean, SrrpAssumption
<1> QED BY <1>1, <1>2, PTL DEF Spec

(* The first m packets, joined, are what was sent before the rest.         *)
LEMMA DeliveredJoin ==
  ASSUME SrrpAssumption, NEW d, NEW m \in 0..NumPackets, DOMAIN d = 1..m,
         \A i \in 1..m : d[i][1].pac = i
  PROVE  FlattenSeq([i \in DOMAIN d |-> srrp_write(d[i][1].pac)]) = Sent[m]
<1> DEFINE s == [i \in 1..m |-> srrp_write(i)]
           g == [i \in 0..m |-> Sent[i]]
<1>1. /\ NumPackets \in Nat \ {0} /\ Joins(Sent, Written, NumPackets, Bytes)
      /\ Written \in [1..NumPackets -> Seq(Bytes)]
  BY SentJoins, WrittenParts
<1>2. /\ m \in Nat /\ \A i \in 1..m : i \in 1..NumPackets /\ i - 1 \in 0..m /\ i \in 0..m
      /\ \A i \in 0..m : i \in 0..NumPackets /\ 0 \in 0..m /\ m \in 0..m
  BY <1>1
<1>3. [i \in DOMAIN d |-> srrp_write(d[i][1].pac)] = s
  OBVIOUS
<1>4. s \in [1..m -> Seq(Bytes)] /\ \A i \in 1..m : s[i] = Written[i]
  BY <1>1, <1>2 DEF Written
<1>5. g \in [0..m -> Seq(Bytes)]
  BY <1>1, <1>2 DEF Joins
<1>6. g[0] = <<>> /\ \A i \in 1..m : g[i] = g[i - 1] \o s[i]
  <2>1. Sent[0] = <<>> /\ \A i \in 1..NumPackets : Sent[i] = Sent[i - 1] \o Written[i]
    BY <1>1, Zenon DEF Joins, Links
  <2>2. 0 \in 0..m
    BY <1>2
  <2>3. \A i \in 0..m : g[i] = Sent[i]
    OBVIOUS
  <2> HIDE DEF g, s
  <2>4. g[0] = <<>>
    BY <2>1, <2>2, <2>3
  <2>5. ASSUME NEW i \in 1..m PROVE g[i] = g[i - 1] \o s[i]
    <3>1. i \in 1..NumPackets /\ i \in 0..m /\ i - 1 \in 0..m
      BY <1>2
    <3>2. g[i] = Sent[i] /\ g[i - 1] = Sent[i - 1] /\ s[i] = Written[i]
      BY <1>4, <2>3, <3>1, Zenon
    <3>3. Sent[i] = Sent[i - 1] \o Written[i]
      BY <2>1, <3>1, Zenon
    <3> QED BY <3>2, <3>3, Zenon
  <2> QED BY <2>4, <2>5
<1>7. g[m] = Sent[m]
  BY <1>2
<1> HIDE DEF g, s
<1>8. Joins(g, s, m, Bytes)
  BY <1>5, <1>6, Zenon DEF Joins, Links
<1>9. FlattenSeq(s) = g[m]
  <2>1. m \in Nat /\ s \in [1..m -> Seq(Bytes)]
    BY <1>2, <1>4
  <2> QED BY <1>8, <2>1, FlattenIsJoin, ZenonT(60)
<1> QED BY <1>3, <1>7, <1>9, Zenon

LEMMA PrefixAndRest ==
  ASSUME NEW S, NEW a \in Seq(S), NEW r \in Seq(S), NEW w \in Seq(S), Begins(a, w),
         Len(w) = Len(a) + Len(r), \A i \in 1..Len(r) : r[i] = w[Len(a) + i]
  PROVE  a \o r = w
<1> DEFINE c == a \o r
<1>1. /\ c \in Seq(S) /\ Len(a) \in Nat /\ Len(r) \in Nat /\ Len(c) = Len(a) + Len(r)
      /\ \A i \in 1..Len(a) : c[i] = a[i]
      /\ \A i \in 1..Len(r) : c[Len(a) + i] = r[i]
  BY ConcatParts
<1> HIDE DEF c
<1>2. ASSUME NEW i \in 1..Len(c) PROVE c[i] = w[i]
  <2>1. CASE i <= Len(a)
    <3>1. i \in 1..Len(a)
      BY <1>1, <2>1
    <3> QED BY <1>1, <3>1 DEF Begins
  <2>2. CASE ~(i <= Len(a))
    <3> DEFINE j == i - Len(a)
    <3>1. j \in 1..Len(r) /\ i = Len(a) + j
      BY <1>1, <2>2
    <3> HIDE DEF j
    <3> QED BY <1>1, <3>1
  <2> QED BY <2>1, <2>2
<1>3. c = w
  BY <1>1, <1>2, SeqEqual
<1> QED BY <1>3 DEF c

(* As long as no byte is lost, no fragment ends just before a stop byte    *)
(* and none waits until it expires, parse_packet() loses nothing: every    *)
(* byte of the stream is delivered, buffered or still to come.             *)
THEOREM NothingIsLost == Spec => []NothingLost
<1>1. TypeOK /\ CInv => NothingLost
  <2> SUFFICES ASSUME TypeOK, CInv, clean
               PROVE  FlattenSeq([i \in DOMAIN delivered |-> srrp_write(delivered[i][1].pac)])
                        \o buf \o line = Stream
    BY DEF NothingLost
  <2> DEFINE m == Len(delivered)
             a == Sent[m]
  <2>1. CleanRest /\ SrrpAssumption
    BY SrrpAssumption DEF CInv
  <2>2. /\ delivered \in Seq(Seq(Bytes)) /\ buf \in Seq(Bytes) /\ line \in Seq(Bytes)
        /\ m \in Nat /\ DOMAIN delivered = 1..m
    BY DEF TypeOK
  <2>3. m \in 0..NumPackets
    BY <2>1, <2>2 DEF CleanRest, SrrpAssumption
  <2>4. FlattenSeq([i \in DOMAIN delivered |-> srrp_write(delivered[i][1].pac)]) = a
    <3>1. \A i \in 1..m : delivered[i][1].pac = i
      BY <2>1, <2>2 DEF CleanRest
    <3> HIDE DEF m
    <3> QED BY <2>1, <2>2, <2>3, <3>1, DeliveredJoin
  <2>5. /\ a \in Seq(Bytes) /\ Begins(a, Stream) /\ Stream \in Seq(Bytes)
    <3>1. /\ NumPackets \in Nat \ {0} /\ Joins(Sent, Written, NumPackets, Bytes)
          /\ Stream = Sent[NumPackets] /\ Written \in [1..NumPackets -> Seq(Bytes)]
      BY <2>1, SentJoins, WrittenParts
    <3> HIDE DEF m
    <3>2. NumPackets \in 0..NumPackets /\ m <= NumPackets
      BY <2>3, <3>1
    <3>3. Begins(Sent[m], Sent[NumPackets])
      BY <2>3, <3>1, <3>2, JoinsPrefix
    <3>4. Sent[m] \in Seq(Bytes) /\ Sent[NumPackets] \in Seq(Bytes)
      BY <2>3, <3>1, <3>2 DEF Joins
    <3> QED BY <3>1, <3>3, <3>4, Zenon
  <2>6. /\ Len(Stream) = Len(a) + Len(Rest)
        /\ \A i \in 1..Len(Rest) : Rest[i] = Stream[Len(a) + i]
    BY <2>1, Zenon DEF CleanRest, Behind
  <2> HIDE DEF m, a
  <2>7. Rest \in Seq(Bytes)
    BY <2>2, ConcatParts DEF Rest
  <2>8. a \o Rest = Stream
    BY <2>5, <2>6, <2>7, PrefixAndRest
  <2>9. (a \o buf) \o line = a \o (buf \o line)
    BY <2>2, <2>5
  <2> QED BY <2>4, <2>8, <2>9, Zenon DEF Rest
<1> QED BY <1>1, CleanInvariance, PTL

-----------------------------------------------------------------------------
(* Why parse_packet() leaves its loop: an iteration that does not return   *)
(* takes bytes out of the buffer, a whole packet or all that is left.      *)
ParserEnds == [][parse_packet => pc' = "recv" \/ Len(buf') < Len(buf)]_vars

(* The loop in parse_packet() ends, whatever is in the buffer.             *)
THEOREM ParseLoopEnds == Spec => ParserEnds
<1>1. TypeOK /\ [Next]_vars => [parse_packet => pc' = "recv" \/ Len(buf') < Len(buf)]_vars
  <2> SUFFICES ASSUME TypeOK, parse_packet PROVE pc' = "recv" \/ Len(buf') < Len(buf)
    OBVIOUS
  <2>1. CASE ParseWait \/ ParseDiscard \/ ParseDone
    BY <2>1 DEF ParseWait, ParseDiscard, ParseDone
  <2>2. CASE ParsePacket
    <3> DEFINE z == Size[buf[3].pac]
               u == SubSeq(buf, z + 1, Len(buf))
    <3>1. buf \in Seq(Bytes) /\ Len(buf) \in Nat
      BY DEF TypeOK
    <3>2. Len(buf) >= 3
      BY <2>2, <3>1, TextParts DEF ParsePacket, srrp_read_one_packet, FieldsMatch
    <3>3. z \in Nat /\ z >= 6
      <4>1. buf[3] \in Bytes
        BY <3>1, <3>2
      <4>2. buf[3].pac \in 1..NumPackets
        BY <4>1 DEF Bytes
      <4> QED BY <4>2, SrrpAssumption DEF SrrpAssumption
    <3>4. buf' = IF z > Len(buf) THEN <<>> ELSE u
      BY <2>2 DEF ParsePacket, atbuf_read_advance
    <3> HIDE DEF z
    <3>5. CASE z > Len(buf)
      BY <3>2, <3>4, <3>5
    <3>6. CASE ~(z > Len(buf))
      <4>1. Len(u) = Len(buf) - z
        BY <3>1, <3>3, <3>6
      <4> HIDE DEF u
      <4> QED BY <3>1, <3>3, <3>4, <3>6, <4>1
    <3> QED BY <3>5, <3>6
  <2> QED BY <2>1, <2>2 DEF parse_packet
<1> QED BY <1>1, TypeCorrect, PTL DEF Spec, ParserEnds

=============================================================================
