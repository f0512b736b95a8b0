----------------------------- MODULE SrrpStream -----------------------------
(***************************************************************************)
(* How SRRP packets are cut out of a byte stream: the writers and readers  *)
(* of src/srrp.c and parse_packet() of src/apix.c, on one receive buffer.  *)
(*                                                                         *)
(* The peer writes packets 1, 2, ... one after the other.  The stream      *)
(* delivers the bytes in fragments of any size, may have been opened in    *)
(* the middle of a packet and may lose up to MaxLost bytes (a serial line).*)
(* A byte is the packet it belongs to and its place in it:                 *)
(*   1          the leader character                                       *)
(*   2          the sequence number, the digit that follows a leader       *)
(*   3          what sscanf() insists on: commas, seat, the length's value *)
(*   4          a digit it can do without: "%4x" and "%x" also match fewer,*)
(*              so that a zero that leads the length or any one digit of   *)
(*              the source or of the checksum may be missing               *)
(*   5          the header, from ":/" to "?{"                              *)
(*   6..        more data                                                  *)
(*   Size[k]    the stop byte, NUL                                         *)
(* The receive buffer is a queue of bytes, which is what AtBuf implements; *)
(* the byte after the last one received reads as NUL (AtBuf, Terminated).  *)
(***************************************************************************)
EXTENDS Integers, Sequences, SequencesExt, FiniteSetsExt

CONSTANTS
  NumPackets,        \* bound: packets the peer sends
  Size,              \* packet -> its length in bytes, the stop byte included
  Kind,              \* packet -> its leader, 1..5 in the order > < # % @
  ParseTimeout,      \* PARSE_PACKET_TIMEOUT / 1000, in seconds
  TicksPerSecond,    \* resolution of the clock that time(0) rounds down
  MaxLost            \* bound: bytes the line loses (two can put a "?{" before
                     \* the first ":/", for which the code is undefined)

ASSUME SrrpAssumption ==
  /\ NumPackets \in Nat \ {0}
  /\ Size \in [1..NumPackets -> Nat] /\ \A k \in 1..NumPackets : Size[k] >= 6
  /\ Kind \in [1..NumPackets -> 1..5]
  /\ ParseTimeout \in Nat \ {0}
  /\ TicksPerSecond \in Nat \ {0}
  /\ MaxLost \in {0, 1}

VARIABLES
  line,       \* bytes sent and not yet received
  buf,        \* sinkfd->rxbuf
  pc,         \* "recv" or "parse", the part of apibus_poll() that is next
  phase,      \* ticks into the current second
  age,        \* ticks since the last byte was received (ts_poll_recv)
  delivered,  \* the texts of the packets queued for the handlers, oldest first
  lost,       \* bytes the line has lost
  clean       \* no byte lost, no packet cut at its stop byte, no fragment left
              \* waiting until it expired (history)

vars == <<line, buf, pc, phase, age, delivered, lost, clean>>

Byte(k, i) == [pac |-> k, pos |-> i]

(* srrp_write_request() and its siblings.                                  *)
srrp_write(k) == [i \in 1..Size[k] |-> Byte(k, i)]

IsStop(b) == b.pos = Size[b.pac]

Stream == FlattenSeq([k \in 1..NumPackets |-> srrp_write(k)])

(* A line may be opened while the first packet is on it.                   *)
Init ==
  /\ \E n \in 0..Size[1] - 1 : line = SubSeq(Stream, n + 1, Len(Stream))
  /\ buf = <<>>
  /\ pc = "recv"
  /\ phase = 0
  /\ age = 0
  /\ delivered = <<>>
  /\ lost = 0
  /\ clean = (line = Stream)

-----------------------------------------------------------------------------
(* srrp.c.                                                                 *)

(* What the C string functions see of a buffer.                            *)
Text(b) ==
  LET stops == {i \in DOMAIN b : IsStop(b[i])}
  IN IF stops = {} THEN b ELSE SubSeq(b, 1, Min(stops) - 1)

(* The tests before the length is looked at: a leader, the fields of that  *)
(* kind of packet, and both delimiters.                                    *)
FieldsMatch(t) ==
  /\ Len(t) >= 3
  /\ t[1].pos = 1 /\ t[2].pos = 2 /\ t[3].pos = 3
  /\ Kind[t[1].pac] = Kind[t[3].pac]
  /\ \E i \in DOMAIN t : t[i].pos = 5

(* strstr(buf, ":/").                                                      *)
HeaderAt(t) == Min({i \in DOMAIN t : t[i].pos = 5})

(* What the length field is compared with: the header and the data are     *)
(* measured and the stop byte, which need not be there yet, is counted;    *)
(* but the fields before the header count with the width they are written  *)
(* with, 3 + 2 + 5 + 5, whatever is there.                                 *)
FieldsWidth == 4

MeasuredLen(t) == FieldsWidth + (Len(t) - HeaderAt(t) + 1) + 1

(* A fault for the mutation runs (so are the operators below whose comment *)
(* says "fault"): the length field is not compared with the text.          *)
ReadAnyLength(b) == FieldsMatch(Text(b))

(* srrp_read_one_packet() accepts the buffer.                              *)
srrp_read_one_packet(b) ==
  LET t == Text(b)
  IN FieldsMatch(t) /\ MeasuredLen(t) = Size[t[3].pac]

IsPacketStart(t, i) == t[i].pos = 1 /\ i < Len(t) /\ t[i + 1].pos = 2

IsLeader(t, i, kind) == t[i].pos = 1 /\ Kind[t[i].pac] = kind

(* strchr() for one leader, and the tests on what it finds.  (The test of  *)
(* p[-1] never decides: p is the first such leader of the text.)           *)
LeaderAt(t, kind) ==
  {i \in DOMAIN t :
     /\ IsLeader(t, i, kind)
     /\ \A j \in 1..i-1 : ~IsLeader(t, j, kind)
     /\ IsPacketStart(t, i)}

(* The leaders are searched for one after the other, not the text byte by  *)
(* byte; a text that starts with a packet gives 0.                         *)
srrp_next_packet_offset(b) ==
  LET t == Text(b)
      kinds == {kind \in 1..5 : LeaderAt(t, kind) # {}}
  IN IF t # <<>> /\ IsPacketStart(t, 1) THEN 0
     ELSE IF kinds = {} THEN -1
     ELSE Min(LeaderAt(t, Min(kinds))) - 1

-----------------------------------------------------------------------------
(* The line and the clock.                                                 *)

(* time(0) >= ts_poll_recv.tv_sec + PARSE_PACKET_TIMEOUT / 1000: what is   *)
(* compared are whole seconds, so that the second in which the last byte   *)
(* came counts in full however late in it that was.                        *)
Expired ==
  LET phaseAtRecv == (phase - age) % TicksPerSecond
  IN (phaseAtRecv + age) \div TicksPerSecond >= ParseTimeout

Tick ==
  /\ phase' = (phase + 1) % TicksPerSecond
  /\ age' = IF age < ParseTimeout * TicksPerSecond THEN age + 1 ELSE age
  /\ clean' = (clean /\ (buf # <<>> => ~Expired'))
  /\ UNCHANGED <<line, buf, pc, delivered, lost>>

Lose ==
  /\ lost < MaxLost
  /\ line # <<>>
  /\ line' = Tail(line)
  /\ lost' = lost + 1
  /\ clean' = FALSE
  /\ UNCHANGED <<buf, pc, phase, age, delivered>>

-----------------------------------------------------------------------------
(* One round of apibus_poll() for this sinkfd: a fragment may be received, *)
(* then parse_packet() loops over the buffer.                              *)

CutAtStop(b) == Last(b).pos + 1 = Size[Last(b).pac]

Recv(n) ==
  /\ pc = "recv"
  /\ buf' = buf \o SubSeq(line, 1, n)
  /\ line' = SubSeq(line, n + 1, Len(line))
  /\ age' = 0
  /\ clean' = (clean /\ ~CutAtStop(buf'))
  /\ pc' = "parse"
  /\ UNCHANGED <<phase, delivered, lost>>

NothingToRecv ==
  /\ pc = "recv"
  /\ pc' = "parse"
  /\ UNCHANGED <<line, buf, phase, age, delivered, lost, clean>>

(* Fault: an advance past the end exposes bytes nobody has sent.           *)
AdvanceUnclamped(n) ==
  buf' = IF n > Len(buf) THEN <<Byte(0, 0)>> ELSE SubSeq(buf, n + 1, Len(buf))

(* atbuf_read_advance(): an advance past the end empties the buffer.       *)
atbuf_read_advance(n) ==
  buf' = IF n > Len(buf) THEN <<>> ELSE SubSeq(buf, n + 1, Len(buf))

(* Fault: the rest of the buffer goes with the packet.                     *)
ParseTakesAll ==
  /\ pc = "parse"
  /\ srrp_read_one_packet(buf)
  /\ delivered' = Append(delivered, Text(buf))
  /\ atbuf_read_advance(Len(buf))
  /\ UNCHANGED <<line, pc, phase, age, lost, clean>>

ParsePacket ==
  /\ pc = "parse"
  /\ srrp_read_one_packet(buf)
  /\ delivered' = Append(delivered, Text(buf))
  /\ atbuf_read_advance(Size[buf[3].pac])
  /\ UNCHANGED <<line, pc, phase, age, lost, clean>>

(* Unreadable: the rest of the packet may still arrive.                    *)
ParseWait ==
  /\ pc = "parse"
  /\ buf # <<>>
  /\ ~srrp_read_one_packet(buf)
  /\ ~Expired
  /\ pc' = "recv"
  /\ UNCHANGED <<line, buf, phase, age, delivered, lost, clean>>

(* Fault: a buffer that starts like a packet is never dropped.             *)
DiscardKeepsStart ==
  /\ pc = "parse"
  /\ buf # <<>>
  /\ ~srrp_read_one_packet(buf)
  /\ Expired
  /\ LET offset == srrp_next_packet_offset(buf)
     IN atbuf_read_advance(IF offset = -1 THEN Len(buf) ELSE offset)
  /\ pc' = "recv"
  /\ UNCHANGED <<line, phase, age, delivered, lost, clean>>

(* Unreadable for too long: skip to the next packet, or drop everything.   *)
ParseDiscard ==
  /\ pc = "parse"
  /\ buf # <<>>
  /\ ~srrp_read_one_packet(buf)
  /\ Expired
  /\ LET offset == srrp_next_packet_offset(buf)
     IN atbuf_read_advance(IF offset \in {-1, 0} THEN Len(buf) ELSE offset)
  /\ pc' = "recv"
  /\ UNCHANGED <<line, phase, age, delivered, lost, clean>>

ParseDone ==
  /\ pc = "parse"
  /\ buf = <<>>
  /\ pc' = "recv"
  /\ UNCHANGED <<line, buf, phase, age, delivered, lost, clean>>

parse_packet == ParsePacket \/ ParseWait \/ ParseDiscard \/ ParseDone

Poll == NothingToRecv \/ (\E n \in 1..Len(line) : Recv(n)) \/ parse_packet

Next == Tick \/ Lose \/ Poll

Spec == Init /\ [][Next]_vars

(* apibus_poll() is called in a loop and the clock advances; nothing is    *)
(* assumed of the line.                                                    *)
FairSpec == Spec /\ WF_vars(Poll) /\ WF_vars(Tick)

-----------------------------------------------------------------------------

Bytes == {b \in [pac : 1..NumPackets, pos : Nat] : b.pos \in 1..Size[b.pac]}

(* The type of the state.                                                  *)
TypeOK ==
  /\ line \in Seq(Bytes)
  /\ buf \in Seq(Bytes)
  /\ pc \in {"recv", "parse"}
  /\ phase \in 0..TicksPerSecond - 1
  /\ age \in 0..ParseTimeout * TicksPerSecond
  /\ delivered \in Seq(Seq(Bytes))
  /\ lost \in 0..MaxLost
  /\ clean \in BOOLEAN

IsPacket(t, k) == Append(t, Byte(k, Size[k])) = srrp_write(k)

LacksDigit(t, k) == Append(t, Byte(k, Size[k])) = RemoveAt(srrp_write(k), 4)

(* What the handlers get are packets of the peer, each at most once and in *)
(* the order they were sent, however the stream is fragmented, wherever it *)
(* was entered and whatever was discarded: byte for byte, or, once a byte  *)
(* has been lost, short of one digit of the fields that the length check   *)
(* does not measure, with the header and the data as they were sent.       *)
GenuineInOrder ==
  \A i \in DOMAIN delivered :
    LET k == delivered[i][1].pac
    IN /\ IsPacket(delivered[i], k) \/ (lost > 0 /\ LacksDigit(delivered[i], k))
       /\ i > 1 => delivered[i - 1][1].pac < k

(* As long as no byte is lost on the line, no fragment ends just before a  *)
(* stop byte and none is left waiting until it expires, the parser loses   *)
(* nothing: every byte is delivered, buffered or still to come.            *)
NothingLost ==
  clean => FlattenSeq([i \in DOMAIN delivered |-> srrp_write(delivered[i][1].pac)])
             \o buf \o line = Stream

(* The parser always gets rid of what it cannot read.                      *)
Drained == buf # <<>> ~> buf = <<>>

-----------------------------------------------------------------------------
(* Statements the code makes about itself and does not keep.               *)

(* The commented-out assertion of atbuf_read_advance(): nobody advances    *)
(* over more bytes than the buffer holds.                                  *)
StopPresent ==
  pc = "parse" /\ srrp_read_one_packet(buf) => Size[buf[3].pac] <= Len(buf)

(* The length field: a packet that has lost a byte is not delivered.       *)
Undamaged == \A i \in DOMAIN delivered : IsPacket(delivered[i], delivered[i][1].pac)

(* PARSE_PACKET_TIMEOUT: an unfinished packet is given 1000 ms after its   *)
(* last byte before it is discarded.                                       *)
Patient ==
  [][buf # <<>> /\ age < ParseTimeout * TicksPerSecond /\ delivered' = delivered
     => Len(buf') >= Len(buf)]_vars

=============================================================================
