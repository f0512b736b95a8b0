-------------------------- MODULE PosixSinkProofs --------------------------
(***************************************************************************)
(* The sinks keep their descriptors in order for any number of descriptors *)
(* and addresses, and however often the application closes some.  IInv is  *)
(* the inductive part of OwnsLive: it adds what a poll function has left   *)
(* to do while it runs, and that a record's file is open.                  *)
(***************************************************************************)
EXTENDS PosixSink, ListLemmas, FiniteSetTheorems, TLAPS

Addrs == UnixAddrs \cup TcpAddrs \cup Devices
Sinkfd == [fd : FDs, sink : Sinks, listen : BOOLEAN, addr : Addrs \cup {None}]
Opened == {"listen", "conn", "tty"}

(* The file behind a record is the one it was made for.                    *)
Owned(s) ==
  /\ file[s.fd].kind \in Opened
  /\ file[s.fd].sink = s.sink /\ file[s.fd].addr = s.addr
  /\ s.listen <=> Listens(s.fd)
  /\ s.sink = "unix" /\ s.listen => s.addr \in UnixAddrs

Distinct == \A i, j \in DOMAIN sinkfds : sinkfds[i].fd = sinkfds[j].fd => i = j

ListInv ==
  /\ sinkfds \in Seq(Sinkfd)
  /\ Distinct
  /\ \A i \in DOMAIN sinkfds : Owned(sinkfds[i])

(* Inside the loop of a poll function the countdown is not at its end.     *)
WalkInv ==
  /\ Idle => todo = {}
  /\ todo # {} => nr_recv_fds # 0
  /\ IsFiniteSet(recvfds)

IInv ==
  /\ TypeOK
  /\ ListInv
  /\ WalkInv
  /\ ~Idle => enabled

-----------------------------------------------------------------------------
(* The kernel hands out the lowest free number.                            *)
LEMMA LowestFree ==
  ASSUME Free # {}
  PROVE  /\ Lowest \in FDs /\ file[Lowest] = Closed /\ Lowest \in Nat
         /\ \A f \in FDs : file[f] = Closed => Lowest <= f
<1>1. Free \subseteq Nat
  BY SinkAssumption DEF Free
<1>2. \E f \in Free : \A g \in Free : f <= g
  BY <1>1, LeastNat
<1>3. Lowest \in Free /\ \A g \in Free : Lowest <= g
  BY <1>2 DEF Lowest
<1> QED BY <1>1, <1>3 DEF Free

(* The sinks that are still to poll.                                       *)
LEMMA LeftParts ==
  ASSUME TypeOK, ~Idle
  PROVE  /\ Polled \in Sinks
         /\ Tail(left) \in {SubSeq(Order, i, 3) : i \in 1..4}
<1>1. Order \in Seq(Sinks) /\ Len(Order) = 3
  BY DEF Order, Sinks, Range
<1>2. PICK i \in 1..4 : left = SubSeq(Order, i, 3)
  BY DEF TypeOK
<1>3. i \in 1..3
  <2>1. SubSeq(Order, 4, 3) = <<>>
    BY <1>1
  <2> QED BY <1>2, <2>1 DEF Idle
<1>4. Polled = Order[i] /\ Order[i] \in Sinks
  <2>1. SubSeq(Order, i, 3)[1] = Order[i]
    BY <1>1, <1>3
  <2>2. Order[i] \in Sinks
    BY <1>3 DEF Order, Sinks, Range
  <2> QED BY <1>2, <2>1, <2>2 DEF Polled
<1>5. Tail(left) = SubSeq(Order, i + 1, 3)
  BY <1>1, <1>2, <1>3
<1> QED BY <1>3, <1>4, <1>5

-----------------------------------------------------------------------------
(* What opening and closing does to the list.                              *)

LEMMA FileTypes ==
  ASSUME TypeOK, NEW fd \in FDs, NEW k \in Opened, NEW sink \in Sinks, NEW a \in Addrs \cup {None}
  PROVE  /\ [file EXCEPT ![fd] = File(k, sink, a)] \in
              [FDs -> [kind : {"closed", "foreign", "listen", "conn", "tty"},
                       sink : Sinks \cup {None},
                       addr : UnixAddrs \cup TcpAddrs \cup Devices \cup {None}]]
         /\ [file EXCEPT ![fd] = File(k, sink, a)][fd] = File(k, sink, a)
         /\ \A f \in FDs : f # fd => [file EXCEPT ![fd] = File(k, sink, a)][f] = file[f]
<1>1. File(k, sink, a) \in [kind : {"closed", "foreign", "listen", "conn", "tty"},
                            sink : Sinks \cup {None},
                            addr : UnixAddrs \cup TcpAddrs \cup Devices \cup {None}]
  BY DEF File, Opened, Addrs
<1> QED BY <1>1 DEF TypeOK

(* A record's file is open, so a free number is in no record.              *)
LEMMA ListedNotFree ==
  ASSUME ListInv, NEW i \in DOMAIN sinkfds
  PROVE  /\ sinkfds[i] \in Sinkfd /\ sinkfds[i].fd \in FDs
         /\ file[sinkfds[i].fd] # Closed /\ file[sinkfds[i].fd] # Foreign
<1>1. sinkfds[i] \in Sinkfd
  BY DEF ListInv
<1>2. file[sinkfds[i].fd].kind \in Opened
  BY DEF ListInv, Owned
<1> QED BY <1>1, <1>2 DEF Sinkfd, Opened, Closed, Foreign

(* A new record in front, for a number that was free.                      *)
LEMMA AddedInv ==
  ASSUME TypeOK, ListInv, NEW s \in Sinkfd, NEW k \in Opened,
         file[s.fd] = Closed, s.listen <=> k = "listen",
         s.sink = "unix" /\ s.listen => s.addr \in UnixAddrs,
         file' = [file EXCEPT ![s.fd] = File(k, s.sink, s.addr)],
         sinkfds' = <<s>> \o sinkfds
  PROVE  ListInv'
<1>1. s.fd \in FDs /\ s.sink \in Sinks /\ s.addr \in Addrs \cup {None}
  BY DEF Sinkfd
<1>2. sinkfds \in Seq(Sinkfd) /\ <<s>> \in Seq(Sinkfd)
  BY DEF ListInv
<1>3. sinkfds' \in Seq(Sinkfd) /\ Len(sinkfds') = Len(sinkfds) + 1
  BY <1>2
<1>4. sinkfds'[1] = s
  BY <1>2
<1>5. ASSUME NEW i \in DOMAIN sinkfds', i # 1
      PROVE  i - 1 \in DOMAIN sinkfds /\ sinkfds'[i] = sinkfds[i - 1]
  BY <1>2, <1>3, <1>5
<1>6. \A i \in DOMAIN sinkfds : sinkfds[i].fd \in FDs /\ sinkfds[i].fd # s.fd
  BY ListedNotFree
<1>7. ASSUME NEW i \in DOMAIN sinkfds', NEW j \in DOMAIN sinkfds', sinkfds'[i].fd = sinkfds'[j].fd
      PROVE  i = j
  <2>1. CASE i = 1 \/ j = 1
    BY <1>4, <1>5, <1>6, <1>7, <2>1
  <2>2. CASE i # 1 /\ j # 1
    <3>1. i - 1 = j - 1
      BY <1>5, <1>7, <2>2 DEF ListInv, Distinct
    <3> QED BY <1>3, <3>1
  <2> QED BY <2>1, <2>2
<1>8. Owned(s)'
  <2>1. file'[s.fd] = File(k, s.sink, s.addr)
    BY <1>1, FileTypes
  <2> QED BY <2>1 DEF Owned, File, Listens
<1>9. ASSUME NEW i \in DOMAIN sinkfds, NEW t, t = sinkfds[i] PROVE Owned(t)'
  <2>1. file'[t.fd] = file[t.fd]
    BY <1>1, <1>6, <1>9, FileTypes
  <2> QED BY <1>9, <2>1 DEF ListInv, Owned, Listens
<1>10. \A i \in DOMAIN sinkfds' : Owned(sinkfds[i])'
  <2> TAKE i \in DOMAIN sinkfds'
  <2>1. CASE i = 1
    BY <1>4, <1>8, <2>1 DEF Owned, Listens
  <2>2. CASE i # 1
    <3>1. i - 1 \in DOMAIN sinkfds /\ sinkfds'[i] = sinkfds[i - 1]
      BY <1>5, <2>2
    <3> QED BY <1>9, <3>1 DEF Owned, Listens
  <2> QED BY <2>1, <2>2
<1> QED BY <1>3, <1>7, <1>10 DEF ListInv, Distinct

(* One record leaves the list; the others keep their files.                *)
LEMMA DroppedParts ==
  ASSUME ListInv, NEW i \in DOMAIN sinkfds, sinkfds' = Dropped(i)
  PROVE  /\ sinkfds' \in Seq(Sinkfd) /\ Distinct'
         /\ \A k \in DOMAIN sinkfds' :
              \E j \in DOMAIN sinkfds : sinkfds'[k] = sinkfds[j] /\ sinkfds[j].fd # sinkfds[i].fd
         /\ \A j \in DOMAIN sinkfds : j # i => \E k \in DOMAIN sinkfds' : sinkfds'[k] = sinkfds[j]
<1> DEFINE at(k) == IF k < i THEN k ELSE k + 1
<1>1. sinkfds \in Seq(Sinkfd) /\ i \in 1..Len(sinkfds) /\ Len(sinkfds) \in Nat
  BY DEF ListInv
<1>2. /\ sinkfds' \in Seq(Sinkfd)
      /\ DOMAIN sinkfds' = 1..(Len(sinkfds) - 1)
      /\ \A k \in DOMAIN sinkfds' : sinkfds'[k] = sinkfds[at(k)]
  BY <1>1, RemoveAtParts DEF Dropped
<1>3. \A k \in DOMAIN sinkfds' : at(k) \in DOMAIN sinkfds /\ at(k) # i
  BY <1>1, <1>2
<1>4. \A k, l \in DOMAIN sinkfds' : at(k) = at(l) => k = l
  BY <1>1, <1>2
<1>5. \A j \in DOMAIN sinkfds : j # i => \E k \in DOMAIN sinkfds' : at(k) = j
  <2> SUFFICES ASSUME NEW j \in DOMAIN sinkfds, j # i PROVE \E k \in DOMAIN sinkfds' : at(k) = j
    OBVIOUS
  <2>0. j \in 1..Len(sinkfds)
    BY <1>1
  <2>1. CASE j < i
    <3>1. j \in DOMAIN sinkfds' /\ at(j) = j
      BY <1>1, <1>2, <2>0, <2>1
    <3> QED BY <3>1
  <2>2. CASE i < j
    <3>1. j - 1 \in DOMAIN sinkfds' /\ at(j - 1) = j
      BY <1>1, <1>2, <2>0, <2>2
    <3> QED BY <3>1
  <2> QED BY <1>1, <2>0, <2>1, <2>2
<1> HIDE DEF at
<1>6. Distinct'
  BY <1>2, <1>3, <1>4 DEF ListInv, Distinct
<1>7. \A k \in DOMAIN sinkfds' : sinkfds[at(k)].fd # sinkfds[i].fd
  BY <1>3 DEF ListInv, Distinct
<1> QED BY <1>2, <1>3, <1>5, <1>6, <1>7

LEMMA DroppedInv ==
  ASSUME ListInv, NEW i \in DOMAIN sinkfds, sinkfds' = Dropped(i),
         \A f \in FDs : f # sinkfds[i].fd => file'[f] = file[f]
  PROVE  ListInv'
<1>1. ASSUME NEW k \in DOMAIN sinkfds' PROVE Owned(sinkfds[k])'
  <2>1. PICK j \in DOMAIN sinkfds : sinkfds'[k] = sinkfds[j] /\ sinkfds[j].fd # sinkfds[i].fd
    BY DroppedParts
  <2>2. file'[sinkfds[j].fd] = file[sinkfds[j].fd]
    BY <2>1, ListedNotFree
  <2> QED BY <2>1, <2>2 DEF ListInv, Owned, Listens
<1> QED BY <1>1, DroppedParts DEF ListInv

(* Files of the application come and go outside of the list.               *)
LEMMA ForeignInv ==
  ASSUME ListInv, UNCHANGED sinkfds,
         \A f \in FDs : file[f] # Closed /\ file[f] # Foreign => file'[f] = file[f]
  PROVE  ListInv'
<1>1. \A i \in DOMAIN sinkfds : file'[sinkfds[i].fd] = file[sinkfds[i].fd]
  BY ListedNotFree
<1> QED BY <1>1 DEF ListInv, Distinct, Owned, Listens

(* The head of the poll function's loop.                                   *)
LEMMA ContinueParts ==
  ASSUME TypeOK, ~Idle, NEW R, R \subseteq FDs, IsFiniteSet(R), NEW S, NEW c \in Nat,
         Continue(R, S, c)
  PROVE  /\ todo' = S \/ todo' = {}
         /\ left' \in {SubSeq(Order, i, 3) : i \in 1..4}
         /\ recvfds' \subseteq FDs /\ nr_recv_fds' \in Nat
         /\ WalkInv'
<1>0. IsFiniteSet({})
  BY FS_EmptySet
<1>1. CASE S = {} \/ c = 0
  BY <1>0, <1>1, LeftParts DEF Continue, WalkInv, Idle
<1>2. CASE S # {} /\ c # 0
  BY <1>2 DEF Continue, TypeOK, Idle, WalkInv
<1> QED BY <1>1, <1>2

(* What select() finds readable can be counted.                            *)
LEMMA ReadableParts ==
  ASSUME TypeOK, NEW sink \in Sinks
  PROVE  /\ Readable(sink) \subseteq FDs /\ IsFiniteSet(Readable(sink))
         /\ Cardinality(Readable(sink)) \in Nat
<1>1. nfds[sink] \in Nat /\ fds[sink] \subseteq FDs /\ FDs \subseteq Nat
  BY SinkAssumption DEF TypeOK
<1>2. Readable(sink) \subseteq FDs /\ Readable(sink) \subseteq 0..nfds[sink]
  <2>1. ASSUME NEW f \in Readable(sink) PROVE f \in FDs /\ f \in Nat /\ f < nfds[sink]
    BY <1>1 DEF Readable, Watched
  <2>2. ASSUME NEW f \in Readable(sink) PROVE f \in 0..nfds[sink]
    BY <1>1, <2>1
  <2> QED BY <2>1, <2>2
<1>3. IsFiniteSet(0..nfds[sink])
  BY <1>1, FS_Interval
<1> QED BY <1>2, <1>3, FS_Subset, FS_CardinalityType

(* The descriptor the walk has come to.                                    *)
LEMMA AtParts ==
  ASSUME IInv, NEW f, At(f)
  PROVE  /\ ~Idle /\ f \in todo /\ recvfds \subseteq FDs /\ IsFiniteSet(recvfds)
         /\ nr_recv_fds \in Nat /\ nr_recv_fds - 1 \in Nat
<1>1. ~Idle /\ f \in todo
  BY DEF At
<1>2. nr_recv_fds \in Nat /\ nr_recv_fds # 0
  BY <1>1 DEF IInv, WalkInv, TypeOK
<1>3. nr_recv_fds - 1 \in Nat
  BY <1>2
<1> QED BY <1>1, <1>2, <1>3 DEF IInv, WalkInv, TypeOK

(* After it was handled.                                                   *)
LEMMA HandledParts ==
  ASSUME IInv, NEW f, Handling(f), Handled(f)
  PROVE  /\ ~Idle /\ f \in todo
         /\ todo' \subseteq todo \ {f}
         /\ left' \in {SubSeq(Order, i, 3) : i \in 1..4}
         /\ recvfds' \subseteq FDs /\ nr_recv_fds' \in Nat
         /\ WalkInv'
<1>1. /\ ~Idle /\ f \in todo /\ recvfds \subseteq FDs /\ IsFiniteSet(recvfds)
      /\ nr_recv_fds - 1 \in Nat
  BY AtParts DEF Handling
<1>2. Continue(recvfds, todo \ {f}, nr_recv_fds - 1) /\ TypeOK
  BY DEF Handled, IInv
<1> QED BY <1>1, <1>2, ContinueParts

(* The three open functions.                                               *)
LEMMA OpenedInv ==
  ASSUME IInv, NEW sink \in Sinks, NEW addr \in Addrs, NEW kind \in Opened,
         Opening(sink, addr), AddSinkfd(Lowest, sink, kind, addr),
         sink = "unix" => addr \in UnixAddrs,
         path' \in [UnixAddrs -> FDs \cup {None}],
         nfds' = [nfds EXCEPT ![sink] = Lowest + 1],
         UNCHANGED <<enabled, left, walk, remembered, given, closes>>, clash' \in BOOLEAN
  PROVE  IInv'
<1> DEFINE s == [fd |-> Lowest, sink |-> sink, listen |-> kind = "listen", addr |-> addr]
<1>1. Lowest \in FDs /\ file[Lowest] = Closed /\ Lowest \in Nat
  BY LowestFree DEF Opening
<1>2. s \in Sinkfd
  BY <1>1 DEF Sinkfd
<1>3. ListInv'
  BY <1>1, <1>2, AddedInv DEF IInv, AddSinkfd
<1>4. TypeOK'
  <2>1. file' \in [FDs -> [kind : {"closed", "foreign", "listen", "conn", "tty"},
                           sink : Sinks \cup {None},
                           addr : UnixAddrs \cup TcpAddrs \cup Devices \cup {None}]]
    BY <1>1, FileTypes DEF IInv, AddSinkfd
  <2>2. /\ ready' \in [FDs -> {"quiet", "data", "eof"}]
        /\ fds' \in [Sinks -> SUBSET FDs]
        /\ nfds' \in [Sinks -> Nat]
    BY <1>1 DEF IInv, TypeOK, AddSinkfd
  <2>3. enabled' /\ todo' = {}
    BY DEF IInv, WalkInv, Opening, walk
  <2> QED BY <2>1, <2>2, <2>3 DEF IInv, TypeOK, walk
<1>5. WalkInv'
  BY DEF IInv, WalkInv, Idle, walk
<1> QED BY <1>3, <1>4, <1>5 DEF IInv, Idle, Opening

LEMMA InitIInv == Init => IInv
<1> SUFFICES ASSUME Init PROVE IInv
  OBVIOUS
<1>1. ListInv
  BY DEF Init, ListInv, Distinct
<1>2. left \in {SubSeq(Order, i, 3) : i \in 1..4}
  <2>1. SubSeq(Order, 4, 3) = <<>>
    BY DEF Order
  <2> QED BY <2>1 DEF Init
<1>3. TypeOK
  <2>1. Closed \in [kind : {"closed", "foreign", "listen", "conn", "tty"},
                    sink : Sinks \cup {None},
                    addr : UnixAddrs \cup TcpAddrs \cup Devices \cup {None}]
    BY DEF Closed
  <2>2. closes \in 0..MaxCloses
    BY SinkAssumption DEF Init
  <2> QED BY <1>2, <2>1, <2>2 DEF Init, TypeOK
<1>4. WalkInv
  BY FS_EmptySet DEF Init, WalkInv
<1> QED BY <1>1, <1>3, <1>4 DEF Init, IInv, Idle

LEMMA NextIInv == IInv /\ [Next]_vars => IInv'
<1> SUFFICES ASSUME IInv, [Next]_vars PROVE IInv'
  OBVIOUS
<1>0. TypeOK /\ ListInv /\ WalkInv /\ (Idle => todo = {}) /\ (~Idle => enabled)
  BY DEF IInv, WalkInv
<1> USE DEF kernel, lib, walk, history
(* Most steps leave the list and its files alone.                          *)
<1>1. ASSUME UNCHANGED <<file, sinkfds>> PROVE ListInv'
  BY <1>0, <1>1, ForeignInv
<1>2. CASE apibus_enable_posix
  BY <1>0, <1>1, <1>2 DEF apibus_enable_posix, TypeOK, IInv, WalkInv, Idle
<1>3. CASE apibus_disable_posix \/ apibus_destroy
  <2>0. sinkfds' = <<>>
    BY <1>3 DEF apibus_disable_posix, apibus_destroy
  <2>1. ListInv'
    BY <2>0 DEF ListInv, Distinct
  <2> QED BY <1>0, <1>3, <2>1 DEF apibus_disable_posix, apibus_destroy, TypeOK, IInv, WalkInv, Idle
<1>4. ASSUME NEW addr \in UnixAddrs, unix_open(addr) PROVE IInv'
  <2>1. Lowest \in FDs
    BY <1>4, LowestFree DEF unix_open, Opening
  <2>2. path' \in [UnixAddrs -> FDs \cup {None}]
    BY <1>0, <1>4, <2>1 DEF unix_open, TypeOK
  <2>4. clash' \in BOOLEAN
    BY <1>4 DEF unix_open
  <2>3. "unix" \in Sinks /\ addr \in Addrs /\ "listen" \in Opened
    BY DEF Sinks, Order, Range, Addrs, Opened
  <2> QED BY <1>4, <2>2, <2>3, <2>4, OpenedInv DEF unix_open
<1>5. ASSUME NEW addr \in UnixAddrs, UnixOpenFails(addr) PROVE IInv'
  <2>1. path' \in [UnixAddrs -> FDs \cup {None}] /\ clash' \in BOOLEAN
    BY <1>0, <1>5 DEF UnixOpenFails, TypeOK
  <2> QED BY <1>0, <1>1, <1>5, <2>1 DEF UnixOpenFails, TypeOK, IInv, WalkInv, Idle
<1>6. ASSUME NEW addr \in TcpAddrs, tcp_open(addr) PROVE IInv'
  <2>1. "tcp" \in Sinks /\ addr \in Addrs /\ "listen" \in Opened
    BY DEF Sinks, Order, Range, Addrs, Opened
  <2> QED BY <1>0, <1>6, <2>1, OpenedInv DEF tcp_open, TypeOK
<1>7. ASSUME NEW addr \in TcpAddrs, OpenFails("tcp", addr) PROVE IInv'
  BY <1>0, <1>1, <1>7 DEF OpenFails, vars, TypeOK, IInv, WalkInv, Idle
<1>8. ASSUME NEW addr \in Devices, serial_open(addr) PROVE IInv'
  <2>1. "serial" \in Sinks /\ addr \in Addrs /\ "tty" \in Opened
    BY DEF Sinks, Order, Range, Addrs, Opened
  <2> QED BY <1>0, <1>8, <2>1, OpenedInv DEF serial_open, TypeOK
<1>9. ASSUME NEW i \in DOMAIN sinkfds, apibus_close(i) PROVE IInv'
  <2> DEFINE s == sinkfds[i]
  <2>1. s \in Sinkfd /\ s.fd \in FDs /\ Owned(s)
    BY <1>0, ListedNotFree DEF ListInv
  <2>2. ListInv'
    BY <1>0, <1>9, <2>1, DroppedInv DEF apibus_close, TypeOK
  <2>3. path' \in [UnixAddrs -> FDs \cup {None}]
    BY <1>0, <1>9, <2>1 DEF apibus_close, TypeOK, Owned
  <2>4. closes' \in 0..MaxCloses
    BY <1>0, <1>9, SinkAssumption DEF apibus_close, TypeOK
  <2>5. enabled' /\ todo' = {} /\ Idle'
    BY <1>0, <1>9 DEF apibus_close, TypeOK, Idle
  <2>6. /\ ready' \in [FDs -> {"quiet", "data", "eof"}]
        /\ file' \in [FDs -> [kind : {"closed", "foreign", "listen", "conn", "tty"},
                              sink : Sinks \cup {None},
                              addr : UnixAddrs \cup TcpAddrs \cup Devices \cup {None}]]
    BY <1>0, <1>9, <2>1 DEF apibus_close, TypeOK, Closed
  <2>7. given' \subseteq FDs
    BY <1>0, <1>9, <2>1 DEF apibus_close, TypeOK
  <2>8. WalkInv'
    BY <1>0, <1>9 DEF apibus_close, WalkInv, Idle
  <2> QED BY <1>0, <1>9, <2>2, <2>3, <2>4, <2>5, <2>6, <2>7, <2>8 DEF apibus_close, TypeOK, IInv
<1>10. ASSUME NEW f \in FDs, apibus_recv(f) PROVE IInv'
  <2>1. ready' \in [FDs -> {"quiet", "data", "eof"}]
    BY <1>0, <1>10 DEF apibus_recv, TypeOK
  <2> QED BY <1>0, <1>1, <1>10, <2>1 DEF apibus_recv, TypeOK, IInv, WalkInv, Idle
<1>11. CASE AppOpen
  <2>1. Lowest \in FDs /\ file[Lowest] = Closed
    BY <1>11, LowestFree DEF AppOpen
  <2>2. ListInv'
    BY <1>0, <1>11, <2>1, ForeignInv DEF AppOpen, TypeOK
  <2>3. file' \in [FDs -> [kind : {"closed", "foreign", "listen", "conn", "tty"},
                           sink : Sinks \cup {None},
                           addr : UnixAddrs \cup TcpAddrs \cup Devices \cup {None}]]
    BY <1>0, <1>11, <2>1 DEF AppOpen, TypeOK, Foreign
  <2> QED BY <1>0, <1>11, <2>2, <2>3 DEF AppOpen, TypeOK, IInv, WalkInv, Idle
<1>12. ASSUME NEW f \in FDs, AppClose(f) PROVE IInv'
  <2>1. ListInv'
    BY <1>0, <1>12, ForeignInv DEF AppClose, TypeOK
  <2>2. file' \in [FDs -> [kind : {"closed", "foreign", "listen", "conn", "tty"},
                           sink : Sinks \cup {None},
                           addr : UnixAddrs \cup TcpAddrs \cup Devices \cup {None}]]
    BY <1>0, <1>12 DEF AppClose, TypeOK, Closed
  <2>3. closes' \in 0..MaxCloses
    BY <1>0, <1>12, SinkAssumption DEF AppClose, TypeOK
  <2> QED BY <1>0, <1>12, <2>1, <2>2, <2>3 DEF AppClose, TypeOK, IInv, WalkInv, Idle
<1>13. ASSUME NEW f \in FDs, NEW what \in {"data", "eof"}, PeerActs(f, what) PROVE IInv'
  <2>1. ready' \in [FDs -> {"quiet", "data", "eof"}]
    BY <1>0, <1>13 DEF PeerActs, TypeOK
  <2> QED BY <1>0, <1>1, <1>13, <2>1 DEF PeerActs, TypeOK, IInv, WalkInv, Idle
<1>14. CASE PollBegin
  <2>1. Order \in {SubSeq(Order, i, 3) : i \in 1..4}
    <3>1. SubSeq(Order, 1, 3) = Order
      <4>1. Order \in Seq(Sinks) /\ Len(Order) = 3
        BY DEF Order, Sinks, Range
      <4> QED BY <4>1
    <3> QED BY <3>1
  <2>2. Order # <<>>
    BY DEF Order
  <2> QED BY <1>0, <1>1, <1>14, <2>1, <2>2 DEF PollBegin, TypeOK, IInv, WalkInv, Idle
<1>15. CASE select
  <2> DEFINE S == {s.fd : s \in {t \in Range(sinkfds) : t.sink = Polled}}
             R == Readable(Polled)
  <2>1. S \subseteq {sinkfds[i].fd : i \in DOMAIN sinkfds}
    BY DEF Range
  <2>2. Continue(R, S, Cardinality(R)) /\ ~Idle
    BY <1>15 DEF select
  <2>3. R \subseteq FDs /\ IsFiniteSet(R) /\ Cardinality(R) \in Nat
    BY <1>0, <2>2, LeftParts, ReadableParts
  <2> HIDE DEF S, R
  <2>4. /\ todo' \subseteq {sinkfds[i].fd : i \in DOMAIN sinkfds}
        /\ left' \in {SubSeq(Order, i, 3) : i \in 1..4}
        /\ recvfds' \subseteq FDs /\ nr_recv_fds' \in Nat
        /\ WalkInv'
    BY <1>0, <2>1, <2>2, <2>3, ContinueParts
  <2> QED BY <1>0, <1>1, <1>15, <2>2, <2>4 DEF select, TypeOK, IInv
<1>16. CASE SelectError
  BY <1>0, <1>1, <1>16, LeftParts DEF SelectError, TypeOK, IInv, WalkInv, Idle
<1>17. ASSUME NEW f \in FDs, Accept(f) PROVE IInv'
  <2> DEFINE s == [fd |-> Lowest, sink |-> Polled, listen |-> FALSE, addr |-> None]
  <2>1. ~Idle /\ Polled \in Sinks
    BY <1>0, <1>17, LeftParts DEF Accept, Handling, At
  <2>2. Lowest \in FDs /\ file[Lowest] = Closed /\ Lowest \in Nat
    BY <1>17, LowestFree DEF Accept
  <2>3. s \in Sinkfd /\ "conn" \in Opened
    BY <2>1, <2>2 DEF Sinkfd, Opened
  <2>4. ListInv'
    BY <1>0, <1>17, <2>2, <2>3, AddedInv DEF Accept
  <2>5. file' \in [FDs -> [kind : {"closed", "foreign", "listen", "conn", "tty"},
                           sink : Sinks \cup {None},
                           addr : UnixAddrs \cup TcpAddrs \cup Devices \cup {None}]]
    BY <1>0, <1>17, <2>1, <2>2, <2>3, FileTypes DEF Accept
  <2>6. /\ ready' \in [FDs -> {"quiet", "data", "eof"}]
        /\ fds' \in [Sinks -> SUBSET FDs]
        /\ nfds' \in [Sinks -> Nat]
    BY <1>0, <1>17, <2>1, <2>2 DEF Accept, TypeOK, Raised
  <2>7. todo' \subseteq {sinkfds'[i].fd : i \in DOMAIN sinkfds'}
    <3>1. todo' \subseteq todo
      BY <1>17, HandledParts DEF Accept
    <3>2. ASSUME NEW i \in DOMAIN sinkfds PROVE i + 1 \in DOMAIN sinkfds' /\ sinkfds'[i + 1] = sinkfds[i]
      <4>1. sinkfds \in Seq(Sinkfd) /\ sinkfds' = <<s>> \o sinkfds
        BY <1>0, <1>17 DEF ListInv, Accept
      <4> HIDE DEF s
      <4> QED BY <2>3, <4>1
    <3> QED BY <1>0, <3>1, <3>2 DEF TypeOK
  <2>8. /\ left' \in {SubSeq(Order, i, 3) : i \in 1..4} /\ WalkInv'
        /\ recvfds' \subseteq FDs /\ nr_recv_fds' \in Nat
    BY <1>17, HandledParts DEF Accept
  <2> QED BY <1>0, <1>17, <2>1, <2>4, <2>5, <2>6, <2>7, <2>8 DEF Accept, TypeOK, IInv
<1>18. ASSUME NEW f \in FDs, AcceptFails(f) PROVE IInv'
  <2>1. /\ ~Idle /\ todo' \subseteq todo
        /\ left' \in {SubSeq(Order, i, 3) : i \in 1..4} /\ WalkInv'
        /\ recvfds' \subseteq FDs /\ nr_recv_fds' \in Nat
    BY <1>18, HandledParts DEF AcceptFails
  <2> QED BY <1>0, <1>1, <1>18, <2>1 DEF AcceptFails, TypeOK, IInv
<1>19. ASSUME NEW f \in FDs, Recv(f) PROVE IInv'
  <2>1. ready' \in [FDs -> {"quiet", "data", "eof"}] /\ remembered' \subseteq FDs
    BY <1>0, <1>19 DEF Recv, TypeOK
  <2>2. /\ ~Idle /\ todo' \subseteq todo
        /\ left' \in {SubSeq(Order, i, 3) : i \in 1..4} /\ WalkInv'
        /\ recvfds' \subseteq FDs /\ nr_recv_fds' \in Nat
    BY <1>19, HandledParts DEF Recv
  <2> QED BY <1>0, <1>1, <1>19, <2>1, <2>2 DEF Recv, TypeOK, IInv
<1>20. ASSUME NEW f \in FDs, Hangup(f) PROVE IInv'
  <2>1. PICK i \in DOMAIN sinkfds : sinkfds[i].fd = f /\ sinkfds' = Dropped(i)
    BY <1>20 DEF Hangup
  <2>2. ListInv'
    BY <1>0, <1>20, <2>1, DroppedInv DEF Hangup
  <2>3. /\ todo' \subseteq todo \ {f} /\ left' \in {SubSeq(Order, k, 3) : k \in 1..4}
        /\ WalkInv' /\ recvfds' \subseteq FDs /\ nr_recv_fds' \in Nat
    BY <1>20, HandledParts DEF Hangup
  <2>4. todo' \subseteq {sinkfds'[k].fd : k \in DOMAIN sinkfds'}
    <3>1. ASSUME NEW g \in todo, g # f PROVE \E k \in DOMAIN sinkfds' : sinkfds'[k].fd = g
      <4>1. PICK j \in DOMAIN sinkfds : sinkfds[j].fd = g
        BY <1>0 DEF TypeOK
      <4> QED BY <1>0, <2>1, <3>1, <4>1, DroppedParts
    <3> QED BY <2>3, <3>1
  <2>5. ~Idle
    BY <1>20 DEF Hangup, Handling, At
  <2> QED BY <1>0, <1>20, <2>2, <2>3, <2>4, <2>5 DEF Hangup, TypeOK, IInv
<1>24. ASSUME NEW f \in FDs, Skip(f) PROVE IInv'
  <2>1. /\ ~Idle /\ recvfds \subseteq FDs /\ IsFiniteSet(recvfds) /\ nr_recv_fds \in Nat
        /\ Continue(recvfds, todo \ {f}, nr_recv_fds)
    BY <1>24, AtParts DEF Skip
  <2>2. /\ todo' \subseteq todo
        /\ left' \in {SubSeq(Order, i, 3) : i \in 1..4} /\ WalkInv'
        /\ recvfds' \subseteq FDs /\ nr_recv_fds' \in Nat
    BY <1>0, <2>1, ContinueParts
  <2> QED BY <1>0, <1>1, <1>24, <2>1, <2>2 DEF Skip, TypeOK, IInv
<1>21. CASE UNCHANGED vars
  BY <1>0, <1>1, <1>21 DEF vars, TypeOK, IInv, WalkInv, Idle
<1>22. CASE apibus_open
  BY <1>4, <1>5, <1>6, <1>7, <1>8, <1>22 DEF apibus_open
<1>23. CASE apibus_poll
  BY <1>14, <1>15, <1>16, <1>17, <1>18, <1>19, <1>20, <1>23, <1>24 DEF apibus_poll
<1> QED BY <1>2, <1>3, <1>9, <1>10, <1>11, <1>12, <1>13, <1>21, <1>22, <1>23 DEF Next

-----------------------------------------------------------------------------
(* The kinds of steps, by what they do to descriptors and their records.   *)

Quiet == UNCHANGED <<file, path, sinkfds, fds, nfds, remembered, history>>

Empties ==
  /\ sinkfds' = <<>> /\ remembered' \subseteq remembered
  /\ UNCHANGED <<file, path, fds, nfds, history>>

Adds(s, k) ==
  /\ Free # {} /\ s.fd = Lowest
  /\ s.listen <=> k = "listen"
  /\ file' = [file EXCEPT ![s.fd] = File(k, s.sink, s.addr)]
  /\ sinkfds' = <<s>> \o sinkfds
  /\ fds' = [fds EXCEPT ![s.sink] = @ \cup {s.fd}]
  /\ \/ nfds' = [nfds EXCEPT ![s.sink] = s.fd + 1]
     \/ nfds' = [nfds EXCEPT ![s.sink] = Raised(s.sink, s.fd)]
  /\ \/ /\ s.sink = "unix" /\ s.listen /\ s.addr \in UnixAddrs
        /\ path' = [path EXCEPT ![s.addr] = s.fd]
        /\ clash' = (clash \/ \E f \in FDs : file[f].addr = s.addr)
     \/ ~(s.sink = "unix" /\ s.listen) /\ UNCHANGED <<path, clash>>
  /\ UNCHANGED <<remembered, given, closes>>

LEMMA StepKinds ==
  ASSUME IInv, [Next]_vars
  PROVE  \/ Quiet \/ Empties
         \/ \E s \in Sinkfd : \E k \in Opened : Adds(s, k)
         \/ \E addr \in UnixAddrs : UnixOpenFails(addr)
         \/ \E i \in DOMAIN sinkfds : apibus_close(i)
         \/ AppOpen \/ \E f \in FDs : AppClose(f) \/ Recv(f) \/ Hangup(f)
<1> USE DEF kernel, lib, history
<1>0. Free # {} => Lowest \in FDs
  BY LowestFree
<1>1. ASSUME NEW sink \in Sinks, NEW addr \in Addrs, NEW kind \in Opened, Opening(sink, addr)
      PROVE  [fd |-> Lowest, sink |-> sink, listen |-> kind = "listen", addr |-> addr] \in Sinkfd
  BY <1>0, <1>1 DEF Opening, Sinkfd
<1>2. ASSUME NEW addr \in UnixAddrs, unix_open(addr)
      PROVE  \E s \in Sinkfd : \E k \in Opened : Adds(s, k)
  <2> DEFINE s == [fd |-> Lowest, sink |-> "unix", listen |-> "listen" = "listen", addr |-> addr]
  <2>1. "unix" \in Sinks /\ addr \in Addrs /\ "listen" \in Opened
    BY DEF Sinks, Order, Range, Addrs, Opened
  <2>2. s \in Sinkfd
    BY <1>1, <1>2, <2>1 DEF unix_open
  <2>3. Adds(s, "listen")
    BY <1>2 DEF unix_open, Opening, AddSinkfd, Adds
  <2> QED BY <2>1, <2>2, <2>3
<1>3. ASSUME NEW addr \in TcpAddrs, tcp_open(addr)
      PROVE  \E s \in Sinkfd : \E k \in Opened : Adds(s, k)
  <2> DEFINE s == [fd |-> Lowest, sink |-> "tcp", listen |-> "listen" = "listen", addr |-> addr]
  <2>1. "tcp" \in Sinks /\ addr \in Addrs /\ "listen" \in Opened
    BY DEF Sinks, Order, Range, Addrs, Opened
  <2>2. s \in Sinkfd
    BY <1>1, <1>3, <2>1 DEF tcp_open
  <2>3. Adds(s, "listen")
    BY <1>3 DEF tcp_open, Opening, AddSinkfd, Adds
  <2> QED BY <2>1, <2>2, <2>3
<1>4. ASSUME NEW addr \in Devices, serial_open(addr)
      PROVE  \E s \in Sinkfd : \E k \in Opened : Adds(s, k)
  <2> DEFINE s == [fd |-> Lowest, sink |-> "serial", listen |-> "tty" = "listen", addr |-> addr]
  <2>1. "serial" \in Sinks /\ addr \in Addrs /\ "tty" \in Opened
    BY DEF Sinks, Order, Range, Addrs, Opened
  <2>2. s \in Sinkfd
    BY <1>1, <1>4, <2>1 DEF serial_open
  <2>3. Adds(s, "tty")
    BY <1>4 DEF serial_open, Opening, AddSinkfd, Adds
  <2> QED BY <2>1, <2>2, <2>3
<1>5. ASSUME NEW f \in FDs, Accept(f)
      PROVE  \E s \in Sinkfd : \E k \in Opened : Adds(s, k)
  <2> DEFINE s == [fd |-> Lowest, sink |-> Polled, listen |-> FALSE, addr |-> None]
  <2>1. Polled \in Sinks /\ "conn" \in Opened
    BY <1>5, LeftParts DEF IInv, Accept, Handling, At, Opened
  <2>2. s \in Sinkfd
    BY <1>0, <1>5, <2>1 DEF Accept, Sinkfd
  <2>3. Adds(s, "conn")
    BY <1>5 DEF Accept, Adds
  <2> QED BY <2>1, <2>2, <2>3
<1>6. CASE apibus_disable_posix \/ apibus_destroy
  <2>1. Empties
    BY <1>6 DEF apibus_disable_posix, apibus_destroy, Empties
  <2> QED BY <2>1
<1>7. CASE \/ apibus_enable_posix \/ PollBegin \/ select \/ SelectError \/ UNCHANGED vars
           \/ \E addr \in TcpAddrs : OpenFails("tcp", addr)
           \/ \E f \in FDs : apibus_recv(f) \/ AcceptFails(f) \/ Skip(f)
           \/ \E f \in FDs, what \in {"data", "eof"} : PeerActs(f, what)
  <2>1. Quiet
    BY <1>7 DEF apibus_enable_posix, PollBegin, select, SelectError, vars, OpenFails, apibus_recv,
                AcceptFails, Skip, PeerActs, Quiet
  <2> QED BY <2>1
<1> QED BY <1>2, <1>3, <1>4, <1>5, <1>6, <1>7 DEF Next, apibus_open, apibus_poll

(* What an added record does to files and lists, pointwise.                *)
LEMMA AddsParts ==
  ASSUME IInv, NEW s \in Sinkfd, NEW k \in Opened, Adds(s, k)
  PROVE  /\ s.fd \in FDs /\ s.fd \in Nat /\ s.sink \in Sinks
         /\ file[s.fd] = Closed /\ file'[s.fd] = File(k, s.sink, s.addr)
         /\ \A f \in FDs : f # s.fd => file'[f] = file[f]
         /\ \A f \in FDs : file[f] = Closed => s.fd <= f
         /\ \A i \in DOMAIN sinkfds' :
              sinkfds'[i] = s \/ \E j \in DOMAIN sinkfds : sinkfds'[i] = sinkfds[j]
<1>1. s.fd \in FDs /\ s.sink \in Sinks /\ s.addr \in Addrs \cup {None}
  BY DEF Sinkfd
<1>2. sinkfds \in Seq(Sinkfd) /\ sinkfds' = <<s>> \o sinkfds
  BY DEF IInv, ListInv, Adds
<1>3. ASSUME NEW i \in DOMAIN sinkfds'
      PROVE  sinkfds'[i] = s \/ \E j \in DOMAIN sinkfds : sinkfds'[i] = sinkfds[j]
  <2>1. CASE i = 1
    BY <1>2, <2>1
  <2>2. CASE i # 1
    <3>1. i - 1 \in DOMAIN sinkfds /\ sinkfds'[i] = sinkfds[i - 1]
      BY <1>2, <2>2
    <3> QED BY <3>1
  <2> QED BY <2>1, <2>2
<1> QED BY <1>1, <1>3, FileTypes, LowestFree DEF IInv, Adds

(* apibus_close() touches no other descriptor.                             *)
LEMMA CloseParts ==
  ASSUME IInv, NEW i \in DOMAIN sinkfds, apibus_close(i)
  PROVE  /\ sinkfds[i].fd \in FDs /\ sinkfds[i].fd \in given'
         /\ \A f \in FDs : f # sinkfds[i].fd => file'[f] = file[f]
<1>1. file' = [file EXCEPT ![sinkfds[i].fd] = Closed] /\ sinkfds[i].fd \in given'
  BY DEF apibus_close
<1>2. file \in [FDs -> [kind : {"closed", "foreign", "listen", "conn", "tty"},
                        sink : Sinks \cup {None},
                        addr : UnixAddrs \cup TcpAddrs \cup Devices \cup {None}]]
  BY DEF IInv, TypeOK
<1>3. sinkfds[i].fd \in FDs
  BY ListedNotFree DEF IInv
<1> QED BY <1>1, <1>2, <1>3

-----------------------------------------------------------------------------
(* The inductive form of each property.                                    *)

(* A watched number behind which the sinks have nothing open was given to  *)
(* apibus_close(): the application may have its own file there meanwhile.  *)
Orphans ==
  \A sink \in Sinks : \A f \in fds[sink] : file[f].kind \in {"closed", "foreign"} => f \in given

LEMMA NextOrphans == IInv /\ Orphans /\ [Next]_vars => Orphans'
<1> SUFFICES ASSUME IInv, Orphans, [Next]_vars PROVE Orphans'
  OBVIOUS
<1>0. /\ TypeOK /\ ListInv
      /\ \A k \in Opened : k \notin {"closed", "foreign"}
  BY DEF IInv, Opened
<1> USE DEF kernel, lib, history
<1>1. CASE Quiet \/ Empties
  BY <1>1 DEF Quiet, Empties, Orphans
<1>2. ASSUME NEW s \in Sinkfd, NEW k \in Opened, Adds(s, k) PROVE Orphans'
  <2>1. \A sink \in Sinks : fds'[sink] \subseteq fds[sink] \cup {s.fd}
    BY <1>0, <1>2, AddsParts DEF Adds, TypeOK
  <2>2. file'[s.fd].kind \in Opened
    <3>1. file'[s.fd] = File(k, s.sink, s.addr)
      BY <1>2, AddsParts
    <3> QED BY <3>1 DEF File
  <2>3. \A f \in FDs : f # s.fd => file'[f] = file[f]
    BY <1>2, AddsParts
  <2>4. \A sink \in Sinks : fds[sink] \subseteq FDs
    BY <1>0 DEF TypeOK
  <2> QED BY <1>0, <1>2, <2>1, <2>2, <2>3, <2>4 DEF Adds, Orphans
<1>3. ASSUME NEW addr \in UnixAddrs, UnixOpenFails(addr) PROVE Orphans'
  BY <1>3 DEF UnixOpenFails, Orphans
<1>4. ASSUME NEW i \in DOMAIN sinkfds, apibus_close(i) PROVE Orphans'
  <2>1. sinkfds[i].fd \in given' /\ given \subseteq given' /\ fds' = fds
    BY <1>4 DEF apibus_close
  <2>2. \A f \in FDs : f # sinkfds[i].fd => file'[f] = file[f]
    BY <1>0, <1>4, CloseParts
  <2>3. \A sink \in Sinks : fds[sink] \subseteq FDs
    BY <1>0 DEF TypeOK
  <2> QED BY <2>1, <2>2, <2>3 DEF Orphans
<1>5. CASE AppOpen
  <2>1. Lowest \in FDs /\ file[Lowest].kind = "closed"
    BY <1>5, LowestFree DEF AppOpen, Closed
  <2>2. \A f \in FDs : f # Lowest => file'[f] = file[f]
    BY <1>0, <1>5 DEF AppOpen, TypeOK
  <2>3. \A sink \in Sinks : fds[sink] \subseteq FDs
    BY <1>0 DEF TypeOK
  <2> HIDE DEF Lowest
  <2> QED BY <1>5, <2>1, <2>2, <2>3 DEF AppOpen, Orphans
<1>6. ASSUME NEW f \in FDs, AppClose(f) PROVE Orphans'
  <2>1. file[f].kind = "foreign"
    BY <1>6 DEF AppClose, Foreign
  <2>2. \A g \in FDs : g # f => file'[g] = file[g]
    BY <1>0, <1>6 DEF AppClose, TypeOK
  <2>3. \A sink \in Sinks : fds[sink] \subseteq FDs
    BY <1>0 DEF TypeOK
  <2> QED BY <1>6, <2>1, <2>2, <2>3 DEF AppClose, Orphans
<1>7. ASSUME NEW f \in FDs, Recv(f) \/ Hangup(f) PROVE Orphans'
  BY <1>7 DEF Recv, Hangup, Orphans
<1> QED BY <1>1, <1>2, <1>3, <1>4, <1>5, <1>6, <1>7, StepKinds

LEMMA NextNamesLast == IInv /\ NamesLast /\ [Next]_vars => NamesLast'
<1> SUFFICES ASSUME IInv, NamesLast, [Next]_vars PROVE NamesLast'
  OBVIOUS
<1>0. /\ TypeOK /\ ListInv /\ remembered \subseteq FDs
      /\ \A f \in remembered \ given : file[f] # Closed /\ file[f] # Foreign
  <2>1. Closed.kind \notin {"conn", "tty"} /\ Foreign.kind \notin {"conn", "tty"}
    BY DEF Closed, Foreign
  <2>2. \A f \in remembered \ given : file[f].kind \in {"conn", "tty"}
    BY DEF NamesLast
  <2> HIDE DEF Closed, Foreign
  <2> QED BY <2>1, <2>2 DEF IInv, TypeOK
<1> USE DEF kernel, lib, history
<1>1. CASE Quiet \/ Empties
  BY <1>1 DEF Quiet, Empties, NamesLast
<1>2. ASSUME NEW s \in Sinkfd, NEW k \in Opened, Adds(s, k) PROVE NamesLast'
  <2>1. \A f \in FDs : file[f] # Closed => file'[f] = file[f]
    BY <1>2, AddsParts
  <2> QED BY <1>0, <1>2, <2>1 DEF Adds, NamesLast
<1>3. ASSUME NEW addr \in UnixAddrs, UnixOpenFails(addr) PROVE NamesLast'
  BY <1>3 DEF UnixOpenFails, NamesLast
<1>4. ASSUME NEW i \in DOMAIN sinkfds, apibus_close(i) PROVE NamesLast'
  BY <1>0, <1>4, CloseParts DEF apibus_close, NamesLast
<1>5. CASE AppOpen
  <2>1. Lowest \in FDs /\ file[Lowest] = Closed
    BY <1>5, LowestFree DEF AppOpen
  <2> HIDE DEF Lowest
  <2> QED BY <1>0, <1>5, <2>1 DEF AppOpen, NamesLast, TypeOK
<1>6. ASSUME NEW f \in FDs, AppClose(f) PROVE NamesLast'
  BY <1>0, <1>6 DEF AppClose, NamesLast, TypeOK
<1>7. ASSUME NEW f \in FDs, Recv(f) PROVE NamesLast'
  <2>1. PICK i \in DOMAIN sinkfds : sinkfds[i].fd = f
    BY <1>7 DEF Recv, Handling, At
  <2>2. file[f].kind \in {"conn", "tty"}
    BY <1>0, <1>7, <2>1 DEF ListInv, Owned, Opened, Recv, Listens
  <2> QED BY <1>7, <2>2 DEF Recv, NamesLast
<1>8. ASSUME NEW f \in FDs, Hangup(f) PROVE NamesLast'
  BY <1>8 DEF Hangup, NamesLast
<1> QED BY <1>1, <1>2, <1>3, <1>4, <1>5, <1>6, <1>7, <1>8, StepKinds

LEMMA NextReachable == IInv /\ Reachable /\ [Next]_vars => Reachable'
<1> SUFFICES ASSUME IInv, Reachable, [Next]_vars, ~clash',
                    NEW i \in DOMAIN sinkfds', sinkfds'[i].sink = "unix", sinkfds'[i].listen
             PROVE  path'[sinkfds'[i].addr] = sinkfds'[i].fd
  BY DEF Reachable
<1>0. TypeOK /\ ListInv /\ path \in [UnixAddrs -> FDs \cup {None}]
  BY DEF IInv, TypeOK
<1> USE DEF kernel, lib, history
(* What is known of a record that was there before.                        *)
<1>1. ASSUME NEW j \in DOMAIN sinkfds, sinkfds'[i] = sinkfds[j], ~clash
      PROVE  /\ path[sinkfds[j].addr] = sinkfds[j].fd
             /\ sinkfds[j].fd \in FDs /\ sinkfds[j].addr \in UnixAddrs
             /\ file[sinkfds[j].fd].addr = sinkfds[j].addr
  BY <1>0, <1>1, ListedNotFree DEF Reachable, ListInv, Owned
<1>2. CASE Quiet
  BY <1>1, <1>2 DEF Quiet
<1>3. CASE Empties
  BY <1>3 DEF Empties
<1>4. ASSUME NEW s \in Sinkfd, NEW k \in Opened, Adds(s, k)
      PROVE  path'[sinkfds'[i].addr] = sinkfds'[i].fd
  <2>0. ~clash
    BY <1>4 DEF Adds
  <2>1. CASE sinkfds'[i] = s
    BY <1>0, <1>4, <2>1 DEF Adds
  <2>2. ASSUME NEW j \in DOMAIN sinkfds, sinkfds'[i] = sinkfds[j]
        PROVE  path'[sinkfds'[i].addr] = sinkfds'[i].fd
    <3>1. s.sink = "unix" /\ s.listen => s.addr # sinkfds[j].addr
      BY <1>1, <1>4, <2>0, <2>2, ZenonT(60) DEF Adds
    <3> QED BY <1>0, <1>1, <1>4, <2>0, <2>2, <3>1 DEF Adds
  <2> QED BY <1>4, <2>1, <2>2, AddsParts
<1>5. ASSUME NEW addr \in UnixAddrs, UnixOpenFails(addr)
      PROVE  path'[sinkfds'[i].addr] = sinkfds'[i].fd
  <2>1. ~clash /\ sinkfds' = sinkfds /\ path' = [path EXCEPT ![addr] = None]
    BY <1>5 DEF UnixOpenFails
  <2>2. sinkfds[i].addr # addr
    BY <1>1, <1>5, <2>1 DEF UnixOpenFails
  <2> QED BY <1>0, <1>1, <2>1, <2>2
<1>6. ASSUME NEW c \in DOMAIN sinkfds, apibus_close(c)
      PROVE  path'[sinkfds'[i].addr] = sinkfds'[i].fd
  <2>1. ~clash /\ sinkfds' = Dropped(c)
    BY <1>6 DEF apibus_close
  <2>2. PICK j \in DOMAIN sinkfds : sinkfds'[i] = sinkfds[j] /\ sinkfds[j].fd # sinkfds[c].fd
    BY <1>0, <2>1, DroppedParts
  <2>3. sinkfds[c].sink = "unix" /\ sinkfds[c].listen => sinkfds[c].addr # sinkfds[j].addr
    BY <1>1, <2>1, <2>2 DEF Reachable
  <2> QED BY <1>0, <1>1, <1>6, <2>1, <2>2, <2>3 DEF apibus_close
<1>7. ASSUME AppOpen \/ \E f \in FDs : AppClose(f) \/ Recv(f)
      PROVE  path'[sinkfds'[i].addr] = sinkfds'[i].fd
  BY <1>1, <1>7 DEF AppOpen, AppClose, Recv
<1>8. ASSUME NEW f \in FDs, Hangup(f) PROVE path'[sinkfds'[i].addr] = sinkfds'[i].fd
  <2>1. PICK c \in DOMAIN sinkfds : sinkfds' = Dropped(c)
    BY <1>8 DEF Hangup
  <2>2. PICK j \in DOMAIN sinkfds : sinkfds'[i] = sinkfds[j]
    BY <1>0, <2>1, DroppedParts
  <2> QED BY <1>1, <1>8, <2>2 DEF Hangup
<1> QED BY <1>2, <1>3, <1>4, <1>5, <1>6, <1>7, <1>8, StepKinds

(* As long as nothing is given back, numbers are handed out in order: this *)
(* is what makes up for the open functions, which set nfds instead of      *)
(* raising it.                                                             *)
InOrder == \A f, g \in FDs : file[f] # Closed /\ file[g] = Closed => f < g

Seen ==
  \A i \in DOMAIN sinkfds : /\ sinkfds[i].fd \in fds[sinkfds[i].sink]
                            /\ sinkfds[i].fd < nfds[sinkfds[i].sink]

WInv == closes = 0 => InOrder /\ Seen

LEMMA NextWInv == IInv /\ WInv /\ [Next]_vars => WInv'
<1> SUFFICES ASSUME IInv, WInv, [Next]_vars, closes' = 0 PROVE InOrder' /\ Seen'
  BY DEF WInv
<1>0. /\ TypeOK /\ ListInv /\ closes \in Nat /\ FDs \subseteq Nat
      /\ nfds \in [Sinks -> Nat] /\ fds \in [Sinks -> SUBSET FDs]
  BY SinkAssumption DEF IInv, TypeOK
<1> USE DEF kernel, lib, history
<1>1. closes = 0 => InOrder /\ Seen
  BY DEF WInv
<1>2. CASE Quiet \/ Empties
  BY <1>1, <1>2 DEF Quiet, Empties, InOrder, Seen
<1>3. ASSUME NEW s \in Sinkfd, NEW k \in Opened, Adds(s, k)
      PROVE  InOrder' /\ Seen'
  <2>0. closes = 0 /\ s.fd \in FDs /\ s.fd \in Nat /\ s.sink \in Sinks
    BY <1>3, AddsParts DEF Adds
  <2>1. ASSUME NEW f \in FDs, NEW g \in FDs, file'[f] # Closed, file'[g] = Closed PROVE f < g
    <3>1. file'[s.fd] # Closed
      <4>1. file'[s.fd] = File(k, s.sink, s.addr)
        BY <1>3, AddsParts
      <4> QED BY <4>1 DEF File, Closed, Opened
    <3>2. g # s.fd /\ file[g] = Closed /\ s.fd <= g
      BY <1>3, <2>1, <3>1, AddsParts
    <3>3. CASE f = s.fd
      BY <1>0, <3>2, <3>3
    <3>4. CASE f # s.fd
      BY <1>1, <1>3, <2>0, <2>1, <3>2, <3>4, AddsParts DEF InOrder
    <3> QED BY <3>3, <3>4
  <2>2. \A sink \in Sinks : /\ fds'[sink] = IF sink = s.sink THEN fds[sink] \cup {s.fd} ELSE fds[sink]
                            /\ sink # s.sink => nfds'[sink] = nfds[sink]
    BY <1>0, <1>3, <2>0 DEF Adds
  <2>3. s.fd < nfds'[s.sink] /\ nfds'[s.sink] \in Nat
    <3>1. nfds'[s.sink] \in {s.fd + 1, Raised(s.sink, s.fd)}
      BY <1>0, <1>3, <2>0 DEF Adds
    <3>2. nfds[s.sink] \in Nat
      BY <1>0, <2>0
    <3> QED BY <2>0, <3>1, <3>2 DEF Raised
  <2>4. ASSUME NEW j \in DOMAIN sinkfds
        PROVE  sinkfds[j].fd \in fds'[sinkfds[j].sink] /\ sinkfds[j].fd < nfds'[sinkfds[j].sink]
    <3>1. sinkfds[j].fd \in FDs /\ sinkfds[j].sink \in Sinks /\ file[sinkfds[j].fd] # Closed
      BY <1>0, ListedNotFree DEF Sinkfd
    <3>2. sinkfds[j].fd < s.fd
      BY <1>1, <1>3, <2>0, <3>1, AddsParts DEF InOrder
    <3>3. sinkfds[j].fd \in fds[sinkfds[j].sink] /\ sinkfds[j].fd < nfds[sinkfds[j].sink]
      BY <1>1, <2>0 DEF Seen
    <3>4. CASE sinkfds[j].sink = s.sink
      <4>0. sinkfds[j].fd \in Nat
        BY <1>0, <3>1
      <4>1. sinkfds[j].fd < nfds'[s.sink]
        BY <2>0, <2>3, <3>2, <4>0
      <4> QED BY <2>2, <3>1, <3>3, <3>4, <4>1
    <3>5. CASE sinkfds[j].sink # s.sink
      BY <2>2, <3>1, <3>3, <3>5
    <3> QED BY <3>4, <3>5
  <2>5. s.fd \in fds'[s.sink]
    BY <2>0, <2>2
  <2> QED BY <1>3, <2>1, <2>3, <2>4, <2>5, AddsParts DEF InOrder, Seen
<1>4. ASSUME NEW addr \in UnixAddrs, UnixOpenFails(addr)
      PROVE  InOrder' /\ Seen'
  BY <1>1, <1>4 DEF UnixOpenFails, InOrder, Seen
<1>5. ASSUME NEW i \in DOMAIN sinkfds, apibus_close(i) PROVE FALSE
  BY <1>0, <1>5 DEF apibus_close
<1>6. CASE AppOpen
  <2>1. Lowest \in FDs /\ \A f \in FDs : file[f] = Closed => Lowest <= f
    BY <1>6, LowestFree DEF AppOpen
  <2>2. /\ \A f \in FDs : f # Lowest => file'[f] = file[f]
        /\ file'[Lowest] # Closed /\ UNCHANGED <<closes, sinkfds, fds, nfds>>
    BY <1>0, <1>6, <2>1 DEF AppOpen, TypeOK, Closed, Foreign
  <2> HIDE DEF Lowest
  <2> QED BY <1>0, <1>1, <2>1, <2>2 DEF InOrder, Seen
<1>7. ASSUME NEW f \in FDs, AppClose(f) PROVE FALSE
  BY <1>0, <1>7 DEF AppClose
<1>8. ASSUME NEW f \in FDs, Recv(f)
      PROVE  InOrder' /\ Seen'
  BY <1>1, <1>8 DEF Recv, InOrder, Seen
<1>9. ASSUME NEW f \in FDs, Hangup(f)
      PROVE  InOrder' /\ Seen'
  <2>1. \A i \in DOMAIN sinkfds' : \E j \in DOMAIN sinkfds : sinkfds'[i] = sinkfds[j]
    BY <1>0, <1>9, DroppedParts DEF Hangup
  <2>2. UNCHANGED <<file, fds, nfds, closes>>
    BY <1>9 DEF Hangup
  <2> QED BY <1>1, <2>1, <2>2 DEF InOrder, Seen
<1> QED BY <1>2, <1>3, <1>4, <1>5, <1>6, <1>7, <1>8, <1>9, StepKinds

(* The countdown and the readable descriptors ahead of the walk go down    *)
(* together.                                                               *)
LEMMA NextCountdown == IInv /\ CountdownSound /\ [Next]_vars => CountdownSound'
<1> SUFFICES ASSUME IInv, CountdownSound, [Next]_vars PROVE CountdownSound'
  OBVIOUS
<1>0. /\ IsFiniteSet(recvfds) /\ nr_recv_fds \in Nat
      /\ IsFiniteSet(recvfds \cap todo) /\ Cardinality(recvfds \cap todo) \in Nat
      /\ Cardinality(recvfds \cap todo) <= nr_recv_fds
  <2>1. IsFiniteSet(recvfds) /\ nr_recv_fds \in Nat
    BY DEF IInv, WalkInv, TypeOK
  <2>2. IsFiniteSet(recvfds \cap todo)
    BY <2>1, FS_Subset
  <2> QED BY <2>1, <2>2, FS_CardinalityType DEF CountdownSound
<1>1. CASE UNCHANGED walk
  BY <1>1 DEF CountdownSound, walk
(* The poll function returns, or goes on with the counts it has.           *)
<1>2. ASSUME NEW R, NEW S, NEW c \in Nat, Continue(R, S, c), Cardinality(R \cap S) <= c
      PROVE  CountdownSound'
  <2>1. CASE S = {} \/ c = 0
    <3>1. recvfds' \cap todo' = {} /\ nr_recv_fds' = 0
      BY <1>2, <2>1 DEF Continue
    <3> QED BY <3>1, FS_EmptySet DEF CountdownSound
  <2>2. CASE S # {} /\ c # 0
    BY <1>2, <2>2 DEF Continue, CountdownSound
  <2> QED BY <2>1, <2>2
<1>3. CASE select
  <2> DEFINE S == {s.fd : s \in {t \in Range(sinkfds) : t.sink = Polled}}
             R == Readable(Polled)
  <2>1. Continue(R, S, Cardinality(R)) /\ ~Idle
    BY <1>3 DEF select
  <2>2. IsFiniteSet(R) /\ Cardinality(R) \in Nat
    BY <2>1, LeftParts, ReadableParts DEF IInv
  <2> HIDE DEF S, R
  <2>3. Cardinality(R \cap S) <= Cardinality(R)
    BY <2>2, FS_Subset
  <2> QED BY <1>2, <2>1, <2>2, <2>3
<1>4. ASSUME NEW f \in FDs, Skip(f) PROVE CountdownSound'
  <2>1. recvfds \cap (todo \ {f}) = recvfds \cap todo
    BY <1>4 DEF Skip
  <2>2. Continue(recvfds, todo \ {f}, nr_recv_fds)
    BY <1>4 DEF Skip
  <2> QED BY <1>0, <1>2, <2>1, <2>2
<1>5. ASSUME NEW f \in FDs, Handling(f), Handled(f) PROVE CountdownSound'
  <2>1. f \in recvfds \cap todo /\ nr_recv_fds - 1 \in Nat
    BY <1>5, AtParts DEF Handling
  <2>2. recvfds \cap (todo \ {f}) = (recvfds \cap todo) \ {f}
    OBVIOUS
  <2>3. Cardinality((recvfds \cap todo) \ {f}) = Cardinality(recvfds \cap todo) - 1
    BY <1>0, <2>1, FS_RemoveElement
  <2>4. Cardinality(recvfds \cap (todo \ {f})) <= nr_recv_fds - 1
    BY <1>0, <2>2, <2>3
  <2>5. Continue(recvfds, todo \ {f}, nr_recv_fds - 1)
    BY <1>5 DEF Handled
  <2> QED BY <1>2, <2>1, <2>4, <2>5
<1>6. CASE apibus_poll
  BY <1>1, <1>3, <1>4, <1>5, <1>6
  DEF apibus_poll, PollBegin, SelectError, Accept, AcceptFails, Recv, Hangup
<1>7. CASE apibus_open
  BY <1>1, <1>7 DEF apibus_open, unix_open, UnixOpenFails, tcp_open, OpenFails, serial_open, vars
<1> QED
  BY <1>1, <1>6, <1>7
  DEF Next, vars, apibus_enable_posix, apibus_disable_posix, apibus_destroy, apibus_close,
      apibus_recv, AppOpen, AppClose, PeerActs

-----------------------------------------------------------------------------

LEMMA AlwaysIInv == Spec => []IInv
<1>1. Init => IInv
  BY InitIInv
<1>2. IInv /\ [Next]_vars => IInv'
  BY NextIInv
<1> QED BY <1>1, <1>2, PTL DEF Spec

(* Whatever is opened, closed, accepted and hung up, for any descriptors   *)
(* and addresses: a number in bus->sinkfds is there once and names the     *)
(* open file its record was made for.                                      *)
THEOREM SinksOwnTheirFiles == Spec => []OwnsLive
<1>1. IInv => OwnsLive
  BY DEF IInv, ListInv, Distinct, Owned, OwnsLive
<1>2. Spec => []IInv
  BY AlwaysIInv
<1> QED BY <1>1, <1>2, PTL

(* A poll function does not return while a readable descriptor of its list *)
(* is ahead of it, for any number of descriptors, listed or left over.     *)
THEOREM WalkNotCutShort == Spec => []CountdownSound
<1>1. Init => CountdownSound
  BY FS_EmptySet DEF Init, CountdownSound
<1>2. IInv /\ CountdownSound /\ [Next]_vars => CountdownSound'
  BY NextCountdown
<1>3. Spec => []IInv
  BY AlwaysIInv
<1> QED BY <1>1, <1>2, <1>3, PTL DEF Spec

(* As long as no number is given back, no sink overlooks a descriptor of   *)
(* its own: nfds stays above all of them.                                  *)
THEOREM NothingOverlooked == Spec => []AllWatched
<1>1. Init => WInv
  BY DEF Init, WInv, InOrder, Seen
<1>2. IInv /\ WInv => AllWatched
  BY DEF IInv, TypeOK, WInv, Seen, AllWatched, Watched, Returned
<1>3. IInv /\ WInv /\ [Next]_vars => WInv'
  BY NextWInv
<1>4. Spec => []IInv
  BY AlwaysIInv
<1> QED BY <1>1, <1>2, <1>3, <1>4, PTL DEF Spec

(* A sink goes deaf only by a number that was given to apibus_close().     *)
THEOREM SelectFailsOnlyAfterClose == Spec => []SelectSound
<1>1. Init => Orphans
  BY DEF Init, Orphans
<1>2. Orphans => SelectSound
  BY DEF Orphans, SelectSound, Watched, Closed
<1>3. IInv /\ Orphans /\ [Next]_vars => Orphans'
  BY NextOrphans
<1>4. Spec => []IInv
  BY AlwaysIInv
<1> QED BY <1>1, <1>2, <1>3, <1>4, PTL DEF Spec

(* As long as no unix address is opened twice, every open address leads to *)
(* its listener.                                                           *)
THEOREM ListenersReachable == Spec => []Reachable
<1>1. Init => Reachable
  BY DEF Init, Reachable
<1>2. IInv /\ Reachable /\ [Next]_vars => Reachable'
  BY NextReachable
<1>3. Spec => []IInv
  BY AlwaysIInv
<1> QED BY <1>1, <1>2, <1>3, PTL DEF Spec

(* The numbers by which the bus remembers a connection go on naming it     *)
(* until apibus_close(): RoutingCorrect of ApibusProofs rests on this.     *)
THEOREM NumbersKeepTheirMeaning == Spec => []NamesLast
<1>1. Init => NamesLast
  BY DEF Init, NamesLast
<1>2. IInv /\ NamesLast /\ [Next]_vars => NamesLast'
  BY NextNamesLast
<1>3. Spec => []IInv
  BY AlwaysIInv
<1> QED BY <1>1, <1>2, <1>3, PTL DEF Spec
=============================================================================
