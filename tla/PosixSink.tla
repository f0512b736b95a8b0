----------------------------- MODULE PosixSink -----------------------------
(***************************************************************************)
(* The sinks of src/apix-posix.c over their lifetime: enabled and disabled *)
(* with the bus, addresses opened and closed, connections accepted, read   *)
(* and dropped by the poll functions.  What the bytes say is the subject   *)
(* of SrrpStream, what the bus does with them of Apibus; here it is        *)
(* descriptor numbers: which ones the sinks own, which ones select()       *)
(* watches, which ones the bus remembers, and who gets them next.          *)
(*                                                                         *)
(* The kernel's tables are external: the lowest free number is handed out, *)
(* the application has files of its own, and bind() puts a unix socket at  *)
(* a path.  select() interrupted by a signal is left out.                  *)
(***************************************************************************)
EXTENDS Integers, Sequences, FiniteSets, SequencesExt

CONSTANTS
  FDs,         \* the descriptor numbers, a set of naturals
  UnixAddrs, TcpAddrs, Devices,   \* what can be opened in which sink
  MaxCloses,   \* bound: calls of apibus_close() and of the application's close()
  None

ASSUME SinkAssumption ==
  /\ FDs \subseteq Nat
  /\ MaxCloses \in Nat
  /\ None \notin FDs \cup UnixAddrs \cup TcpAddrs \cup Devices

(* bus->sinks, in the order in which apibus_poll() comes to them.          *)
Order == <<"serial", "tcp", "unix">>
Sinks == Range(Order)
AddrsOf(sink) ==
  CASE sink = "unix" -> UnixAddrs [] sink = "tcp" -> TcpAddrs [] sink = "serial" -> Devices

VARIABLES
  file,        \* kernel: descriptor -> what is open there
  ready,       \* kernel: descriptor -> "quiet", "data" (or a connection waits), "eof"
  path,        \* kernel: unix address -> the descriptor bound there, or None
  enabled,     \* the sinks are in bus->sinks
  sinkfds,     \* bus->sinkfds, newest first; a sink's own list is the part of it
  fds, nfds,   \* struct posix_sink: static, they outlive the bus
  left,        \* the sinks apibus_poll() still has to poll, <<>> outside of it
  recvfds,     \* unix_poll(), serial_poll(): what select() found readable, ...
  nr_recv_fds, \* ... how many of them the walk has not come to, ...
  todo,        \* ... and the descriptors of the sink's list still ahead of the walk
  remembered,  \* numbers that requests, stations and topics may name
  given,       \* numbers that were given to apibus_close() (history)
  closes,      \* how many numbers were given back to the kernel (history)
  clash        \* a unix address was opened a second time (history)

kernel == <<file, ready, path>>
lib == <<enabled, sinkfds, fds, nfds>>
history == <<given, closes, clash>>
walk == <<recvfds, nr_recv_fds, todo>>
vars == <<kernel, lib, left, walk, remembered, history>>

Closed == [kind |-> "closed", sink |-> None, addr |-> None]
Foreign == [kind |-> "foreign", sink |-> None, addr |-> None]
File(kind, sink, addr) == [kind |-> kind, sink |-> sink, addr |-> addr]

Init ==
  /\ file = [f \in FDs |-> Closed]
  /\ ready = [f \in FDs |-> "quiet"]
  /\ path = [a \in UnixAddrs |-> None]
  /\ enabled = FALSE
  /\ sinkfds = <<>>
  /\ fds = [s \in Sinks |-> {}]
  /\ nfds = [s \in Sinks |-> 0]
  /\ left = <<>> /\ todo = {} /\ recvfds = {} /\ nr_recv_fds = 0
  /\ remembered = {}
  /\ given = {} /\ closes = 0 /\ clash = FALSE

Free == {f \in FDs : file[f] = Closed}
Lowest == CHOOSE f \in Free : \A g \in Free : f <= g

(* The application's thread is not inside apibus_poll().                   *)
Idle == left = <<>>

-----------------------------------------------------------------------------
(* The bus and its sinks.                                                  *)

(* apisink_init() and apibus_add_sink(): fds and nfds are not reset.       *)
apibus_enable_posix ==
  /\ Idle /\ ~enabled
  /\ enabled' = TRUE
  /\ UNCHANGED <<kernel, sinkfds, fds, nfds, left, walk, remembered, history>>

(* apibus_del_sink(), apisink_fini(): every sinkfd_destroy(), no close().  *)
apibus_disable_posix ==
  /\ Idle /\ enabled
  /\ enabled' = FALSE
  /\ sinkfds' = <<>>
  /\ UNCHANGED <<kernel, fds, nfds, left, walk, remembered, history>>

(* Requests, stations and topics go too.                                   *)
apibus_destroy ==
  /\ Idle
  /\ enabled' = FALSE
  /\ sinkfds' = <<>>
  /\ remembered' = {}
  /\ UNCHANGED <<kernel, fds, nfds, left, walk, history>>

-----------------------------------------------------------------------------
(* apibus_open(), apibus_close().                                          *)

(* The end of the open functions: a new sinkfd, and select() told of it.   *)
AddSinkfd(fd, sink, kind, addr) ==
  /\ file' = [file EXCEPT ![fd] = File(kind, sink, addr)]
  /\ ready' = [ready EXCEPT ![fd] = "quiet"]
  /\ sinkfds' = <<[fd |-> fd, sink |-> sink, listen |-> kind = "listen", addr |-> addr]>>
                \o sinkfds
  /\ fds' = [fds EXCEPT ![sink] = @ \cup {fd}]

Opening(sink, addr) ==
  /\ Idle /\ enabled
  /\ Free # {}
  /\ addr \in AddrsOf(sink)

(* Fault, for the mutation runs (so are the operators below whose comment  *)
(* says "fault"): bind(), then unlink().                                   *)
UnixOpenUnlinksLast(addr) ==
  /\ Opening("unix", addr)
  /\ AddSinkfd(Lowest, "unix", "listen", addr)
  /\ path' = [path EXCEPT ![addr] = None]
  /\ nfds' = [nfds EXCEPT !["unix"] = Lowest + 1]
  /\ clash' = (clash \/ \E f \in FDs : file[f].addr = addr)
  /\ UNCHANGED <<enabled, left, walk, remembered, given, closes>>

unix_open(addr) ==
  /\ Opening("unix", addr)
  /\ AddSinkfd(Lowest, "unix", "listen", addr)
  /\ path' = [path EXCEPT ![addr] = Lowest]
  /\ nfds' = [nfds EXCEPT !["unix"] = Lowest + 1]
  /\ clash' = (clash \/ \E f \in FDs : file[f].addr = addr)
  /\ UNCHANGED <<enabled, left, walk, remembered, given, closes>>

(* bind() or listen() fails; the path is gone all the same.                *)
UnixOpenFails(addr) ==
  /\ Opening("unix", addr)
  /\ path' = [path EXCEPT ![addr] = None]
  /\ clash' = (clash \/ \E f \in FDs : file[f].addr = addr)
  /\ UNCHANGED <<file, ready, lib, left, walk, remembered, given, closes>>

(* bind() refuses a port that a descriptor of the process still listens on.*)
tcp_open(addr) ==
  /\ Opening("tcp", addr)
  /\ \A f \in FDs : file[f].kind = "listen" => file[f].addr # addr
  /\ AddSinkfd(Lowest, "tcp", "listen", addr)
  /\ nfds' = [nfds EXCEPT !["tcp"] = Lowest + 1]
  /\ UNCHANGED <<path, enabled, left, walk, remembered, history>>

(* Fault: FD_SET() before it is known that bind() succeeds.                *)
OpenFailsWatched(sink, addr) ==
  /\ Opening(sink, addr)
  /\ fds' = [fds EXCEPT ![sink] = @ \cup {Lowest}]
  /\ nfds' = [nfds EXCEPT ![sink] = Lowest + 1]
  /\ UNCHANGED <<kernel, enabled, sinkfds, left, walk, remembered, history>>

(* The new descriptor is closed again; the kernel's table is as before.    *)
OpenFails(sink, addr) ==
  /\ Opening(sink, addr)
  /\ sink = "tcp"
  /\ UNCHANGED vars

serial_open(addr) ==
  /\ Opening("serial", addr)
  /\ AddSinkfd(Lowest, "serial", "tty", addr)
  /\ nfds' = [nfds EXCEPT !["serial"] = Lowest + 1]
  /\ UNCHANGED <<path, enabled, left, walk, remembered, history>>

(* Fault: the record outlives its descriptor.                              *)
CloseKeepsRecord(i) == sinkfds

(* sinkfd_destroy()                                                        *)
Dropped(i) == RemoveAt(sinkfds, i)

(* apibus_close() with the sink's close function: close(), for a unix      *)
(* address unlink(), sinkfd_destroy().  FD_CLR() is nowhere.               *)
apibus_close(i) ==
  /\ Idle
  /\ closes < MaxCloses
  /\ LET s == sinkfds[i] IN
     /\ file' = [file EXCEPT ![s.fd] = Closed]
     /\ ready' = [ready EXCEPT ![s.fd] = "quiet"]
     /\ path' = IF s.sink = "unix" /\ s.listen THEN [path EXCEPT ![s.addr] = None] ELSE path
     /\ given' = given \cup {s.fd}
     /\ closes' = closes + 1
  /\ sinkfds' = Dropped(i)
  /\ UNCHANGED <<enabled, fds, nfds, left, walk, remembered, clash>>

(* find_sinkfd_in_apibus()                                                 *)
Listed(f) == \E i \in DOMAIN sinkfds : sinkfds[i].fd = f

(* The application reads a connection itself, past the bus.                *)
apibus_recv(f) ==
  /\ Idle
  /\ Listed(f) /\ file[f].kind # "listen"
  /\ ready[f] = "data"
  /\ ready' = [ready EXCEPT ![f] = "quiet"]
  /\ UNCHANGED <<file, path, lib, left, walk, remembered, history>>

-----------------------------------------------------------------------------
(* The application's own files, and the peers (external).                  *)

AppOpen ==
  /\ Idle
  /\ Free # {}
  /\ file' = [file EXCEPT ![Lowest] = Foreign]
  /\ UNCHANGED <<ready, path, lib, left, walk, remembered, history>>

AppClose(f) ==
  /\ Idle
  /\ closes < MaxCloses
  /\ file[f] = Foreign
  /\ file' = [file EXCEPT ![f] = Closed]
  /\ closes' = closes + 1
  /\ UNCHANGED <<ready, path, lib, left, walk, remembered, given, clash>>

(* A client connects, to a unix socket by its path; a peer sends or closes.*)
(* What peers do while apibus_poll() runs has the effect of doing it before*)
(* or after, since each descriptor is looked at once.                      *)
PeerActs(f, what) ==
  /\ Idle
  /\ ready[f] = "quiet"
  /\ \/ file[f].kind \in {"conn", "tty"}
     \/ /\ file[f].kind = "listen" /\ what = "data"
        /\ file[f].sink = "unix" => path[file[f].addr] = f
  /\ ready' = [ready EXCEPT ![f] = what]
  /\ UNCHANGED <<file, path, lib, left, walk, remembered, history>>

-----------------------------------------------------------------------------
(* apibus_poll(): the poll function of each sink.                          *)

PollBegin ==
  /\ Idle /\ enabled
  /\ left' = Order
  /\ UNCHANGED <<kernel, lib, walk, remembered, history>>

Polled == left[1]
Watched(sink) == {f \in fds[sink] : f < nfds[sink]}
SelectFails(sink) == \E f \in Watched(sink) : file[f] = Closed

Readable(sink) == {f \in Watched(sink) : ready[f] # "quiet"}

(* The head of the loop over the sink's list: the poll function returns at *)
(* the end of the list, or when all that select() counted has been handled.*)
Continue(readable, ahead, count) ==
  LET ends == ahead = {} \/ count = 0
  IN /\ left' = IF ends THEN Tail(left) ELSE left
     /\ recvfds' = IF ends THEN {} ELSE readable
     /\ todo' = IF ends THEN {} ELSE ahead
     /\ nr_recv_fds' = IF ends THEN 0 ELSE count

(* select() counts what is readable, on the sink's list or not: connections*)
(* that have hung up are watched as long as the process lives.             *)
select ==
  /\ ~Idle /\ todo = {}
  /\ ~SelectFails(Polled)
  /\ Continue(Readable(Polled), {s.fd : s \in {t \in Range(sinkfds) : t.sink = Polled}},
              Cardinality(Readable(Polled)))
  /\ UNCHANGED <<kernel, lib, remembered, history>>

(* EBADF: the sink is not polled.                                          *)
SelectError ==
  /\ ~Idle /\ todo = {}
  /\ SelectFails(Polled)
  /\ left' = Tail(left)
  /\ UNCHANGED <<kernel, lib, walk, remembered, history>>

(* The sink's list is walked from its head; what accept() adds in front is *)
(* not come to.                                                            *)
At(f) ==
  /\ ~Idle /\ f \in todo
  /\ \E i \in DOMAIN sinkfds :
       sinkfds[i].fd = f /\ \A j \in 1..(i - 1) : sinkfds[j].fd \notin todo

(* Fault: every entry of the list is counted.                              *)
SkipCounted(f) ==
  /\ At(f) /\ f \notin recvfds
  /\ Continue(recvfds, todo \ {f}, nr_recv_fds - 1)
  /\ UNCHANGED <<kernel, lib, remembered, history>>

(* Not in recvfds: on to the next entry, uncounted.                        *)
Skip(f) ==
  /\ At(f) /\ f \notin recvfds
  /\ Continue(recvfds, todo \ {f}, nr_recv_fds)
  /\ UNCHANGED <<kernel, lib, remembered, history>>

Handling(f) == At(f) /\ f \in recvfds

(* Fault: the poll function returns after one descriptor.                  *)
HandledOneOnly(f) == Continue(recvfds, {}, nr_recv_fds - 1)

Handled(f) == Continue(recvfds, todo \ {f}, nr_recv_fds - 1)

Listens(f) == file[f].kind = "listen"

(* Fault: nfds is not raised.                                              *)
RaisedNot(sink, fd) == nfds[sink]

Raised(sink, fd) == IF nfds[sink] < fd + 1 THEN fd + 1 ELSE nfds[sink]

Accept(f) ==
  /\ Handling(f) /\ Listens(f)
  /\ Free # {}
  /\ file' = [file EXCEPT ![Lowest] = File("conn", Polled, None)]
  /\ ready' = [ready EXCEPT ![f] = "quiet", ![Lowest] = "quiet"]
  /\ sinkfds' = <<[fd |-> Lowest, sink |-> Polled, listen |-> FALSE, addr |-> None]>> \o sinkfds
  /\ fds' = [fds EXCEPT ![Polled] = @ \cup {Lowest}]
  /\ nfds' = [nfds EXCEPT ![Polled] = Raised(Polled, Lowest)]
  /\ Handled(f)
  /\ UNCHANGED <<path, enabled, remembered, history>>

(* accept() finds no free descriptor: the connection goes on waiting.      *)
AcceptFails(f) ==
  /\ Handling(f) /\ Listens(f)
  /\ Free = {}
  /\ Handled(f)
  /\ UNCHANGED <<kernel, lib, remembered, history>>

(* What arrives may make the bus remember the number.                      *)
Recv(f) ==
  /\ Handling(f) /\ ~Listens(f)
  /\ ready[f] = "data"
  /\ ready' = [ready EXCEPT ![f] = "quiet"]
  /\ remembered' = remembered \cup {f}
  /\ Handled(f)
  /\ UNCHANGED <<file, path, lib, history>>

(* Fault: the connection is closed, as one would expect.                   *)
HangupCloses(f) ==
  /\ Handling(f) /\ ~Listens(f)
  /\ ready[f] = "eof"
  /\ \E i \in DOMAIN sinkfds : sinkfds[i].fd = f /\ sinkfds' = Dropped(i)
  /\ file' = [file EXCEPT ![f] = Closed]
  /\ ready' = [ready EXCEPT ![f] = "quiet"]
  /\ Handled(f)
  /\ UNCHANGED <<path, enabled, fds, nfds, remembered, history>>

(* sinkfd_destroy(): the record goes, the descriptor stays open.           *)
Hangup(f) ==
  /\ Handling(f) /\ ~Listens(f)
  /\ ready[f] = "eof"
  /\ \E i \in DOMAIN sinkfds : sinkfds[i].fd = f /\ sinkfds' = Dropped(i)
  /\ Handled(f)
  /\ UNCHANGED <<kernel, enabled, fds, nfds, remembered, history>>

apibus_poll ==
  \/ PollBegin \/ select \/ SelectError
  \/ \E f \in FDs : Skip(f) \/ Accept(f) \/ AcceptFails(f) \/ Recv(f) \/ Hangup(f)

apibus_open ==
  \/ \E addr \in UnixAddrs : unix_open(addr) \/ UnixOpenFails(addr)
  \/ \E addr \in TcpAddrs : tcp_open(addr) \/ OpenFails("tcp", addr)
  \/ \E addr \in Devices : serial_open(addr)

Next ==
  \/ apibus_enable_posix \/ apibus_disable_posix \/ apibus_destroy
  \/ apibus_open
  \/ \E i \in DOMAIN sinkfds : apibus_close(i)
  \/ \E f \in FDs : apibus_recv(f)
  \/ AppOpen \/ \E f \in FDs : AppClose(f) \/ \E what \in {"data", "eof"} : PeerActs(f, what)
  \/ apibus_poll

(* The application calls apibus_poll() again and again.                    *)
Spec == Init /\ [][Next]_vars /\ WF_vars(apibus_poll)

-----------------------------------------------------------------------------

(* The type of the state.                                                  *)
TypeOK ==
  /\ file \in [FDs -> [kind : {"closed", "foreign", "listen", "conn", "tty"},
                       sink : Sinks \cup {None},
                       addr : UnixAddrs \cup TcpAddrs \cup Devices \cup {None}]]
  /\ ready \in [FDs -> {"quiet", "data", "eof"}]
  /\ path \in [UnixAddrs -> FDs \cup {None}]
  /\ enabled \in BOOLEAN
  /\ ~enabled => sinkfds = <<>>
  /\ fds \in [Sinks -> SUBSET FDs]
  /\ nfds \in [Sinks -> Nat]
  /\ left \in {SubSeq(Order, i, 3) : i \in 1..4}
  /\ todo \subseteq {sinkfds[i].fd : i \in DOMAIN sinkfds}
  /\ recvfds \subseteq FDs /\ nr_recv_fds \in Nat
  /\ remembered \subseteq FDs /\ given \subseteq FDs
  /\ closes \in 0..MaxCloses /\ clash \in BOOLEAN

(* The state has its type, and the sinks own what they think they own: no  *)
(* two records share a number, and behind each number is the open file it  *)
(* was made for, a listener for a listener, a connection of the same sink  *)
(* for a connection.  apibus_send() and apibus_close() find their sink by  *)
(* the number alone.                                                       *)
OwnsLive ==
  /\ TypeOK
  /\ \A i, j \in DOMAIN sinkfds : sinkfds[i].fd = sinkfds[j].fd => i = j
  /\ \A i \in DOMAIN sinkfds :
       LET s == sinkfds[i]
       IN /\ file[s.fd].sink = s.sink /\ file[s.fd].addr = s.addr
          /\ s.listen <=> Listens(s.fd)

Returned == closes > 0

(* Every descriptor of a sink is seen by its select(), across accepting,   *)
(* reopening and re-enabling on the static fds and nfds, as long as no     *)
(* descriptor number has been given back to the kernel.  (Once one has, an *)
(* open function may get a lower number and lowers nfds to it.)            *)
AllWatched ==
  ~Returned => \A i \in DOMAIN sinkfds : sinkfds[i].fd \in Watched(sinkfds[i].sink)

(* select() fails with EBADF only over a number that was once passed to    *)
(* apibus_close(): nothing else makes a sink deaf, not even the leftovers  *)
(* of an earlier bus.                                                      *)
SelectSound ==
  \A sink \in Sinks : \A f \in Watched(sink) : file[f] = Closed => f \in given

(* As long as no unix address is opened twice, clients that connect to an  *)
(* open address reach the listener the bus opened there.                   *)
Reachable ==
  ~clash => \A i \in DOMAIN sinkfds :
    sinkfds[i].sink = "unix" /\ sinkfds[i].listen => path[sinkfds[i].addr] = sinkfds[i].fd

(* A number that requests, stations or topics may name goes on naming the  *)
(* same connection, although the connection may have hung up, until the    *)
(* application hands that very number to apibus_close().                   *)
NamesLast ==
  \A f \in remembered \ given : file[f].kind \in {"conn", "tty"}

(* The countdown does not end the walk early: it is never less than the    *)
(* number of readable descriptors the walk has yet to come to, although    *)
(* select() counts descriptors that are on no list and the list holds      *)
(* descriptors that are not readable.                                      *)
CountdownSound == Cardinality(recvfds \cap todo) <= nr_recv_fds

(* With apibus_poll() called in a loop, whatever waits at a descriptor of a*)
(* sink is taken, unless the descriptor is closed, the bus goes away, the  *)
(* process has no descriptors left, or a number was given back.            *)
Served ==
  \A f \in FDs :
    Listed(f) /\ ready[f] # "quiet"
    ~> ready[f] = "quiet" \/ ~Listed(f) \/ Returned \/ Free = {}

(* "apibus_destroy(bus); // auto close all fds" (demos/): nothing the sinks*)
(* have opened is open any more.                                           *)
AutoClosed ==
  [][apibus_destroy => \A f \in FDs : file'[f] \in {Closed, Foreign}]_vars

=============================================================================
