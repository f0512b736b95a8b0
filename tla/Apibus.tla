------------------------------- MODULE Apibus -------------------------------
(***************************************************************************)
(* The message bus of src/apix.c on a stream socket sink (unix_poll of     *)
(* src/apix-posix.c): one thread calls apibus_poll() in a loop, peers      *)
(* connect, send SRRP packets and disconnect at any moment.                *)
(*                                                                         *)
(* One round of apibus_poll() is the sequence of phases in pc:             *)
(*   select   select() takes a snapshot of the readable descriptors        *)
(*   sinks    accept, recv or hang up, one ready descriptor at a time      *)
(*   parse    parse_packet() queues every packet of every receive buffer   *)
(*   request, response, topic   the three handlers, one message per step   *)
(* Peers act between any two steps.  Packets arrive whole (the byte stream *)
(* is the subject of SrrpStream and AtBuf); the idle sleep of the round    *)
(* only delays it and is left out.                                         *)
(***************************************************************************)
EXTENDS Integers, Sequences, FiniteSets, SequencesExt

CONSTANTS
  Conns,       \* the connections peers may open, each once
  Quitters,    \* the connections whose peer may close
  FDs,         \* the descriptor numbers the process can still hand out
  Listener,    \* the descriptor of the listening socket
  StationIds,  \* station ids (uint16_t)
  Headers,     \* packet headers
  Crcs,        \* values of crc16 over header and data
  DstId,       \* header -> what sscanf("/%d/") finds, as uint16_t, or NoDst
  NoDst,
  Extends,     \* <<t, h>> such that topic header t starts with header h
  Script,      \* connection -> the packets its peer may send
  None,        \* no connection, no descriptor
  API_REQUEST_TIMEOUT,           \* in ticks of time(0)
  APIBUS_STATION_ALIVE_TIMEOUT,  \* in ticks of time(0)
  MaxSends     \* bound: connection -> packets its peer sends

Leader == {">", "<", "#", "%", "@"}

(* struct srrp_packet; crc is the crc16 of a request, the reqcrc16 of a    *)
(* response.                                                               *)
Packet == [leader : Leader, srcid : StationIds, header : Headers, crc : Crcs]

ASSUME ApibusAssumption ==
  /\ Quitters \subseteq Conns
  /\ FDs \subseteq Nat
  /\ Listener \notin FDs
  /\ None \notin Conns /\ None \notin FDs
  /\ NoDst \notin StationIds
  /\ DstId \in [Headers -> StationIds \cup {NoDst}]
  /\ Script \in [Conns -> SUBSET Packet]
  /\ API_REQUEST_TIMEOUT \in Nat
  /\ APIBUS_STATION_ALIVE_TIMEOUT \in Nat
  /\ MaxSends \in [Conns -> Nat]

VARIABLES
  (* The peers and the kernel. *)
  peer,        \* connection -> "new", "open" or "closed" at the peer's end
  backlog,     \* connections waiting for accept(), oldest first
  chan,        \* connection -> packets sent and not yet received
  fdtab,       \* descriptor -> connection it refers to, None if unused
  got,         \* connection -> what the bus sent to it
  told,        \* connection -> how many answers to requests were sent to it (history)
  asked,       \* connection -> packets its peer has sent, oldest first (history)
  (* The bus. *)
  up,          \* the process runs
  pc,          \* phase of apibus_poll()
  ready,       \* recvfds: descriptors the current round still has to serve
  sinkfds,     \* bus->sinkfds, newest first
  rxbuf,       \* descriptor -> packets in its receive buffer
  requests,    \* bus->requests, newest first
  cur,         \* position of handle_request() in requests
  responses,   \* bus->responses, newest first
  topic_msgs,  \* bus->topic_msgs, newest first
  stations,    \* bus->stations: station id -> descriptor and seconds since alive
  topics       \* bus->topics, newest first

peers == <<peer, backlog, chan, asked>>
inputs == <<fdtab, ready, sinkfds, rxbuf>>
queues == <<requests, responses, topic_msgs>>
sent == <<got, told>>
vars == <<peers, inputs, queues, sent, up, pc, cur, stations, topics>>

Phase == {"select", "sinks", "parse", "request", "response", "topic"}

NoStation == [fd |-> None, age |-> 0]

(* What a peer can find on its connection: a packet the bus passed on, or  *)
(* one of the bus's own texts with the packet that provoked it (history).  *)
Message == [kind : {"request", "response", "publish", "timeout", "notfound",
                    "subok", "unsubok"}, pac : Packet]

(* What the sender of a request is waiting for.                            *)
Answer == {"response", "timeout", "notfound"}

Init ==
  /\ peer = [c \in Conns |-> "new"]
  /\ backlog = <<>>
  /\ chan = [c \in Conns |-> <<>>]
  /\ fdtab = [F \in FDs |-> None]
  /\ got = [c \in Conns |-> {}]
  /\ told = [c \in Conns |-> 0]
  /\ asked = [c \in Conns |-> <<>>]
  /\ up = TRUE
  /\ pc = "select"
  /\ ready = {}
  /\ sinkfds = <<Listener>>
  /\ rxbuf = [F \in FDs |-> <<>>]
  /\ requests = <<>>
  /\ cur = 1
  /\ responses = <<>>
  /\ topic_msgs = <<>>
  /\ stations = [id \in StationIds |-> NoStation]
  /\ topics = <<>>

-----------------------------------------------------------------------------
(* The peers, the kernel and the clock.                                    *)

PeerConnect(c) ==
  /\ up
  /\ peer[c] = "new"
  /\ peer' = [peer EXCEPT ![c] = "open"]
  /\ backlog' = Append(backlog, c)
  /\ UNCHANGED <<chan, asked, inputs, queues, sent, up, pc, cur, stations, topics>>

PeerSend(c, p) ==
  /\ up
  /\ peer[c] = "open"
  /\ Len(asked[c]) < MaxSends[c]
  /\ chan' = [chan EXCEPT ![c] = Append(@, p)]
  /\ asked' = [asked EXCEPT ![c] = Append(@, p)]
  /\ UNCHANGED <<peer, backlog, inputs, queues, sent, up, pc, cur, stations, topics>>

(* An orderly close leaves what was sent readable, a reset discards it.    *)
PeerClose(c) ==
  /\ up
  /\ peer[c] = "open"
  /\ peer' = [peer EXCEPT ![c] = "closed"]
  /\ chan' \in {chan, [chan EXCEPT ![c] = <<>>]}
  /\ UNCHANGED <<backlog, asked, inputs, queues, sent, up, pc, cur, stations, topics>>

(* A second passes.  Ages stand for time(0) minus the stored time stamp    *)
(* and stop growing once they are past every limit they are compared with. *)
Older(age, limit) == IF age < limit THEN age + 1 ELSE age

Tick ==
  /\ up
  /\ requests' = [i \in DOMAIN requests |->
                    IF requests[i].state = "wait"
                    THEN [requests[i] EXCEPT !.age = Older(@, API_REQUEST_TIMEOUT)]
                    ELSE requests[i]]
  /\ stations' = [id \in StationIds |->
                    IF stations[id].fd = None THEN NoStation
                    ELSE [stations[id] EXCEPT !.age = Older(@, APIBUS_STATION_ALIVE_TIMEOUT + 1)]]
  /\ UNCHANGED <<peers, inputs, responses, topic_msgs, sent, up, pc, cur, topics>>

(* apibus_send() of m to each descriptor of S: nothing where no sinkfd is  *)
(* left; where the peer has gone send() fails, and the SIGPIPE nobody      *)
(* handles may end the process.                                            *)
Reach(S) == {fdtab[F] : F \in S \cap Range(sinkfds)}

SendAll(S, m) ==
  /\ got' = [c \in Conns |-> IF c \in Reach(S) /\ peer[c] = "open"
                             THEN got[c] \cup {m} ELSE got[c]]
  /\ told' = [c \in Conns |-> IF c \in Reach(S) /\ peer[c] = "open" /\ m.kind \in Answer
                              THEN told[c] + 1 ELSE told[c]]
  /\ up' \in IF \E c \in Reach(S) : peer[c] = "closed" THEN BOOLEAN ELSE {TRUE}

apibus_send(F, kind, pac) == SendAll({F}, [kind |-> kind, pac |-> pac])

-----------------------------------------------------------------------------
(* apibus_poll(): the sinks.                                               *)

Readable(F) ==
  IF F = Listener THEN backlog # <<>>
  ELSE chan[fdtab[F]] # <<>> \/ peer[fdtab[F]] = "closed"

Select ==
  /\ up
  /\ pc = "select"
  /\ ready' = {F \in Range(sinkfds) : Readable(F)}
  /\ pc' = "sinks"
  /\ UNCHANGED <<peers, fdtab, sinkfds, rxbuf, queues, sent, up, cur, stations, topics>>

(* F is the next ready descriptor in the order of the sink's list.         *)
Turn(F) ==
  /\ up
  /\ pc = "sinks"
  /\ F \in ready
  /\ \E i \in DOMAIN sinkfds : /\ sinkfds[i] = F
                              /\ \A j \in 1..i-1 : sinkfds[j] \notin ready

(* A fault for the mutation runs (so are the operators below whose comment *)
(* says "fault"): the new sinkfd is not added to the bus.                  *)
AcceptUnlisted(F) ==
  /\ Turn(Listener)
  /\ fdtab[F] = None
  /\ \A G \in FDs : fdtab[G] = None => F <= G
  /\ fdtab' = [fdtab EXCEPT ![F] = Head(backlog)]
  /\ backlog' = Tail(backlog)
  /\ ready' = ready \ {Listener}
  /\ UNCHANGED <<peer, chan, asked, sinkfds, rxbuf, queues, sent, up, pc, cur, stations, topics>>

(* accept() returns the lowest unused descriptor.                          *)
Accept(F) ==
  /\ Turn(Listener)
  /\ fdtab[F] = None
  /\ \A G \in FDs : fdtab[G] = None => F <= G
  /\ fdtab' = [fdtab EXCEPT ![F] = Head(backlog)]
  /\ backlog' = Tail(backlog)
  /\ sinkfds' = Cons(F, sinkfds)
  /\ ready' = ready \ {Listener}
  /\ UNCHANGED <<peer, chan, asked, rxbuf, queues, sent, up, pc, cur, stations, topics>>

(* accept() fails for want of a descriptor; the connection keeps waiting.  *)
AcceptFails ==
  /\ Turn(Listener)
  /\ \A F \in FDs : fdtab[F] # None
  /\ ready' = ready \ {Listener}
  /\ UNCHANGED <<peers, fdtab, sinkfds, rxbuf, queues, sent, up, pc, cur, stations, topics>>

Recv(F) ==
  /\ Turn(F)
  /\ chan[fdtab[F]] # <<>>
  /\ rxbuf' = [rxbuf EXCEPT ![F] = @ \o chan[fdtab[F]]]
  /\ chan' = [chan EXCEPT ![fdtab[F]] = <<>>]
  /\ ready' = ready \ {F}
  /\ UNCHANGED <<peer, backlog, asked, fdtab, sinkfds, queues, sent, up, pc, cur, stations,
                 topics>>

(* Fault: the descriptor is closed, so that accept() may return it again.  *)
DestroyAndClose(F) ==
  /\ \E i \in DOMAIN sinkfds : sinkfds[i] = F /\ sinkfds' = RemoveAt(sinkfds, i)
  /\ rxbuf' = [rxbuf EXCEPT ![F] = <<>>]
  /\ fdtab' = [fdtab EXCEPT ![F] = None]

(* recv() returns 0 or -1: sinkfd_destroy().  The descriptor itself is not *)
(* closed.                                                                 *)
sinkfd_destroy(F) ==
  /\ \E i \in DOMAIN sinkfds : sinkfds[i] = F /\ sinkfds' = RemoveAt(sinkfds, i)
  /\ rxbuf' = [rxbuf EXCEPT ![F] = <<>>]
  /\ UNCHANGED fdtab

Hangup(F) ==
  /\ Turn(F)
  /\ chan[fdtab[F]] = <<>>
  /\ sinkfd_destroy(F)
  /\ ready' = ready \ {F}
  /\ UNCHANGED <<peers, queues, sent, up, pc, cur, stations, topics>>

SinksDone ==
  /\ up
  /\ pc = "sinks"
  /\ ready = {}
  /\ pc' = "parse"
  /\ UNCHANGED <<peers, inputs, queues, sent, up, cur, stations, topics>>

-----------------------------------------------------------------------------
(* apibus_poll(): parse_packet() on each sinkfd in list order; list_add()  *)
(* puts what it queues in front.                                           *)

Buffered(F) == F \in FDs /\ rxbuf[F] # <<>>

ParsePacket(F) ==
  LET p == Head(rxbuf[F])
      msg == [pac |-> p, fd |-> F]
  IN /\ up
     /\ pc = "parse"
     /\ Buffered(F)
     /\ \E i \in DOMAIN sinkfds : /\ sinkfds[i] = F
                                 /\ \A j \in 1..i-1 : ~Buffered(sinkfds[j])
     /\ rxbuf' = [rxbuf EXCEPT ![F] = Tail(@)]
     /\ requests' = IF p.leader = ">"
                    THEN Cons([pac |-> p, fd |-> F, state |-> "none", age |-> 0], requests)
                    ELSE requests
     /\ responses' = IF p.leader = "<" THEN Cons(msg, responses) ELSE responses
     /\ topic_msgs' = IF p.leader \in {"#", "%", "@"} THEN Cons(msg, topic_msgs) ELSE topic_msgs
     /\ UNCHANGED <<peers, fdtab, ready, sinkfds, sent, up, pc, cur, stations, topics>>

ParseDone ==
  /\ up
  /\ pc = "parse"
  /\ \A F \in Range(sinkfds) : ~Buffered(F)
  /\ pc' = "request"
  /\ cur' = 1
  /\ UNCHANGED <<peers, inputs, queues, sent, up, stations, topics>>

-----------------------------------------------------------------------------
(* apibus_poll(): handle_request().                                        *)

AtRequest(state) ==
  /\ up
  /\ pc = "request"
  /\ cur <= Len(requests)
  /\ requests[cur].state = state

find_station(stts, id) == id \in StationIds /\ stts[id].fd # None

(* Fault: a known station moves to whoever uses its id.                    *)
TouchMovesStation(r) ==
  [stations EXCEPT ![r.pac.srcid] = [fd |-> r.fd, age |-> 0]]

(* The requesting station is added, or its time stamp renewed; the         *)
(* descriptor of a known station is not.                                   *)
TouchStation(r) ==
  [stations EXCEPT ![r.pac.srcid] = IF find_station(stations, r.pac.srcid)
                                    THEN [@ EXCEPT !.age = 0]
                                    ELSE [fd |-> r.fd, age |-> 0]]

(* Fault: the settled request stays in the list.                           *)
DeleteForgotten(i) == UNCHANGED requests

api_request_delete(i) == requests' = RemoveAt(requests, i)

RequestWaits ==
  /\ AtRequest("wait")
  /\ requests[cur].age < API_REQUEST_TIMEOUT
  /\ cur' = cur + 1
  /\ UNCHANGED <<peers, inputs, queues, sent, up, pc, stations, topics>>

(* Fault: requests of a connection that has gone are never given up.       *)
TimeoutOnlyConnected ==
  /\ AtRequest("wait")
  /\ requests[cur].age >= API_REQUEST_TIMEOUT
  /\ IF requests[cur].fd \in Range(sinkfds)
     THEN /\ apibus_send(requests[cur].fd, "timeout", requests[cur].pac)
          /\ api_request_delete(cur)
          /\ UNCHANGED cur
     ELSE cur' = cur + 1 /\ UNCHANGED <<sent, up, requests>>
  /\ UNCHANGED <<peers, inputs, responses, topic_msgs, pc, stations, topics>>

RequestTimeout ==
  /\ AtRequest("wait")
  /\ requests[cur].age >= API_REQUEST_TIMEOUT
  /\ apibus_send(requests[cur].fd, "timeout", requests[cur].pac)
  /\ api_request_delete(cur)
  /\ UNCHANGED <<peers, inputs, responses, topic_msgs, pc, cur, stations, topics>>

(* Fault: the position moves on although the list has closed the gap.      *)
NotFoundSkipsNext ==
  LET r == requests[cur]
  IN /\ AtRequest("none")
     /\ ~find_station(TouchStation(r), DstId[r.pac.header])
     /\ stations' = TouchStation(r)
     /\ apibus_send(r.fd, "notfound", r.pac)
     /\ api_request_delete(cur)
     /\ cur' = cur + 1
     /\ UNCHANGED <<peers, inputs, responses, topic_msgs, pc, topics>>

RequestNotFound ==
  LET r == requests[cur]
  IN /\ AtRequest("none")
     /\ ~find_station(TouchStation(r), DstId[r.pac.header])
     /\ stations' = TouchStation(r)
     /\ apibus_send(r.fd, "notfound", r.pac)
     /\ api_request_delete(cur)
     /\ UNCHANGED <<peers, inputs, responses, topic_msgs, pc, cur, topics>>

RequestForward ==
  LET r == requests[cur]
      dst == DstId[r.pac.header]
  IN /\ AtRequest("none")
     /\ find_station(TouchStation(r), dst)
     /\ stations' = TouchStation(r)
     /\ apibus_send(TouchStation(r)[dst].fd, "request", r.pac)
     /\ requests' = [requests EXCEPT ![cur] = [@ EXCEPT !.state = "wait", !.age = 0]]
     /\ cur' = cur + 1
     /\ UNCHANGED <<peers, inputs, responses, topic_msgs, pc, topics>>

RequestsDone ==
  /\ up
  /\ pc = "request"
  /\ cur > Len(requests)
  /\ pc' = "response"
  /\ cur' = 1
  /\ UNCHANGED <<peers, inputs, queues, sent, up, stations, topics>>

-----------------------------------------------------------------------------
(* apibus_poll(): handle_response().                                       *)

Answers(p, r) ==
  r.pac.crc = p.crc /\ r.pac.header = p.header /\ r.pac.srcid = p.srcid

(* What follows the search for the request: the answering station is alive *)
(* and the response is dropped.                                            *)
FinishResponse(p) ==
  LET dst == DstId[p.header]
  IN /\ stations' = IF find_station(stations, dst)
                    THEN [stations EXCEPT ![dst] = [@ EXCEPT !.age = 0]] ELSE stations
     /\ responses' = Tail(responses)
     /\ UNCHANGED <<peers, inputs, topic_msgs, pc, cur, topics>>

AtResponse == up /\ pc = "response" /\ responses # <<>>

ResponseRelay(i) ==
  LET p == Head(responses).pac
  IN /\ AtResponse
     /\ Answers(p, requests[i])
     /\ \A j \in 1..i-1 : ~Answers(p, requests[j])
     /\ apibus_send(requests[i].fd, "response", p)
     /\ api_request_delete(i)
     /\ FinishResponse(p)

ResponseUnmatched ==
  LET p == Head(responses).pac
  IN /\ AtResponse
     /\ \A i \in DOMAIN requests : ~Answers(p, requests[i])
     /\ UNCHANGED <<sent, up, requests>>
     /\ FinishResponse(p)

ResponsesDone ==
  /\ up
  /\ pc = "response"
  /\ responses = <<>>
  /\ pc' = "topic"
  /\ UNCHANGED <<peers, inputs, queues, sent, up, cur, stations, topics>>

-----------------------------------------------------------------------------
(* apibus_poll(): handle_topic_msg().                                      *)

AtTopicMsg(leader) ==
  /\ up
  /\ pc = "topic"
  /\ topic_msgs # <<>>
  /\ Head(topic_msgs).pac.leader = leader

(* What follows each of the handlers: the message is dropped.              *)
FinishTopicMsg ==
  /\ topic_msgs' = Tail(topic_msgs)
  /\ UNCHANGED <<peers, inputs, requests, responses, pc, cur, stations>>

Subscribe ==
  LET m == Head(topic_msgs)
  IN /\ AtTopicMsg("#")
     /\ topics = <<>>
     /\ topics' = <<[header |-> m.pac.header, fds |-> <<m.fd>>]>>
     /\ apibus_send(m.fd, "subok", m.pac)
     /\ FinishTopicMsg

(* The search for the topic dereferences the result it has not found yet:  *)
(* with a topic in the list, strlen(NULL) ends the process.                *)
SubscribeDies ==
  /\ AtTopicMsg("#")
  /\ topics # <<>>
  /\ up' = FALSE
  /\ UNCHANGED <<sent, topics>>
  /\ FinishTopicMsg

(* Fault: the slot is emptied instead of filled with the last entry.       *)
DropLeavesHole(fds, F) == [i \in DOMAIN fds |-> IF fds[i] = F THEN None ELSE fds[i]]

(* The subscriber's slot takes the last descriptor.  (The loop goes on and *)
(* would drop a second entry; a topic never has one, as the subscription   *)
(* that would add it ends the process.)                                    *)
DropSubscriber(fds, F) ==
  IF F \notin Range(fds) THEN fds
  ELSE LET i == CHOOSE k \in DOMAIN fds : fds[k] = F
       IN SubSeq([fds EXCEPT ![i] = fds[Len(fds)]], 1, Len(fds) - 1)

Unsubscribe(i) ==
  LET m == Head(topic_msgs)
  IN /\ AtTopicMsg("%")
     /\ topics[i].header = m.pac.header
     /\ \A j \in 1..i-1 : topics[j].header # m.pac.header
     /\ topics' = [topics EXCEPT ![i].fds = DropSubscriber(@, m.fd)]
     /\ apibus_send(m.fd, "unsubok", m.pac)
     /\ FinishTopicMsg

(* No such topic: the loop leaves its cursor on the list head, and a word  *)
(* of struct apibus is taken for nfds.  As an int the word is negative, so *)
(* that nothing is searched, or so large that the search runs off the heap.*)
UnsubscribeUnknown ==
  LET m == Head(topic_msgs)
  IN /\ AtTopicMsg("%")
     /\ \A i \in DOMAIN topics : topics[i].header # m.pac.header
     /\ \/ apibus_send(m.fd, "unsubok", m.pac)
        \/ up' = FALSE /\ UNCHANGED sent
     /\ UNCHANGED topics
     /\ FinishTopicMsg

(* find_topic() compares as many bytes as the published header has.        *)
TopicMatches(t, p) == <<t.header, p.header>> \in Extends

Publish(i) ==
  LET p == Head(topic_msgs).pac
  IN /\ AtTopicMsg("@")
     /\ TopicMatches(topics[i], p)
     /\ \A j \in 1..i-1 : ~TopicMatches(topics[j], p)
     /\ SendAll(Range(topics[i].fds), [kind |-> "publish", pac |-> p])
     /\ UNCHANGED topics
     /\ FinishTopicMsg

PublishDropped ==
  /\ AtTopicMsg("@")
  /\ \A i \in DOMAIN topics : ~TopicMatches(topics[i], Head(topic_msgs).pac)
  /\ UNCHANGED <<sent, up, topics>>
  /\ FinishTopicMsg

(* clear_unalive_station() ends the round.                                 *)
clear_unalive_station ==
  [id \in StationIds |-> IF stations[id].age > APIBUS_STATION_ALIVE_TIMEOUT
                         THEN NoStation ELSE stations[id]]

PollEnd ==
  /\ up
  /\ pc = "topic"
  /\ topic_msgs = <<>>
  /\ stations' = clear_unalive_station
  /\ pc' = "select"
  /\ UNCHANGED <<peers, inputs, queues, sent, up, cur, topics>>

-----------------------------------------------------------------------------

Peers ==
  \/ \E c \in Conns : PeerConnect(c) \/ \E p \in Script[c] : PeerSend(c, p)
  \/ \E c \in Quitters : PeerClose(c)

Sinks ==
  \/ Select \/ AcceptFails \/ SinksDone
  \/ \E F \in FDs : Accept(F) \/ Recv(F) \/ Hangup(F)

Handlers ==
  \/ ParseDone \/ \E F \in FDs : ParsePacket(F)
  \/ RequestWaits \/ RequestTimeout \/ RequestNotFound \/ RequestForward \/ RequestsDone
  \/ ResponseUnmatched \/ ResponsesDone \/ \E i \in DOMAIN requests : ResponseRelay(i)
  \/ Subscribe \/ SubscribeDies \/ UnsubscribeUnknown \/ PublishDropped \/ PollEnd
  \/ \E i \in DOMAIN topics : Unsubscribe(i) \/ Publish(i)

apibus_poll == Sinks \/ Handlers

Next == Peers \/ Tick \/ apibus_poll

Spec == Init /\ [][Next]_vars

(* The application calls apibus_poll() in a loop and the clock advances;   *)
(* nothing is assumed of the peers.                                        *)
FairSpec == Spec /\ WF_vars(apibus_poll) /\ WF_vars(Tick)

-----------------------------------------------------------------------------
(* What the bus guarantees.                                                *)

(* The type of the state.                                                  *)
QueuedRequest == [pac : Packet, fd : FDs, state : {"none", "wait"}, age : Nat]
QueuedMsg == [pac : Packet, fd : FDs]
Topic == [header : Headers, fds : Seq(FDs)]

TypeOK ==
  /\ peer \in [Conns -> {"new", "open", "closed"}]
  /\ backlog \in Seq(Conns)
  /\ chan \in [Conns -> Seq(Packet)]
  /\ fdtab \in [FDs -> Conns \cup {None}]
  /\ got \in [Conns -> SUBSET Message]
  /\ asked \in [Conns -> Seq(Packet)]
  /\ up \in BOOLEAN
  /\ pc \in Phase
  /\ ready \subseteq FDs \cup {Listener}
  /\ sinkfds \in Seq(FDs \cup {Listener})
  /\ rxbuf \in [FDs -> Seq(Packet)]
  /\ requests \in Seq(QueuedRequest)
  /\ cur \in Nat \ {0}
  /\ responses \in Seq(QueuedMsg)
  /\ topic_msgs \in Seq(QueuedMsg)
  /\ stations \in [StationIds -> [fd : FDs \cup {None}, age : Nat]]
  /\ topics \in Seq(Topic)
  /\ told \in [Conns -> Nat]

(* Nobody receives what is not theirs.  A response or a notice reaches the *)
(* connection that sent the request; a request is passed on only to a      *)
(* connection that introduced itself as the destination station; a         *)
(* publication only to a connection that subscribed to its topic.  The bus *)
(* keeps bare descriptor numbers in requests, stations and topics long     *)
(* after their connection is gone, so this depends on numbers never being  *)
(* given to another connection.                                            *)
Introduced(c, id) == \E p \in Range(asked[c]) : p.leader = ">" /\ p.srcid = id

IsEntitled(c, m) ==
  /\ m.kind = "request" => Introduced(c, DstId[m.pac.header])
  /\ m.kind = "response" => \E p \in Range(asked[c]) :
                              p.leader = ">" /\ Answers(m.pac, [pac |-> p])
  /\ m.kind = "publish" => \E p \in Range(asked[c]) :
                             p.leader = "#" /\ TopicMatches(p, m.pac)
  /\ m.kind \in {"timeout", "notfound", "subok", "unsubok"} => m.pac \in Range(asked[c])

Entitled == \A c \in Conns : \A m \in got[c] : IsEntitled(c, m)

(* Where a request sent on the connection of descriptor F is: not yet      *)
(* received, received, in bus->requests, or answered.                      *)
Requests(packets) == Cardinality({i \in DOMAIN packets : packets[i].leader = ">"})

Pending(F) == {i \in DOMAIN requests : requests[i].fd = F}

Accounted(F) ==
  Requests(chan[fdtab[F]]) + Requests(rxbuf[F]) + Cardinality(Pending(F)) + told[fdtab[F]]

(* No request is lost and none is answered twice: until its peer closes,   *)
(* every request sent on an accepted connection is in exactly one of these *)
(* places, and leaves the list with exactly one message to its sender, a   *)
(* response, "request timeout" or "STATION NOT FOUND".  The answers never  *)
(* outnumber the requests after it has closed either.                      *)
AnsweredOnce ==
  \A F \in FDs :
    fdtab[F] # None =>
      /\ Accounted(F) <= Requests(asked[fdtab[F]])
      /\ peer[fdtab[F]] # "closed" => Accounted(F) = Requests(asked[fdtab[F]])

(* handle_response() and the later phases only see requests that were      *)
(* passed on to a station: deleting while iterating skips none.            *)
AllForwarded ==
  \A i \in DOMAIN requests :
    pc \notin {"parse", "request"} \/ (pc = "request" /\ i < cur)
    => requests[i].state = "wait"

(* A station's registration is neither moved to another connection nor     *)
(* dropped while it is alive.                                              *)
StationHeld ==
  [][\A id \in StationIds :
       stations[id].fd # None /\ stations'[id].fd # stations[id].fd
       => /\ stations'[id] = NoStation
          /\ stations[id].age > APIBUS_STATION_ALIVE_TIMEOUT]_vars

(* Every queued request is settled in the end, whatever the peers do.      *)
RequestsSettled == \A F \in FDs : Pending(F) # {} ~> Pending(F) = {} \/ ~up

(* What a peer sends is taken in the end, also when it never closes and    *)
(* while others wait in vain: only a connection that is not accepted       *)
(* because all descriptors are in use is not served, and as they are never *)
(* closed, it never is.                                                    *)
ShutOut(c) == c \in Range(backlog) /\ \A F \in FDs : fdtab[F] # None

InputTaken == \A c \in Conns : chan[c] # <<>> ~> chan[c] = <<>> \/ ~up \/ ShutOut(c)

-----------------------------------------------------------------------------
(* Statements the code makes about itself and does not keep.               *)

(* API_TOPIC_SUBSCRIBE_MAX: more than one subscription can be held.        *)
StaysUp == up

(* A station is kept alive only while the connection it was registered     *)
(* from is still there.                                                    *)
AliveMeansConnected ==
  [][\A id \in StationIds :
       /\ stations[id].fd # None
       /\ stations'[id].fd = stations[id].fd
       /\ stations'[id].age < stations[id].age
       => stations[id].fd \in Range(sinkfds)]_vars

(* "Unsub OK", "Sub OK": a connection's last command decides whether it is *)
(* subscribed once everything it sent has been handled.                    *)
Handled(c) == up /\ pc = "select" /\ chan[c] = <<>>

Subscribed(c) ==
  \E i \in DOMAIN topics : \E F \in Range(topics[i].fds) : fdtab[F] = c

LastCommandWins ==
  \A c \in Conns :
    Handled(c) /\ asked[c] # <<>> /\ Last(asked[c]).leader = "%" => ~Subscribed(c)

=============================================================================
