--------------------------- MODULE ApibusProofs ---------------------------
(***************************************************************************)
(* The bus routes correctly for any number of connections, descriptors,    *)
(* stations and headers.  TInv types the state; PInv adds the provenance   *)
(* of every descriptor number the bus keeps, which Entitled alone does not *)
(* give: a request, a registration or a subscription is tied to a number,  *)
(* and the number to the connection that accept() returned it for.  For    *)
(* AnsweredOnce, WInv says who is accepted and listed, and AInv keeps the  *)
(* account of every request, also before its connection is accepted.       *)
(***************************************************************************)
EXTENDS Apibus, ListLemmas, FiniteSetTheorems, TLAPS

(* The descriptors of a topic are a list after an unsubscription too.      *)
LEMMA DropSubscriberSeq ==
  ASSUME NEW S, NEW s \in Seq(S), NEW x
  PROVE  DropSubscriber(s, x) \in Seq(S) /\ Len(DropSubscriber(s, x)) <= Len(s)
<1>1. CASE x \notin Range(s)
  BY <1>1 DEF DropSubscriber
<1>2. CASE x \in Range(s)
  <2> DEFINE i == CHOOSE k \in DOMAIN s : s[k] = x
             t == [s EXCEPT ![i] = s[Len(s)]]
  <2>1. i \in DOMAIN s
    BY <1>2 DEF Range
  <2> HIDE DEF i
  <2>2. Len(s) \in 1..Len(s) /\ Len(s) \in Nat
    BY <2>1
  <2>3. t \in Seq(S) /\ Len(t) = Len(s)
    BY <2>1, <2>2
  <2>4. SubSeq(t, 1, Len(s) - 1) \in Seq(S) /\ Len(SubSeq(t, 1, Len(s) - 1)) = Len(s) - 1
    BY <2>2, <2>3
  <2> QED BY <1>2, <2>2, <2>4 DEF DropSubscriber, i
<1> QED BY <1>1, <1>2

-----------------------------------------------------------------------------
(* Types.                                                                  *)

(* The descriptors accept() has returned.                                  *)
Live == {F \in FDs : fdtab[F] \in Conns}

TInv ==
  /\ TypeOK
  /\ Listener \in ready => backlog # <<>>
  /\ sinkfds \in Seq(Live \cup {Listener})

(* What sending may change stays well typed.                               *)
SentType == got' \in [Conns -> SUBSET Message] /\ told' \in [Conns -> Nat] /\ up' \in BOOLEAN

LEMMA SendAllType ==
  ASSUME TypeOK, NEW S, NEW m \in Message, SendAll(S, m)
  PROVE  SentType
<1>1. got' \in [Conns -> SUBSET Message]
  BY DEF SendAll, TypeOK
<1>2. up' \in BOOLEAN
  BY Zenon DEF SendAll
<1>3. told' \in [Conns -> Nat]
  BY DEF SendAll, TypeOK
<1> QED BY <1>1, <1>2, <1>3 DEF SentType

(* apibus_send() of a packet under any of the kinds.                       *)
LEMMA SendType ==
  ASSUME TypeOK, NEW F, NEW p \in Packet,
         NEW k \in {"request", "response", "publish", "timeout", "notfound", "subok", "unsubok"},
         apibus_send(F, k, p)
  PROVE  SentType
<1>1. [kind |-> k, pac |-> p] \in Message
  BY DEF Message
<1> QED BY <1>1, SendAllType DEF apibus_send

(* A step that leaves descriptors and receive side alone keeps TInv when   *)
(* the rest stays well typed.                                              *)
LEMMA HandlerTInv ==
  ASSUME TInv, UNCHANGED <<peers, inputs>>,
         SentType, pc' \in Phase, cur' \in Nat \ {0},
         requests' \in Seq(QueuedRequest), responses' \in Seq(QueuedMsg),
         topic_msgs' \in Seq(QueuedMsg),
         stations' \in [StationIds -> [fd : FDs \cup {None}, age : Nat]],
         topics' \in Seq(Topic)
  PROVE  TInv'
  BY DEF SentType, TInv, TypeOK, peers, inputs, Live

(* handle_request() at a request of the list: cur is one of its positions. *)
LEMMA AtCurrent ==
  ASSUME TypeOK, NEW state, AtRequest(state)
  PROVE  cur \in DOMAIN requests
<1>1. cur \in Nat \ {0} /\ requests \in Seq(QueuedRequest)
  BY DEF TypeOK
<1>2. cur <= Len(requests)
  BY DEF AtRequest
<1> QED BY <1>1, <1>2

(* The element types of the lists, as facts about the current state.       *)
LEMMA CurrentTypes ==
  ASSUME TypeOK
  PROVE  /\ \A i \in DOMAIN requests : /\ requests[i] \in QueuedRequest
                                       /\ requests[i].fd \in FDs /\ requests[i].pac \in Packet
         /\ responses # <<>> => /\ Head(responses) \in QueuedMsg /\ Tail(responses) \in Seq(QueuedMsg)
                                /\ Head(responses).pac \in Packet
         /\ topic_msgs # <<>> => /\ Head(topic_msgs) \in QueuedMsg
                                 /\ Tail(topic_msgs) \in Seq(QueuedMsg)
                                 /\ Head(topic_msgs).pac \in Packet /\ Head(topic_msgs).fd \in FDs
         /\ \A p \in Packet : p.srcid \in StationIds /\ p.header \in Headers
<1>1. requests \in Seq(QueuedRequest) /\ responses \in Seq(QueuedMsg) /\ topic_msgs \in Seq(QueuedMsg)
  BY DEF TypeOK
<1>2. \A r \in QueuedRequest : r.fd \in FDs /\ r.pac \in Packet
  BY DEF QueuedRequest
<1>3. \A m \in QueuedMsg : m.fd \in FDs /\ m.pac \in Packet
  BY DEF QueuedMsg
<1>4. \A p \in Packet : p.srcid \in StationIds /\ p.header \in Headers
  BY DEF Packet
<1> QED BY <1>1, <1>2, <1>3, <1>4, SeqParts

LEMMA StationTypes ==
  ASSUME TypeOK
  PROVE  /\ clear_unalive_station \in [StationIds -> [fd : FDs \cup {None}, age : Nat]]
         /\ \A r \in QueuedRequest : TouchStation(r) \in [StationIds -> [fd : FDs \cup {None}, age : Nat]]
         /\ \A id : [stations EXCEPT ![id] = [@ EXCEPT !.age = 0]]
                      \in [StationIds -> [fd : FDs \cup {None}, age : Nat]]
<1> DEFINE Stt == [fd : FDs \cup {None}, age : Nat]
<1>1. stations \in [StationIds -> Stt]
  BY DEF TypeOK
<1>2. \A x \in Stt : [x EXCEPT !.age = 0] \in Stt
  OBVIOUS
<1>3. NoStation \in Stt
  BY DEF NoStation
<1>4. \A F \in FDs : [fd |-> F, age |-> 0] \in Stt
  OBVIOUS
<1> HIDE DEF Stt
<1>5. clear_unalive_station \in [StationIds -> Stt]
  BY <1>1, <1>3 DEF clear_unalive_station
<1>6. ASSUME NEW r \in QueuedRequest PROVE TouchStation(r) \in [StationIds -> Stt]
  <2>1. r.fd \in FDs /\ r.pac.srcid \in StationIds
    BY DEF QueuedRequest, Packet
  <2> QED BY <1>1, <1>2, <1>4, <2>1 DEF TouchStation
<1>7. \A id : [stations EXCEPT ![id] = [@ EXCEPT !.age = 0]] \in [StationIds -> Stt]
  BY <1>1, <1>2
<1> QED BY <1>5, <1>6, <1>7 DEF Stt

LEMMA DeleteType ==
  ASSUME TypeOK, NEW i \in DOMAIN requests, api_request_delete(i)
  PROVE  requests' \in Seq(QueuedRequest)
  BY RemoveAtSeq DEF api_request_delete, TypeOK

LEMMA InitTInv == Init => TInv
<1> SUFFICES ASSUME Init PROVE TInv
  OBVIOUS
<1>1. TypeOK
  BY ApibusAssumption DEF Init, TypeOK, Phase, NoStation
<1>2. sinkfds \in Seq(Live \cup {Listener})
  BY DEF Init
<1> QED BY <1>1, <1>2 DEF Init, TInv

LEMMA NextTInv == TInv /\ [Next]_vars => TInv'
<1> SUFFICES ASSUME TInv, [Next]_vars PROVE TInv'
  OBVIOUS
<1>0. TypeOK /\ (Listener \in ready => backlog # <<>>) /\ sinkfds \in Seq(Live \cup {Listener})
  BY DEF TInv
<1> USE DEF peers, inputs, queues, sent
<1>1. ASSUME NEW c \in Conns, PeerConnect(c) PROVE TInv'
  <2>1. peer' \in [Conns -> {"new", "open", "closed"}]
    BY <1>0, <1>1 DEF PeerConnect, TypeOK
  <2>2. backlog \in Seq(Conns) /\ backlog' = Append(backlog, c)
    BY <1>0, <1>1 DEF PeerConnect, TypeOK
  <2>3. backlog' \in Seq(Conns) /\ backlog' # <<>>
    BY <2>2
  <2> QED BY <1>0, <1>1, <2>1, <2>3 DEF PeerConnect, TypeOK, TInv, Live
<1>2. ASSUME NEW c \in Conns, NEW p \in Script[c], PeerSend(c, p) PROVE TInv'
  <2>1. p \in Packet
    BY ApibusAssumption
  <2>2. chan' \in [Conns -> Seq(Packet)] /\ asked' \in [Conns -> Seq(Packet)]
    BY <1>0, <1>2, <2>1, SMTT(60) DEF PeerSend, TypeOK
  <2> QED BY <1>0, <1>2, <2>2 DEF PeerSend, TypeOK, TInv, Live
<1>3. ASSUME NEW c \in Quitters, PeerClose(c) PROVE TInv'
  <2>1. peer' \in [Conns -> {"new", "open", "closed"}]
    BY <1>0, <1>3 DEF PeerClose, TypeOK
  <2>2. [chan EXCEPT ![c] = <<>>] \in [Conns -> Seq(Packet)]
    <3>1. chan \in [Conns -> Seq(Packet)] /\ <<>> \in Seq(Packet)
      BY <1>0 DEF TypeOK
    <3> QED BY <3>1
  <2>3. chan' \in [Conns -> Seq(Packet)]
    BY <1>0, <1>3, <2>2 DEF PeerClose, TypeOK
  <2> QED BY <1>0, <1>3, <2>1, <2>3 DEF PeerClose, TypeOK, TInv, Live
<1>4. CASE Tick
  <2>1. \A r \in QueuedRequest : [r EXCEPT !.age = Older(@, API_REQUEST_TIMEOUT)] \in QueuedRequest
    BY ApibusAssumption DEF QueuedRequest, Older
  <2>2. requests' \in Seq(QueuedRequest)
    <3>1. requests \in [1..Len(requests) -> QueuedRequest] /\ Len(requests) \in Nat
      BY <1>0 DEF TypeOK
    <3>2. requests' \in [1..Len(requests) -> QueuedRequest]
      BY <1>4, <2>1, <3>1 DEF Tick
    <3> QED BY <3>1, <3>2
  <2>3. stations' \in [StationIds -> [fd : FDs \cup {None}, age : Nat]]
    <3> DEFINE Stt == [fd : FDs \cup {None}, age : Nat]
    <3>1. \A x \in Stt : [x EXCEPT !.age = Older(@, APIBUS_STATION_ALIVE_TIMEOUT + 1)] \in Stt
      BY ApibusAssumption DEF Older
    <3>2. NoStation \in Stt /\ stations \in [StationIds -> Stt]
      BY <1>0 DEF TypeOK, NoStation
    <3> HIDE DEF Stt
    <3>3. stations' \in [StationIds -> Stt]
      BY <1>4, <3>1, <3>2 DEF Tick
    <3> QED BY <3>3 DEF Stt
  <2> QED BY <1>0, <1>4, <2>2, <2>3 DEF Tick, TypeOK, TInv, Live
<1>5. CASE Select
  <2>1. ready' \subseteq FDs \cup {Listener}
    BY <1>0, <1>5, SeqParts DEF Select, TypeOK
  <2>2. Listener \in ready' => backlog # <<>>
    BY <1>5 DEF Select, Readable
  <2> QED BY <1>0, <1>5, <2>1, <2>2 DEF Select, TypeOK, TInv, Phase, Live
<1>6. ASSUME NEW F \in FDs, Accept(F) PROVE TInv'
  <2>1. Head(backlog) \in Conns /\ Tail(backlog) \in Seq(Conns)
    BY <1>0, <1>6, SeqParts DEF Accept, Turn, TypeOK
  <2>2. fdtab' \in [FDs -> Conns \cup {None}]
    BY <1>0, <1>6, <2>1 DEF Accept, TypeOK
  <2>3. sinkfds' \in Seq(FDs \cup {Listener})
    BY <1>0, <1>6, SeqParts DEF Accept, TypeOK
  <2>4. ready' \subseteq FDs \cup {Listener} /\ Listener \notin ready'
    BY <1>0, <1>6 DEF Accept, TypeOK
  <2>5. sinkfds' \in Seq(Live' \cup {Listener})
    <3>1. Live \subseteq Live' /\ F \in Live'
      BY <1>0, <1>6, <2>1, ApibusAssumption DEF Accept, TypeOK, Live
    <3>2. sinkfds \in Seq(Live' \cup {Listener})
      BY <1>0, <3>1, SeqMono
    <3> QED BY <1>6, <3>1, <3>2, SeqParts DEF Accept
  <2> QED BY <1>0, <1>6, <2>1, <2>2, <2>3, <2>4, <2>5 DEF Accept, TypeOK, TInv
<1>7. CASE AcceptFails
  BY <1>0, <1>7 DEF AcceptFails, TypeOK, TInv, Live
<1>8. ASSUME NEW F \in FDs, Recv(F) PROVE TInv'
  <2>1. fdtab[F] \in Conns
    BY <1>0, <1>8, ApibusAssumption, SeqParts DEF Recv, Turn, Live
  <2>2. rxbuf[F] \o chan[fdtab[F]] \in Seq(Packet)
    BY <1>0, <2>1, SeqParts DEF TypeOK
  <2>3. rxbuf' \in [FDs -> Seq(Packet)] /\ chan' \in [Conns -> Seq(Packet)]
    <3>1. rxbuf \in [FDs -> Seq(Packet)] /\ chan \in [Conns -> Seq(Packet)]
      BY <1>0 DEF TypeOK
    <3>2. /\ rxbuf' = [rxbuf EXCEPT ![F] = @ \o chan[fdtab[F]]]
          /\ chan' = [chan EXCEPT ![fdtab[F]] = <<>>]
      BY <1>8 DEF Recv
    <3>3. rxbuf' = [rxbuf EXCEPT ![F] = rxbuf[F] \o chan[fdtab[F]]]
      BY <3>2
    <3>4. rxbuf' \in [FDs -> Seq(Packet)]
      BY <2>2, <3>1, <3>3
    <3>5. <<>> \in Seq(Packet)
      OBVIOUS
    <3> QED BY <3>1, <3>2, <3>4, <3>5
  <2> QED BY <1>0, <1>8, <2>3 DEF Recv, TypeOK, TInv, Live
<1>9. ASSUME NEW F \in FDs, Hangup(F) PROVE TInv'
  <2>1. sinkfds' \in Seq(FDs \cup {Listener}) /\ sinkfds' \in Seq(Live \cup {Listener})
    BY <1>0, <1>9, RemoveAtSeq DEF Hangup, sinkfd_destroy, TypeOK
  <2>2. rxbuf' \in [FDs -> Seq(Packet)]
    BY <1>0, <1>9 DEF Hangup, sinkfd_destroy, TypeOK
  <2> QED BY <1>0, <1>9, <2>1, <2>2 DEF Hangup, sinkfd_destroy, TypeOK, TInv, Live
<1>10. CASE SinksDone
  BY <1>0, <1>10 DEF SinksDone, TypeOK, TInv, Phase, Live
<1>11. ASSUME NEW F \in FDs, ParsePacket(F) PROVE TInv'
  <2> DEFINE p == Head(rxbuf[F])
             r == [pac |-> p, fd |-> F, state |-> "none", age |-> 0]
             m == [pac |-> p, fd |-> F]
  <2>1. p \in Packet /\ Tail(rxbuf[F]) \in Seq(Packet)
    BY <1>0, <1>11, SeqParts DEF ParsePacket, Buffered, TypeOK
  <2>2. r \in QueuedRequest /\ m \in QueuedMsg
    BY <2>1 DEF QueuedRequest, QueuedMsg
  <2>3. rxbuf' \in [FDs -> Seq(Packet)]
    BY <1>0, <1>11, <2>1 DEF ParsePacket, TypeOK
  <2>4. requests' \in Seq(QueuedRequest)
    BY <1>0, <1>11, <2>2, SeqParts DEF ParsePacket, TypeOK
  <2>5. responses' \in Seq(QueuedMsg) /\ topic_msgs' \in Seq(QueuedMsg)
    BY <1>0, <1>11, <2>2, SeqParts DEF ParsePacket, TypeOK
  <2> QED BY <1>0, <1>11, <2>3, <2>4, <2>5 DEF ParsePacket, TypeOK, TInv, Live
<1>12. CASE ParseDone
  BY <1>0, <1>12 DEF ParseDone, TypeOK, TInv, Phase, Live
<1>13. CASE RequestWaits
  BY <1>0, <1>13, SMTT(30) DEF RequestWaits, TypeOK, TInv, Live
<1>14. CASE RequestTimeout
  <2>1. cur \in DOMAIN requests
    <3>1. TypeOK /\ AtRequest("wait")
      BY <1>0, <1>14 DEF RequestTimeout
    <3> QED BY <3>1, AtCurrent, Zenon
  <2>2. requests' \in Seq(QueuedRequest)
    BY <1>0, <1>14, <2>1, DeleteType DEF RequestTimeout
  <2>3. SentType
    BY <1>0, <1>14, <2>1, CurrentTypes, SendType DEF RequestTimeout
  <2> QED BY <1>0, <1>14, <2>2, <2>3, HandlerTInv DEF RequestTimeout, TypeOK
<1>15. CASE RequestNotFound
  <2>1. cur \in DOMAIN requests
    <3>1. TypeOK /\ AtRequest("none")
      BY <1>0, <1>15 DEF RequestNotFound
    <3> QED BY <3>1, AtCurrent, Zenon
  <2>2. requests' \in Seq(QueuedRequest)
    BY <1>0, <1>15, <2>1, DeleteType DEF RequestNotFound
  <2>3. SentType
    BY <1>0, <1>15, <2>1, CurrentTypes, SendType DEF RequestNotFound
  <2>4. stations' \in [StationIds -> [fd : FDs \cup {None}, age : Nat]]
    BY <1>0, <1>15, <2>1, CurrentTypes, StationTypes DEF RequestNotFound
  <2> QED BY <1>0, <1>15, <2>2, <2>3, <2>4, HandlerTInv DEF RequestNotFound, TypeOK
<1>16. CASE RequestForward
  <2>1. cur \in DOMAIN requests
    <3>1. TypeOK /\ AtRequest("none")
      BY <1>0, <1>16 DEF RequestForward
    <3> QED BY <3>1, AtCurrent, Zenon
  <2>2. requests' \in Seq(QueuedRequest)
    <3>1. \A r \in QueuedRequest : [r EXCEPT !.state = "wait", !.age = 0] \in QueuedRequest
      BY DEF QueuedRequest
    <3>2. [requests[cur] EXCEPT !.state = "wait", !.age = 0] \in QueuedRequest
      BY <1>0, <2>1, <3>1, CurrentTypes
    <3> QED BY <1>0, <1>16, <2>1, <3>2, SMTT(30) DEF RequestForward, TypeOK
  <2>3. SentType
    BY <1>0, <1>16, <2>1, CurrentTypes, SendType DEF RequestForward
  <2>4. stations' \in [StationIds -> [fd : FDs \cup {None}, age : Nat]]
    BY <1>0, <1>16, <2>1, CurrentTypes, StationTypes DEF RequestForward
  <2>5. cur' \in Nat \ {0}
    BY <1>0, <1>16, SMTT(60) DEF RequestForward, TypeOK
  <2> QED BY <1>0, <1>16, <2>2, <2>3, <2>4, <2>5, HandlerTInv DEF RequestForward, TypeOK
<1>17. CASE RequestsDone
  BY <1>0, <1>17, HandlerTInv DEF SentType, RequestsDone, TypeOK, Phase
<1>18. ASSUME AtResponse, FinishResponse(Head(responses).pac)
       PROVE  /\ stations' \in [StationIds -> [fd : FDs \cup {None}, age : Nat]]
              /\ responses' \in Seq(QueuedMsg)
  BY <1>0, <1>18, CurrentTypes, StationTypes DEF AtResponse, FinishResponse, TypeOK
<1>19. ASSUME NEW i \in DOMAIN requests, ResponseRelay(i) PROVE TInv'
  <2>1. requests' \in Seq(QueuedRequest)
    BY <1>0, <1>19, DeleteType DEF ResponseRelay
  <2>2. SentType
    BY <1>0, <1>19, CurrentTypes, SendType DEF ResponseRelay, AtResponse
  <2> QED BY <1>0, <1>18, <1>19, <2>1, <2>2, HandlerTInv DEF ResponseRelay, FinishResponse, TypeOK
<1>20. CASE ResponseUnmatched
  BY <1>0, <1>18, <1>20, HandlerTInv DEF SentType, ResponseUnmatched, FinishResponse, TypeOK
<1>21. CASE ResponsesDone
  BY <1>0, <1>21, HandlerTInv DEF SentType, ResponsesDone, TypeOK, Phase
<1>22. ASSUME NEW l, AtTopicMsg(l), FinishTopicMsg, SentType,
              topics' \in Seq(Topic)
       PROVE  TInv'
  <2>1. topic_msgs' \in Seq(QueuedMsg)
    BY <1>0, <1>22, CurrentTypes DEF AtTopicMsg, FinishTopicMsg
  <2> QED BY <1>0, <1>22, <2>1, HandlerTInv DEF FinishTopicMsg, TypeOK
<1>23. ASSUME NEW l, AtTopicMsg(l)
       PROVE  Head(topic_msgs).pac \in Packet /\ Head(topic_msgs).fd \in FDs
              /\ Head(topic_msgs).pac.header \in Headers
  BY <1>0, <1>23, CurrentTypes DEF AtTopicMsg
<1>24. CASE Subscribe
  <2>1. SentType
    BY <1>0, <1>23, <1>24, SendType DEF Subscribe
  <2>2. topics' \in Seq(Topic)
    <3>1. <<Head(topic_msgs).fd>> \in Seq(FDs)
      BY <1>23, <1>24 DEF Subscribe
    <3>2. [header |-> Head(topic_msgs).pac.header, fds |-> <<Head(topic_msgs).fd>>]
            \in Topic
      BY <1>23, <1>24, <3>1 DEF Subscribe, Topic
    <3> QED BY <1>24, <3>2 DEF Subscribe
  <2> QED BY <1>22, <1>24, <2>1, <2>2 DEF Subscribe
<1>25. CASE SubscribeDies
  BY <1>0, <1>22, <1>25 DEF SentType, SubscribeDies, TypeOK
<1>26. ASSUME NEW i \in DOMAIN topics, Unsubscribe(i) PROVE TInv'
  <2>1. SentType
    BY <1>0, <1>23, <1>26, SendType DEF Unsubscribe
  <2>2. topics' \in Seq(Topic)
    <3>1. topics \in Seq(Topic) /\ topics[i] \in Topic
      BY <1>0 DEF TypeOK
    <3>2. DropSubscriber(topics[i].fds, Head(topic_msgs).fd) \in Seq(FDs)
      BY <3>1, DropSubscriberSeq DEF Topic
    <3> DEFINE t == [topics[i] EXCEPT !.fds = DropSubscriber(topics[i].fds, Head(topic_msgs).fd)]
    <3>3. t \in Topic
      BY <3>1, <3>2 DEF Topic
    <3>4. topics' = [topics EXCEPT ![i] = t]
      BY <1>26 DEF Unsubscribe
    <3> HIDE DEF t
    <3> QED BY <3>1, <3>3, <3>4
  <2> QED BY <1>22, <1>26, <2>1, <2>2 DEF Unsubscribe
<1>27. CASE UnsubscribeUnknown
  <2>1. SentType
    <3>1. CASE apibus_send(Head(topic_msgs).fd, "unsubok", Head(topic_msgs).pac)
      BY <1>0, <1>23, <1>27, <3>1, SendType DEF UnsubscribeUnknown
    <3>2. CASE up' = FALSE /\ UNCHANGED sent
      BY <1>0, <3>2 DEF SentType, TypeOK
    <3> QED BY <1>27, <3>1, <3>2 DEF UnsubscribeUnknown
  <2> QED BY <1>0, <1>22, <1>27, <2>1 DEF UnsubscribeUnknown, TypeOK
<1>28. ASSUME NEW i \in DOMAIN topics, Publish(i) PROVE TInv'
  <2>1. [kind |-> "publish", pac |-> Head(topic_msgs).pac] \in Message
    BY <1>23, <1>28 DEF Publish, Message
  <2>2. SentType
    BY <1>0, <1>28, <2>1, SendAllType DEF Publish
  <2> QED BY <1>0, <1>22, <1>28, <2>2 DEF Publish, TypeOK
<1>29. CASE PublishDropped
  BY <1>0, <1>22, <1>29 DEF SentType, PublishDropped, TypeOK
<1>30. CASE PollEnd
  BY <1>0, <1>30, HandlerTInv, StationTypes DEF SentType, PollEnd, TypeOK, Phase
<1>31. CASE UNCHANGED vars
  BY <1>0, <1>31 DEF vars, TypeOK, TInv, Live
<1>32. CASE Peers
  BY <1>1, <1>2, <1>3, <1>32 DEF Peers
<1>33. CASE Sinks
  BY <1>5, <1>6, <1>7, <1>8, <1>9, <1>10, <1>33 DEF Sinks
<1>34. CASE Handlers
  BY <1>11, <1>12, <1>13, <1>14, <1>15, <1>16, <1>17, <1>19, <1>20, <1>21, <1>24, <1>25, <1>26,
     <1>27, <1>28, <1>29, <1>30, <1>34 DEF Handlers
<1> QED BY <1>4, <1>31, <1>32, <1>33, <1>34 DEF Next, apibus_poll

-----------------------------------------------------------------------------
(* Provenance.  Everything the bus keeps with a descriptor goes back to a  *)
(* packet that the connection behind this descriptor has sent.             *)

From(F) == Range(asked[fdtab[F]])

BackedRequest == {r \in QueuedRequest : r.fd \in Live /\ r.pac \in From(r.fd) /\ r.pac.leader = ">"}

BackedMsg == {m \in QueuedMsg : m.fd \in Live /\ m.pac \in From(m.fd)}

SubscriberOf(h) == {F \in Live : \E p \in From(F) : p.leader = "#" /\ p.header = h}

BackedTopic == {t \in Topic : t.fds \in Seq(SubscriberOf(t.header))}

BackedStation(id, x) == x.fd # None => x.fd \in Live /\ Introduced(fdtab[x.fd], id)

BackedBuffer(F) == rxbuf[F] = <<>> \/ (F \in Live /\ rxbuf[F] \in Seq(From(F)))

PInv ==
  /\ TInv
  /\ \A c \in Conns : chan[c] \in Seq(Range(asked[c]))
  /\ \A F \in FDs : BackedBuffer(F)
  /\ requests \in Seq(BackedRequest)
  /\ topic_msgs \in Seq(BackedMsg)
  /\ \A id \in StationIds : BackedStation(id, stations[id])
  /\ topics \in Seq(BackedTopic)
  /\ Entitled

(* asked and fdtab only grow, and provenance survives growth.              *)
Grows ==
  /\ \A F \in Live : fdtab'[F] = fdtab[F]
  /\ \A c \in Conns : Range(asked[c]) \subseteq Range(asked'[c])

LEMMA GrowthKeeps ==
  ASSUME Grows
  PROVE  /\ Live \subseteq Live'
         /\ \A F \in Live : From(F) \subseteq From(F)'
         /\ BackedRequest \subseteq BackedRequest'
         /\ BackedMsg \subseteq BackedMsg'
         /\ BackedTopic \subseteq BackedTopic'
         /\ \A id, x : BackedStation(id, x) => BackedStation(id, x)'
         /\ \A c \in Conns : \A m : IsEntitled(c, m) => IsEntitled(c, m)'
<1>1. Live \subseteq Live'
  BY DEF Grows, Live
<1>2. \A F \in Live : From(F) \subseteq From(F)'
  BY DEF Grows, Live, From
<1>3. BackedRequest \subseteq BackedRequest' /\ BackedMsg \subseteq BackedMsg'
  BY <1>1, <1>2 DEF BackedRequest, BackedMsg
<1>4. BackedTopic \subseteq BackedTopic'
  <2>1. \A h : SubscriberOf(h) \subseteq SubscriberOf(h)'
    BY <1>1, <1>2 DEF SubscriberOf
  <2> QED BY <2>1, SeqMono DEF BackedTopic
<1>5. \A c \in Conns : \A id : Introduced(c, id) => Introduced(c, id)'
  BY DEF Grows, Introduced
<1>6. \A id, x : BackedStation(id, x) => BackedStation(id, x)'
  BY <1>1, <1>5 DEF BackedStation, Grows, Live
<1>7. \A c \in Conns : \A m : IsEntitled(c, m) => IsEntitled(c, m)'
  BY <1>5, ZenonT(60) DEF Grows, IsEntitled, Answers, TopicMatches
<1> QED BY <1>1, <1>2, <1>3, <1>4, <1>6, <1>7

(* Sending to descriptors whose connections are entitled to the message    *)
(* keeps Entitled.                                                         *)
LEMMA SendEntitled ==
  ASSUME PInv, NEW S \in SUBSET FDs, NEW m, SendAll(S, m),
         \A F \in S \cap Live : IsEntitled(fdtab[F], m)
  PROVE  \A c \in Conns : \A x \in got'[c] : IsEntitled(c, x)
<1>1. \A c \in Reach(S) : IsEntitled(c, m)
  <2> SUFFICES ASSUME NEW F \in S \cap Range(sinkfds) PROVE IsEntitled(fdtab[F], m)
    BY DEF Reach
  <2>1. F \in Live
    BY ApibusAssumption, SeqParts DEF PInv, TInv
  <2> QED BY <2>1
<1>2. \A c \in Conns : got'[c] \subseteq got[c] \/ (c \in Reach(S) /\ got'[c] = got[c] \cup {m})
  BY DEF SendAll
<1> QED BY <1>1, <1>2 DEF PInv, Entitled

(* A step after which every list is backed in terms of the state before it *)
(* keeps the invariant.                                                    *)
LEMMA BackedStep ==
  ASSUME PInv, TInv', Grows,
         \A c \in Conns : chan'[c] \in Seq(Range(asked'[c])),
         \A F \in FDs : BackedBuffer(F)',
         requests' \in Seq(BackedRequest),
         topic_msgs' \in Seq(BackedMsg),
         \A id \in StationIds : BackedStation(id, stations'[id]),
         topics' \in Seq(BackedTopic),
         \A c \in Conns : \A m \in got'[c] : IsEntitled(c, m)
  PROVE  PInv'
<1>1. requests' \in Seq(BackedRequest') /\ topic_msgs' \in Seq(BackedMsg') /\ topics' \in Seq(BackedTopic')
  BY GrowthKeeps, SeqMono
<1>2. \A id \in StationIds : BackedStation(id, stations[id])'
  BY GrowthKeeps DEF BackedStation
<1>3. Entitled'
  BY GrowthKeeps DEF Entitled
<1> QED BY <1>1, <1>2, <1>3 DEF PInv

(* The same for a step of a handler, which leaves the inputs alone.        *)
LEMMA BackedHandler ==
  ASSUME PInv, TInv', UNCHANGED <<peers, inputs>>,
         requests' \in Seq(BackedRequest),
         topic_msgs' \in Seq(BackedMsg),
         \A id \in StationIds : BackedStation(id, stations'[id]),
         topics' \in Seq(BackedTopic),
         \A c \in Conns : \A m \in got'[c] : IsEntitled(c, m)
  PROVE  PInv'
<1>1. Grows
  BY DEF Grows, peers, inputs
<1>2. \A F \in FDs : BackedBuffer(F)'
  BY DEF PInv, BackedBuffer, From, Live, peers, inputs
<1>3. \A c \in Conns : chan'[c] \in Seq(Range(asked'[c]))
  BY DEF PInv, peers
<1> QED BY <1>1, <1>2, <1>3, BackedStep

LEMMA InitPInv == Init => PInv
<1> SUFFICES ASSUME Init PROVE PInv
  OBVIOUS
<1>1. TInv
  BY InitTInv
<1> QED BY <1>1 DEF Init, PInv, BackedBuffer, BackedStation, NoStation, Entitled

(* The facts about one list element the handler steps need.                *)
LEMMA BackedParts ==
  ASSUME PInv
  PROVE  /\ \A i \in DOMAIN requests :
              /\ requests[i] \in BackedRequest
              /\ requests[i].fd \in Live
              /\ requests[i].pac \in From(requests[i].fd)
              /\ requests[i].pac.leader = ">"
         /\ topic_msgs # <<>> => /\ Tail(topic_msgs) \in Seq(BackedMsg)
                                 /\ Head(topic_msgs).fd \in Live
                                 /\ Head(topic_msgs).pac \in From(Head(topic_msgs).fd)
         /\ \A i \in DOMAIN topics : topics[i] \in BackedTopic
         /\ Live \subseteq FDs
<1>1. requests \in Seq(BackedRequest) /\ topic_msgs \in Seq(BackedMsg) /\ topics \in Seq(BackedTopic)
  BY DEF PInv
<1>2. \A r \in BackedRequest : r.fd \in Live /\ r.pac \in From(r.fd) /\ r.pac.leader = ">"
  BY DEF BackedRequest
<1>3. \A m \in BackedMsg : m.fd \in Live /\ m.pac \in From(m.fd)
  BY DEF BackedMsg
<1>4. Live \subseteq FDs
  BY DEF Live
<1> QED BY <1>1, <1>2, <1>3, <1>4, SeqParts

(* A request registers its own connection under the id it carries.         *)
LEMMA TouchBacked ==
  ASSUME PInv, NEW i \in DOMAIN requests
  PROVE  \A id \in StationIds : BackedStation(id, TouchStation(requests[i])[id])
<1> DEFINE r == requests[i]
<1>1. r.fd \in Live /\ r.pac \in From(r.fd) /\ r.pac.leader = ">"
  BY BackedParts
<1>2. Introduced(fdtab[r.fd], r.pac.srcid)
  BY <1>1 DEF Introduced, From
<1>3. stations \in [StationIds -> [fd : FDs \cup {None}, age : Nat]]
  BY DEF PInv, TInv, TypeOK
<1> HIDE DEF r
<1> TAKE id \in StationIds
<1>4. CASE id # r.pac.srcid
  BY <1>3, <1>4 DEF TouchStation, PInv, r
<1>5. CASE id = r.pac.srcid /\ find_station(stations, id)
  <2>1. TouchStation(r)[id] = [stations[id] EXCEPT !.age = 0]
    BY <1>3, <1>5 DEF TouchStation
  <2>2. TouchStation(r)[id].fd = stations[id].fd
    BY <1>3, <2>1
  <2> QED BY <2>2 DEF PInv, BackedStation, r
<1>6. CASE id = r.pac.srcid /\ ~find_station(stations, id)
  <2>1. TouchStation(r)[id] = [fd |-> r.fd, age |-> 0]
    BY <1>3, <1>6 DEF TouchStation
  <2> QED BY <1>1, <1>2, <1>6, <2>1 DEF BackedStation, r
<1> QED BY <1>4, <1>5, <1>6

LEMMA NextPInv == PInv /\ [Next]_vars => PInv'
<1> SUFFICES ASSUME PInv, [Next]_vars PROVE PInv'
  OBVIOUS
<1>0. TInv /\ TInv' /\ TypeOK /\ TypeOK'
  BY NextTInv DEF PInv, TInv
<1> USE DEF peers, inputs, queues, sent
<1>1. Entitled /\ \A c \in Conns : \A m \in got[c] : IsEntitled(c, m)
  BY DEF PInv, Entitled
(* Steps of the peers and of the sinks leave the bus's lists alone.        *)
<1>2. ASSUME Grows, UNCHANGED <<queues, got, stations, topics>>,
             \A c \in Conns : chan'[c] \in Seq(Range(asked'[c])),
             \A F \in FDs : BackedBuffer(F)'
      PROVE  PInv'
  BY <1>0, <1>1, <1>2, BackedStep DEF PInv
<1>3. ASSUME NEW c \in Conns, PeerConnect(c) PROVE PInv'
  <2>1. Grows
    BY <1>3 DEF PeerConnect, Grows
  <2> QED BY <1>2, <1>3, <2>1 DEF PeerConnect, PInv, BackedBuffer, From, Live
<1>4. ASSUME NEW c \in Conns, NEW p \in Script[c], PeerSend(c, p) PROVE PInv'
  <2>1. p \in Packet
    BY ApibusAssumption
  <2>2. \A d \in Conns : Range(asked[d]) \subseteq Range(asked'[d])
    <3>1. \A s \in Seq(Packet) : Range(s) \subseteq Range(Append(s, p))
      BY <2>1 DEF Range
    <3> QED BY <1>0, <1>4, <3>1 DEF PeerSend, TypeOK
  <2>3. p \in Range(asked'[c])
    <3>1. \A s \in Seq(Packet) : p \in Range(Append(s, p))
      <4> TAKE s \in Seq(Packet)
      <4>1. Len(s) + 1 \in DOMAIN Append(s, p) /\ Append(s, p)[Len(s) + 1] = p
        BY <2>1
      <4> QED BY <4>1 DEF Range
    <3> QED BY <1>0, <1>4, <3>1 DEF PeerSend, TypeOK
  <2>4. Grows
    BY <1>4, <2>2 DEF PeerSend, Grows
  <2>5. \A d \in Conns : chan'[d] \in Seq(Range(asked'[d]))
    <3> TAKE d \in Conns
    <3>1. chan[d] \in Seq(Range(asked'[d]))
      BY <2>2, SeqMono DEF PInv
    <3>2. CASE d = c
      BY <1>0, <1>4, <2>3, <3>1, <3>2, SeqParts DEF PeerSend, TypeOK
    <3>3. CASE d # c
      BY <1>0, <1>4, <3>1, <3>3 DEF PeerSend, TypeOK
    <3> QED BY <3>2, <3>3
  <2>6. \A F \in FDs : BackedBuffer(F)'
    <3> TAKE F \in FDs
    <3>1. CASE rxbuf[F] = <<>>
      BY <1>4, <3>1 DEF PeerSend, BackedBuffer
    <3>2. CASE F \in Live /\ rxbuf[F] \in Seq(From(F))
      <4>1. F \in Live' /\ From(F) \subseteq From(F)'
        BY <2>4, <3>2, GrowthKeeps
      <4> QED BY <1>4, <3>2, <4>1, SeqMono DEF PeerSend, BackedBuffer
    <3> QED BY <3>1, <3>2 DEF PInv, BackedBuffer
  <2> QED BY <1>2, <1>4, <2>4, <2>5, <2>6 DEF PeerSend
<1>5. ASSUME NEW c \in Quitters, PeerClose(c) PROVE PInv'
  <2>1. Grows
    BY <1>5 DEF PeerClose, Grows
  <2>2. \A d \in Conns : chan'[d] \in Seq(Range(asked'[d]))
    <3>1. \A d \in Conns : chan'[d] \in {chan[d], <<>>}
      BY <1>0, <1>5 DEF PeerClose, TypeOK
    <3>2. \A d \in Conns : <<>> \in Seq(Range(asked[d])) /\ chan[d] \in Seq(Range(asked[d]))
      BY DEF PInv
    <3> QED BY <1>5, <3>1, <3>2 DEF PeerClose
  <2> QED BY <1>2, <1>5, <2>1, <2>2 DEF PeerClose, PInv, BackedBuffer, From, Live
<1>6. CASE Tick
  <2>1. \A i \in DOMAIN requests : requests'[i] \in BackedRequest
    <3> TAKE i \in DOMAIN requests
    <3>1. requests'[i] \in QueuedRequest
      <4>1. requests' \in Seq(QueuedRequest)
        BY <1>0 DEF TypeOK
      <4>2. i \in DOMAIN requests'
        BY <1>6 DEF Tick
      <4> QED BY <4>1, <4>2, SeqParts
    <3>2. requests'[i].fd = requests[i].fd /\ requests'[i].pac = requests[i].pac
      <4>1. requests[i] \in QueuedRequest
        BY <1>0 DEF TypeOK
      <4> QED BY <1>6, <4>1 DEF Tick, QueuedRequest
    <3> QED BY <3>1, <3>2, BackedParts DEF BackedRequest
  <2>2. requests' \in Seq(BackedRequest)
    <3>1. DOMAIN requests' = DOMAIN requests /\ requests' \in Seq(QueuedRequest)
      BY <1>0, <1>6 DEF Tick, TypeOK
    <3>2. requests' \in [1..Len(requests') -> BackedRequest] /\ Len(requests') \in Nat
      BY <2>1, <3>1
    <3> QED BY <3>2
  <2>3. \A id \in StationIds : BackedStation(id, stations'[id])
    <3>1. \A id \in StationIds : stations'[id].fd = stations[id].fd
      BY <1>0, <1>6 DEF Tick, TypeOK, NoStation
    <3> QED BY <3>1 DEF PInv, BackedStation
  <2> QED BY <1>0, <1>1, <1>6, <2>2, <2>3, BackedHandler DEF Tick, PInv
<1>7. CASE Select \/ AcceptFails \/ SinksDone \/ ParseDone \/ RequestWaits \/ RequestsDone
           \/ ResponsesDone
  <2>1. UNCHANGED <<peer, backlog, chan, asked, fdtab, rxbuf, queues, got, stations, topics>>
    BY <1>7 DEF Select, AcceptFails, SinksDone, ParseDone, RequestWaits, RequestsDone, ResponsesDone
  <2>2. Grows
    BY <2>1 DEF Grows
  <2> QED BY <1>2, <2>1, <2>2 DEF PInv, BackedBuffer, From, Live
<1>8. ASSUME NEW F \in FDs, Accept(F) PROVE PInv'
  <2>1. F \notin Live
    BY <1>8, ApibusAssumption DEF Accept, Live
  <2>2. Grows
    BY <1>0, <1>8, <2>1 DEF Accept, Grows, Live, TypeOK
  <2>3. \A G \in FDs : BackedBuffer(G)'
    <3> TAKE G \in FDs
    <3>1. CASE rxbuf[G] = <<>>
      BY <1>8, <3>1 DEF Accept, BackedBuffer
    <3>2. CASE G \in Live /\ rxbuf[G] \in Seq(From(G))
      <4>1. G \in Live' /\ From(G) \subseteq From(G)'
        BY <2>2, <3>2, GrowthKeeps
      <4> QED BY <1>8, <3>2, <4>1, SeqMono DEF Accept, BackedBuffer
    <3> QED BY <3>1, <3>2 DEF PInv, BackedBuffer
  <2> QED BY <1>2, <1>8, <2>2, <2>3 DEF Accept, PInv
<1>9. ASSUME NEW F \in FDs, Recv(F) PROVE PInv'
  <2>1. F \in Live
    BY <1>0, <1>9, ApibusAssumption, SeqParts DEF Recv, Turn, TInv
  <2>2. Grows
    BY <1>9 DEF Recv, Grows
  <2>3. rxbuf[F] \o chan[fdtab[F]] \in Seq(From(F))
    <3>1. rxbuf[F] \in Seq(From(F))
      <4>1. <<>> \in Seq(From(F))
        OBVIOUS
      <4> QED BY <4>1 DEF PInv, BackedBuffer
    <3>2. chan[fdtab[F]] \in Seq(From(F))
      BY <2>1 DEF PInv, From, Live
    <3> QED BY <3>1, <3>2
  <2>4. \A G \in FDs : BackedBuffer(G)'
    BY <1>0, <1>9, <2>1, <2>3 DEF Recv, PInv, BackedBuffer, From, Live, TypeOK
  <2>5. \A c \in Conns : chan'[c] \in Seq(Range(asked'[c]))
    <3>1. \A c \in Conns : chan'[c] \in {chan[c], <<>>}
      BY <1>0, <1>9 DEF Recv, TypeOK
    <3>2. \A c \in Conns : <<>> \in Seq(Range(asked[c])) /\ chan[c] \in Seq(Range(asked[c]))
      BY DEF PInv
    <3> QED BY <1>9, <3>1, <3>2 DEF Recv
  <2> QED BY <1>2, <1>9, <2>2, <2>4, <2>5 DEF Recv
<1>10. ASSUME NEW F \in FDs, Hangup(F) PROVE PInv'
  <2>1. Grows
    BY <1>10 DEF Hangup, sinkfd_destroy, Grows
  <2>2. \A G \in FDs : BackedBuffer(G)'
    BY <1>0, <1>10 DEF Hangup, sinkfd_destroy, PInv, BackedBuffer, From, Live, TypeOK
  <2> QED BY <1>2, <1>10, <2>1, <2>2 DEF Hangup, sinkfd_destroy, PInv
<1>11. ASSUME NEW F \in FDs, ParsePacket(F) PROVE PInv'
  <2> DEFINE p == Head(rxbuf[F])
             r == [pac |-> p, fd |-> F, state |-> "none", age |-> 0]
             m == [pac |-> p, fd |-> F]
  <2>1. F \in Live /\ rxbuf[F] \in Seq(From(F)) /\ rxbuf[F] # <<>>
    BY <1>11 DEF ParsePacket, Buffered, PInv, BackedBuffer
  <2>2. p \in From(F) /\ Tail(rxbuf[F]) \in Seq(From(F))
    BY <2>1, SeqParts
  <2>3. p \in Packet
    BY <1>0, <2>1, SeqParts DEF TypeOK
  <2>4. m \in BackedMsg /\ (p.leader = ">" => r \in BackedRequest)
    BY <2>1, <2>2, <2>3 DEF BackedMsg, BackedRequest, QueuedMsg, QueuedRequest
  <2>5. requests' \in Seq(BackedRequest) /\ topic_msgs' \in Seq(BackedMsg)
    BY <1>11, <2>4, SeqParts DEF ParsePacket, PInv
  <2>6. Grows
    BY <1>11 DEF ParsePacket, Grows
  <2>7. \A G \in FDs : BackedBuffer(G)'
    BY <1>0, <1>11, <2>1, <2>2 DEF ParsePacket, PInv, BackedBuffer, From, Live, TypeOK
  <2> QED BY <1>0, <1>1, <1>11, <2>5, <2>6, <2>7, BackedStep DEF ParsePacket, PInv
(* A bus text about a queued packet goes to the connection it came from.   *)
<1>12. ASSUME NEW F \in Live, NEW p \in From(F), NEW k \in {"timeout", "notfound", "subok", "unsubok"},
              apibus_send(F, k, p)
       PROVE  \A c \in Conns : \A m \in got'[c] : IsEntitled(c, m)
  <2> DEFINE m == [kind |-> k, pac |-> p]
  <2>1. IsEntitled(fdtab[F], m)
    BY <1>12 DEF IsEntitled, From
  <2>2. SendAll({F}, m) /\ {F} \in SUBSET FDs
    BY <1>12, BackedParts DEF apibus_send
  <2> HIDE DEF m
  <2> QED BY <2>1, <2>2, SendEntitled
<1>13. CASE RequestTimeout
  <2>1. cur \in DOMAIN requests
    <3>1. TypeOK /\ AtRequest("wait")
      BY <1>0, <1>13 DEF RequestTimeout
    <3> QED BY <3>1, AtCurrent, Zenon
  <2>2. requests' \in Seq(BackedRequest)
    BY <1>13, <2>1, RemoveAtSeq DEF RequestTimeout, api_request_delete, PInv
  <2>3. \A c \in Conns : \A m \in got'[c] : IsEntitled(c, m)
    BY <1>12, <1>13, <2>1, BackedParts DEF RequestTimeout
  <2> QED BY <1>0, <1>13, <2>2, <2>3, BackedHandler DEF RequestTimeout, PInv
<1>14. CASE RequestNotFound
  <2>1. cur \in DOMAIN requests
    <3>1. TypeOK /\ AtRequest("none")
      BY <1>0, <1>14 DEF RequestNotFound
    <3> QED BY <3>1, AtCurrent, Zenon
  <2>2. requests' \in Seq(BackedRequest)
    BY <1>14, <2>1, RemoveAtSeq DEF RequestNotFound, api_request_delete, PInv
  <2>3. \A c \in Conns : \A m \in got'[c] : IsEntitled(c, m)
    BY <1>12, <1>14, <2>1, BackedParts DEF RequestNotFound
  <2>4. \A id \in StationIds : BackedStation(id, stations'[id])
    BY <1>14, <2>1, TouchBacked DEF RequestNotFound
  <2> QED BY <1>0, <1>14, <2>2, <2>3, <2>4, BackedHandler DEF RequestNotFound, PInv
<1>15. CASE RequestForward
  <2> DEFINE r == requests[cur]
             dst == DstId[r.pac.header]
             F == TouchStation(r)[dst].fd
             m == [kind |-> "request", pac |-> r.pac]
  <2>1. cur \in DOMAIN requests
    <3>1. TypeOK /\ AtRequest("none")
      BY <1>0, <1>15 DEF RequestForward
    <3> QED BY <3>1, AtCurrent, Zenon
  <2>2. requests' \in Seq(BackedRequest)
    <3> DEFINE w == [r EXCEPT !.state = "wait", !.age = 0]
    <3>1. r \in BackedRequest /\ r \in QueuedRequest
      BY <1>0, <2>1, BackedParts, CurrentTypes
    <3>2. w \in QueuedRequest /\ w.fd = r.fd /\ w.pac = r.pac
      BY <3>1 DEF QueuedRequest
    <3>3. requests' = [requests EXCEPT ![cur] = w]
      BY <1>15 DEF RequestForward
    <3> HIDE DEF w
    <3>4. w \in BackedRequest
      BY <3>1, <3>2 DEF BackedRequest
    <3> QED BY <2>1, <3>3, <3>4 DEF PInv
  <2>3. \A id \in StationIds : BackedStation(id, stations'[id])
    BY <1>15, <2>1, TouchBacked DEF RequestForward
  <2>4. dst \in StationIds /\ F \in Live /\ Introduced(fdtab[F], dst)
    <3>1. dst \in StationIds /\ F # None
      BY <1>15 DEF RequestForward, find_station
    <3> QED BY <3>1, <2>1, TouchBacked DEF BackedStation
  <2>5. SendAll({F}, m) /\ {F} \in SUBSET FDs
    BY <1>15, <2>4, BackedParts DEF RequestForward, apibus_send
  <2>6. IsEntitled(fdtab[F], m)
    BY <2>4 DEF IsEntitled
  <2>7. \A c \in Conns : \A x \in got'[c] : IsEntitled(c, x)
    <3> HIDE DEF F, m
    <3> QED BY <2>5, <2>6, SendEntitled
  <2> QED BY <1>0, <1>15, <2>2, <2>3, <2>7, BackedHandler DEF RequestForward, PInv
<1>16. ASSUME NEW p, FinishResponse(p) PROVE \A id \in StationIds : BackedStation(id, stations'[id])
  <2>1. \A id \in StationIds : stations'[id].fd = stations[id].fd
    BY <1>0, <1>16 DEF FinishResponse, find_station, TypeOK
  <2> QED BY <2>1 DEF PInv, BackedStation
<1>17. ASSUME NEW i \in DOMAIN requests, ResponseRelay(i) PROVE PInv'
  <2> DEFINE p == Head(responses).pac
             F == requests[i].fd
             m == [kind |-> "response", pac |-> p]
  <2>1. requests' \in Seq(BackedRequest)
    BY <1>17, RemoveAtSeq DEF ResponseRelay, api_request_delete, PInv
  <2>2. IsEntitled(fdtab[F], m)
    <3>1. requests[i].pac \in From(F) /\ requests[i].pac.leader = ">"
      BY BackedParts
    <3>2. Answers(p, [pac |-> requests[i].pac])
      BY <1>17 DEF ResponseRelay, Answers
    <3> QED BY <3>1, <3>2 DEF IsEntitled, From
  <2>3. SendAll({F}, m) /\ {F} \in SUBSET FDs
    BY <1>17, BackedParts DEF ResponseRelay, apibus_send
  <2>4. \A c \in Conns : \A x \in got'[c] : IsEntitled(c, x)
    <3> HIDE DEF F, m
    <3> QED BY <2>2, <2>3, SendEntitled
  <2> QED BY <1>0, <1>16, <1>17, <2>1, <2>4, BackedHandler DEF ResponseRelay, FinishResponse, PInv
<1>18. CASE ResponseUnmatched
  BY <1>0, <1>1, <1>16, <1>18, BackedHandler DEF ResponseUnmatched, FinishResponse, PInv
<1>19. ASSUME NEW l, AtTopicMsg(l), FinishTopicMsg, topics' \in Seq(BackedTopic),
              \A c \in Conns : \A x \in got'[c] : IsEntitled(c, x)
       PROVE  PInv'
  <2>1. topic_msgs' \in Seq(BackedMsg)
    BY <1>19, BackedParts DEF AtTopicMsg, FinishTopicMsg
  <2> QED BY <1>0, <1>19, <2>1, BackedHandler DEF FinishTopicMsg, PInv
<1>20. CASE Subscribe
  <2> DEFINE m == Head(topic_msgs)
             t == [header |-> m.pac.header, fds |-> <<m.fd>>]
  <2>1. m.fd \in Live /\ m.pac \in From(m.fd) /\ m.pac.leader = "#" /\ m.pac \in Packet
    BY <1>0, <1>20, BackedParts, CurrentTypes DEF Subscribe, AtTopicMsg
  <2>2. m.fd \in SubscriberOf(m.pac.header)
    BY <2>1 DEF SubscriberOf
  <2>3. t \in BackedTopic
    <3>1. m.pac.header \in Headers /\ m.fd \in FDs
      BY <2>1, BackedParts DEF Packet
    <3>2. <<m.fd>> \in Seq(SubscriberOf(m.pac.header)) /\ <<m.fd>> \in Seq(FDs)
      BY <2>2, <3>1
    <3> QED BY <3>1, <3>2 DEF BackedTopic, Topic
  <2>4. topics' \in Seq(BackedTopic)
    BY <1>20, <2>3 DEF Subscribe
  <2>5. \A c \in Conns : \A x \in got'[c] : IsEntitled(c, x)
    BY <1>12, <1>20, <2>1 DEF Subscribe
  <2> QED BY <1>19, <1>20, <2>4, <2>5 DEF Subscribe
<1>21. CASE SubscribeDies
  BY <1>1, <1>19, <1>21 DEF SubscribeDies, PInv
<1>22. ASSUME NEW i \in DOMAIN topics, Unsubscribe(i) PROVE PInv'
  <2> DEFINE m == Head(topic_msgs)
             t == [topics[i] EXCEPT !.fds = DropSubscriber(topics[i].fds, m.fd)]
  <2>1. topics[i] \in BackedTopic /\ topics[i] \in Topic
    BY BackedParts DEF BackedTopic
  <2>2. t \in Topic /\ t.header = topics[i].header /\ t.fds = DropSubscriber(topics[i].fds, m.fd)
    BY <2>1, DropSubscriberSeq DEF Topic
  <2>3. t.fds \in Seq(SubscriberOf(t.header))
    BY <2>1, <2>2, DropSubscriberSeq DEF BackedTopic
  <2>4. topics' = [topics EXCEPT ![i] = t]
    BY <1>22 DEF Unsubscribe
  <2> HIDE DEF t
  <2>5. t \in BackedTopic
    BY <2>2, <2>3 DEF BackedTopic
  <2>6. topics' \in Seq(BackedTopic)
    BY <2>4, <2>5 DEF PInv
  <2>7. \A c \in Conns : \A x \in got'[c] : IsEntitled(c, x)
    BY <1>12, <1>22, BackedParts DEF Unsubscribe, AtTopicMsg
  <2> QED BY <1>19, <1>22, <2>6, <2>7 DEF Unsubscribe
<1>23. CASE UnsubscribeUnknown
  <2>1. \A c \in Conns : \A x \in got'[c] : IsEntitled(c, x)
    <3>1. CASE apibus_send(Head(topic_msgs).fd, "unsubok", Head(topic_msgs).pac)
      BY <1>12, <1>23, <3>1, BackedParts DEF UnsubscribeUnknown, AtTopicMsg
    <3>2. CASE UNCHANGED got
      BY <1>1, <3>2
    <3> QED BY <1>23, <3>1, <3>2 DEF UnsubscribeUnknown
  <2> QED BY <1>19, <1>23, <2>1 DEF UnsubscribeUnknown, PInv
<1>24. ASSUME NEW i \in DOMAIN topics, Publish(i) PROVE PInv'
  <2> DEFINE p == Head(topic_msgs).pac
             m == [kind |-> "publish", pac |-> p]
             S == Range(topics[i].fds)
  <2>1. S \subseteq SubscriberOf(topics[i].header)
    BY BackedParts, SeqParts DEF BackedTopic
  <2>2. S \in SUBSET FDs
    BY <2>1, BackedParts DEF SubscriberOf
  <2>3. \A F \in S \cap Live : IsEntitled(fdtab[F], m)
    <3>1. TopicMatches(topics[i], p)
      BY <1>24 DEF Publish
    <3> QED BY <2>1, <3>1 DEF SubscriberOf, From, IsEntitled, TopicMatches
  <2>4. SendAll(S, m)
    BY <1>24 DEF Publish
  <2>5. \A c \in Conns : \A x \in got'[c] : IsEntitled(c, x)
    <3> HIDE DEF S, m
    <3> QED BY <2>2, <2>3, <2>4, SendEntitled
  <2> QED BY <1>19, <1>24, <2>5 DEF Publish, PInv
<1>25. CASE PublishDropped
  BY <1>1, <1>19, <1>25 DEF PublishDropped, PInv
<1>26. CASE PollEnd
  <2>1. \A id \in StationIds : BackedStation(id, stations'[id])
    BY <1>26 DEF PollEnd, clear_unalive_station, PInv, BackedStation, NoStation
  <2> QED BY <1>0, <1>1, <1>26, <2>1, BackedHandler DEF PollEnd, PInv
<1>27. CASE UNCHANGED vars
  BY <1>0, <1>1, <1>27, BackedHandler DEF vars, PInv
<1>28. CASE Peers
  BY <1>3, <1>4, <1>5, <1>28 DEF Peers
<1>29. CASE Sinks
  BY <1>7, <1>8, <1>9, <1>10, <1>29 DEF Sinks
<1>30. CASE Handlers
  BY <1>7, <1>11, <1>13, <1>14, <1>15, <1>17, <1>18, <1>20, <1>21, <1>22, <1>23, <1>24, <1>25,
     <1>26, <1>30 DEF Handlers
<1> QED BY <1>6, <1>27, <1>28, <1>29, <1>30 DEF Next, apibus_poll

-----------------------------------------------------------------------------

(* The bus's state is well typed whatever the peers do and however many    *)
(* connections, descriptors, stations and headers there are.               *)
THEOREM TypeCorrect == Spec => []TypeOK
<1>1. Init => TInv
  BY InitTInv
<1>2. TInv /\ [Next]_vars => TInv'
  BY NextTInv
<1>3. TInv => TypeOK
  BY DEF TInv
<1> QED BY <1>1, <1>2, <1>3, PTL DEF Spec

(* Nobody receives what is not theirs: the routing of responses, notices,  *)
(* forwarded requests and publications by bare descriptor numbers is right *)
(* because sinkfd_destroy() never gives a number back.                     *)
THEOREM RoutingCorrect == Spec => []Entitled
<1>1. Init => PInv
  BY InitPInv
<1>2. PInv /\ [Next]_vars => PInv'
  BY NextPInv
<1>3. PInv => Entitled
  BY DEF PInv
<1> QED BY <1>1, <1>2, <1>3, PTL DEF Spec

-----------------------------------------------------------------------------
(* Stations.                                                               *)

Held ==
  \A id \in StationIds :
    stations[id].fd # None /\ stations'[id].fd # stations[id].fd
    => /\ stations'[id] = NoStation
       /\ stations[id].age > APIBUS_STATION_ALIVE_TIMEOUT

LEMMA NextHeld == TInv /\ [Next]_vars => Held
<1> SUFFICES ASSUME TInv, [Next]_vars PROVE Held
  OBVIOUS
<1>0. stations \in [StationIds -> [fd : FDs \cup {None}, age : Nat]]
  BY DEF TInv, TypeOK
<1> USE DEF peers, inputs, queues, sent
(* A step that keeps every registered descriptor is none to worry about.   *)
<1>1. ASSUME \A id \in StationIds : stations[id].fd # None => stations'[id].fd = stations[id].fd
      PROVE  Held
  BY <1>1 DEF Held
<1>2. CASE UNCHANGED stations
  BY <1>1, <1>2
<1>3. CASE Tick
  <2>1. \A id \in StationIds : stations[id].fd # None => stations'[id].fd = stations[id].fd
    BY <1>0, <1>3 DEF Tick
  <2> QED BY <1>1, <2>1
<1>4. ASSUME NEW r, stations' = TouchStation(r) PROVE Held
  <2>1. \A id \in StationIds : stations[id].fd # None => stations'[id].fd = stations[id].fd
    BY <1>0, <1>4 DEF TouchStation, find_station
  <2> QED BY <1>1, <2>1
<1>5. ASSUME NEW p, FinishResponse(p) PROVE Held
  <2>1. \A id \in StationIds : stations[id].fd # None => stations'[id].fd = stations[id].fd
    BY <1>0, <1>5 DEF FinishResponse
  <2> QED BY <1>1, <2>1
<1>6. CASE PollEnd
  BY <1>0, <1>6 DEF PollEnd, clear_unalive_station, Held
<1>7. CASE Peers
  BY <1>2, <1>7 DEF Peers, PeerConnect, PeerSend, PeerClose
<1>8. CASE Sinks
  BY <1>2, <1>8 DEF Sinks, Select, AcceptFails, SinksDone, Accept, Recv, Hangup
<1>9. CASE Handlers
  <2>1. CASE RequestNotFound \/ RequestForward
    BY <1>4, <2>1 DEF RequestNotFound, RequestForward
  <2>2. CASE ResponseUnmatched \/ \E i \in DOMAIN requests : ResponseRelay(i)
    BY <1>5, <2>2 DEF ResponseUnmatched, ResponseRelay
  <2>3. CASE \/ ParseDone \/ \E F \in FDs : ParsePacket(F)
             \/ RequestWaits \/ RequestTimeout \/ RequestsDone \/ ResponsesDone
    BY <1>2, <2>3 DEF ParseDone, ParsePacket, RequestWaits, RequestTimeout, RequestsDone, ResponsesDone
  <2>4. CASE \/ Subscribe \/ SubscribeDies \/ UnsubscribeUnknown \/ PublishDropped
             \/ \E i \in DOMAIN topics : Unsubscribe(i) \/ Publish(i)
    BY <1>2, <2>4 DEF Subscribe, SubscribeDies, UnsubscribeUnknown, PublishDropped, Unsubscribe,
                      Publish, FinishTopicMsg
  <2> QED BY <1>6, <1>9, <2>1, <2>2, <2>3, <2>4 DEF Handlers
<1>10. CASE UNCHANGED vars
  BY <1>2, <1>10 DEF vars
<1> QED BY <1>3, <1>7, <1>8, <1>9, <1>10 DEF Next, apibus_poll

-----------------------------------------------------------------------------
(* Requests.                                                               *)

LEMMA NextAllForwarded == TInv /\ AllForwarded /\ [Next]_vars => AllForwarded'
<1> SUFFICES ASSUME TInv, AllForwarded, [Next]_vars PROVE AllForwarded'
  OBVIOUS
<1>0. /\ requests \in Seq(QueuedRequest) /\ cur \in Nat \ {0}
      /\ DOMAIN requests = 1..Len(requests) /\ Len(requests) \in Nat
  BY DEF TInv, TypeOK
<1> USE DEF peers, inputs, queues, sent
<1>1. CASE UNCHANGED <<requests, pc, cur>>
  BY <1>1 DEF AllForwarded
<1>2. CASE Tick
  <2>1. \A i \in DOMAIN requests : requests'[i].state = requests[i].state
    <3> TAKE i \in DOMAIN requests
    <3>1. requests[i] \in QueuedRequest
      BY <1>0
    <3> QED BY <1>2, <3>1 DEF Tick, QueuedRequest
  <2>2. DOMAIN requests' = DOMAIN requests /\ UNCHANGED <<pc, cur>>
    BY <1>2 DEF Tick
  <2> QED BY <2>1, <2>2 DEF AllForwarded
<1>3. CASE Select \/ SinksDone \/ ResponsesDone \/ PollEnd
  BY <1>3 DEF Select, SinksDone, ResponsesDone, PollEnd, AllForwarded
<1>4. ASSUME NEW F \in FDs, ParsePacket(F) PROVE AllForwarded'
  BY <1>4 DEF ParsePacket, AllForwarded
<1>5. CASE ParseDone
  BY <1>0, <1>5 DEF ParseDone, AllForwarded
<1>6. CASE RequestWaits
  BY <1>0, <1>6 DEF RequestWaits, AtRequest, AllForwarded
(* The request at cur goes; the ones before it stay where they are.        *)
<1>7. CASE RequestTimeout \/ RequestNotFound
  <2>1. cur \in DOMAIN requests /\ requests' = RemoveAt(requests, cur) /\ UNCHANGED <<pc, cur>>
        /\ pc = "request"
    BY <1>0, <1>7 DEF RequestTimeout, RequestNotFound, AtRequest, api_request_delete
  <2>2. \A i \in DOMAIN requests' : i < cur => i \in DOMAIN requests /\ requests'[i] = requests[i]
    BY <1>0, <2>1, RemoveAtParts
  <2> QED BY <2>1, <2>2 DEF AllForwarded
<1>8. CASE RequestForward
  <2> DEFINE w == [requests[cur] EXCEPT !.state = "wait", !.age = 0]
  <2>1. /\ cur \in DOMAIN requests /\ requests' = [requests EXCEPT ![cur] = w]
        /\ pc = "request" /\ pc' = pc /\ cur' = cur + 1
    BY <1>0, <1>8 DEF RequestForward, AtRequest
  <2>2. w.state = "wait"
    <3>1. requests[cur] \in QueuedRequest
      BY <1>0, <2>1
    <3> QED BY <3>1 DEF QueuedRequest
  <2> HIDE DEF w
  <2> QED BY <1>0, <2>1, <2>2 DEF AllForwarded
<1>9. CASE RequestsDone
  BY <1>0, <1>9 DEF RequestsDone, AllForwarded
<1>10. ASSUME NEW i \in DOMAIN requests, ResponseRelay(i) PROVE AllForwarded'
  <2>1. requests' = RemoveAt(requests, i) /\ pc = "response" /\ pc' = pc
    BY <1>10 DEF ResponseRelay, AtResponse, api_request_delete, FinishResponse
  <2>2. \A k \in DOMAIN requests' : \E j \in DOMAIN requests : requests'[k] = requests[j]
    <3>1. /\ i \in 1..Len(requests) /\ DOMAIN requests' = 1..(Len(requests) - 1)
          /\ \A k \in DOMAIN requests' : requests'[k] = requests[IF k < i THEN k ELSE k + 1]
      BY <1>0, <2>1, RemoveAtParts
    <3>2. \A k \in DOMAIN requests' : (IF k < i THEN k ELSE k + 1) \in DOMAIN requests
      BY <1>0, <3>1
    <3> QED BY <3>1, <3>2
  <2> QED BY <2>1, <2>2 DEF AllForwarded
<1>11. CASE Peers
  BY <1>1, <1>11 DEF Peers, PeerConnect, PeerSend, PeerClose
<1>12. CASE Sinks
  BY <1>1, <1>3, <1>12 DEF Sinks, AcceptFails, Accept, Recv, Hangup
<1>13. CASE Handlers
  <2>1. CASE ResponseUnmatched
    BY <1>1, <2>1 DEF ResponseUnmatched, FinishResponse
  <2>2. CASE \/ Subscribe \/ SubscribeDies \/ UnsubscribeUnknown \/ PublishDropped
             \/ \E i \in DOMAIN topics : Unsubscribe(i) \/ Publish(i)
    BY <1>1, <2>2 DEF Subscribe, SubscribeDies, UnsubscribeUnknown, PublishDropped, Unsubscribe,
                      Publish, FinishTopicMsg
  <2> QED BY <1>3, <1>4, <1>5, <1>6, <1>7, <1>8, <1>9, <1>10, <1>13, <2>1, <2>2 DEF Handlers
<1>14. CASE UNCHANGED vars
  BY <1>1, <1>14 DEF vars
<1> QED BY <1>2, <1>11, <1>12, <1>13, <1>14 DEF Next, apibus_poll

-----------------------------------------------------------------------------
(* Where a connection is: not opened, in the backlog, or behind the one    *)
(* descriptor accept() returned for it.                                    *)

Attached(c) == \E F \in Live : fdtab[F] = c

OneDescriptor == \A F, G \in Live : fdtab[F] = fdtab[G] => F = G

BacklogWaits ==
  /\ \A i, j \in DOMAIN backlog : backlog[i] = backlog[j] => i = j
  /\ \A i \in DOMAIN backlog : ~Attached(backlog[i])

NewNowhere ==
  \A c \in Conns : peer[c] = "new" => c \notin Range(backlog) /\ ~Attached(c)

OpenListed == \A F \in Live : peer[fdtab[F]] # "closed" => F \in Range(sinkfds)

ReadyReadable ==
  \A F \in ready \ {Listener} :
    F \in Live /\ (chan[fdtab[F]] # <<>> \/ peer[fdtab[F]] = "closed")

WInv == OneDescriptor /\ BacklogWaits /\ NewNowhere /\ OpenListed /\ ReadyReadable

(* A list with one more in front, and with one taken out.                  *)
LEMMA ConsRange ==
  ASSUME NEW S, NEW s \in Seq(S), NEW x \in S
  PROVE  Range(Cons(x, s)) = Range(s) \cup {x}
<1> DEFINE t == Cons(x, s)
<1>1. /\ DOMAIN t = 1..(Len(s) + 1) /\ t[1] = x /\ Len(s) \in Nat
      /\ \A i \in DOMAIN s : i + 1 \in DOMAIN t /\ t[i + 1] = s[i]
      /\ \A i \in DOMAIN t : i # 1 => i - 1 \in DOMAIN s /\ t[i] = s[i - 1]
  BY DEF Cons
<1>2. 1 \in DOMAIN t
  BY <1>1
<1> HIDE DEF t
<1>3. Range(t) \subseteq Range(s) \cup {x}
  <2> SUFFICES ASSUME NEW i \in DOMAIN t PROVE t[i] = x \/ \E j \in DOMAIN s : s[j] = t[i]
    BY DEF Range
  <2> QED BY <1>1
<1>4. Range(s) \cup {x} \subseteq Range(t)
  <2>1. \A j \in DOMAIN s : \E i \in DOMAIN t : t[i] = s[j]
    BY <1>1
  <2> QED BY <1>1, <1>2, <2>1 DEF Range
<1> QED BY <1>3, <1>4 DEF t

LEMMA RemoveAtKeeps ==
  ASSUME NEW S, NEW s \in Seq(S), NEW i \in DOMAIN s
  PROVE  Range(s) \ {s[i]} \subseteq Range(RemoveAt(s, i))
<1> DEFINE t == RemoveAt(s, i)
<1> SUFFICES ASSUME NEW k \in DOMAIN s, k # i PROVE \E j \in DOMAIN t : t[j] = s[k]
  BY DEF Range
<1>1. /\ DOMAIN t = 1..(Len(s) - 1) /\ i \in 1..Len(s) /\ k \in 1..Len(s) /\ Len(s) \in Nat
      /\ \A j \in DOMAIN t : t[j] = s[IF j < i THEN j ELSE j + 1]
  BY RemoveAtParts
<1> HIDE DEF t
<1>2. CASE k < i
  <2>1. k \in DOMAIN t /\ t[k] = s[k]
    BY <1>1, <1>2
  <2> QED BY <2>1
<1>3. CASE i < k
  <2>1. k - 1 \in DOMAIN t /\ ~(k - 1 < i) /\ (k - 1) + 1 = k
    BY <1>1, <1>3
  <2>2. t[k - 1] = s[k]
    BY <1>1, <2>1
  <2> QED BY <2>1, <2>2
<1> QED BY <1>1, <1>2, <1>3

LEMMA NextWInv == TInv /\ WInv /\ [Next]_vars => WInv'
<1> SUFFICES ASSUME TInv, WInv, [Next]_vars PROVE WInv'
  OBVIOUS
<1>0. /\ TypeOK /\ sinkfds \in Seq(Live \cup {Listener}) /\ Listener \notin Live
      /\ (Listener \in ready => backlog # <<>>)
      /\ backlog \in Seq(Conns) /\ fdtab \in [FDs -> Conns \cup {None}] /\ chan \in [Conns -> Seq(Packet)]
      /\ peer \in [Conns -> {"new", "open", "closed"}]
  BY ApibusAssumption DEF TInv, TypeOK, Live
<1>1. OneDescriptor /\ BacklogWaits /\ NewNowhere /\ OpenListed /\ ReadyReadable
  BY DEF WInv
<1> USE DEF peers, inputs, queues
<1>2. CASE UNCHANGED <<peer, backlog, chan, fdtab, ready, sinkfds>>
  BY <1>1, <1>2 DEF WInv, OneDescriptor, BacklogWaits, NewNowhere, OpenListed, ReadyReadable,
                    Attached, Live
<1>3. ASSUME NEW c \in Conns, PeerConnect(c) PROVE WInv'
  <2>1. /\ UNCHANGED <<chan, fdtab, ready, sinkfds>> /\ peer[c] = "new"
        /\ peer' = [peer EXCEPT ![c] = "open"] /\ backlog' = Append(backlog, c)
    BY <1>3 DEF PeerConnect
  <2>2. Live' = Live /\ (\A d : Attached(d)' <=> Attached(d))
    BY <2>1 DEF Live, Attached
  <2>3. c \notin Range(backlog) /\ ~Attached(c)
    BY <1>1, <2>1 DEF NewNowhere
  <2>4. /\ DOMAIN backlog' = 1..(Len(backlog) + 1) /\ DOMAIN backlog = 1..Len(backlog)
        /\ Len(backlog) \in Nat /\ backlog'[Len(backlog) + 1] = c
        /\ \A i \in DOMAIN backlog : backlog'[i] = backlog[i]
    BY <1>0, <2>1
  <2>5. \A i \in DOMAIN backlog' : i \in DOMAIN backlog \/ i = Len(backlog) + 1
    BY <2>4
  <2>6. \A i \in DOMAIN backlog : backlog[i] # c
    BY <2>3 DEF Range
  <2>7. BacklogWaits'
    BY <1>1, <2>2, <2>3, <2>4, <2>5, <2>6 DEF BacklogWaits
  <2>8. NewNowhere'
    <3> SUFFICES ASSUME NEW d \in Conns, peer'[d] = "new"
                 PROVE  d \notin Range(backlog') /\ ~Attached(d)'
      BY DEF NewNowhere
    <3>1. d # c /\ peer[d] = "new"
      BY <1>0, <2>1
    <3>2. d \notin Range(backlog) /\ ~Attached(d)
      BY <1>1, <3>1 DEF NewNowhere
    <3>3. \A i \in DOMAIN backlog' : backlog'[i] # d
      BY <2>4, <2>5, <3>1, <3>2 DEF Range
    <3> QED BY <2>2, <3>2, <3>3 DEF Range
  <2>9. \A F \in Live : fdtab[F] \in Conns /\ fdtab[F] # c /\ peer'[fdtab[F]] = peer[fdtab[F]]
    BY <1>0, <2>1, <2>3 DEF Attached, Live
  <2> QED BY <1>1, <2>1, <2>2, <2>7, <2>8, <2>9 DEF WInv, OneDescriptor, OpenListed, ReadyReadable
<1>4. ASSUME NEW c \in Conns, NEW p \in Script[c], PeerSend(c, p) PROVE WInv'
  <2>1. /\ UNCHANGED <<peer, backlog, fdtab, ready, sinkfds>>
        /\ chan' = [chan EXCEPT ![c] = Append(chan[c], p)]
    BY <1>4 DEF PeerSend
  <2>2. Append(chan[c], p) # <<>>
    <3>1. p \in Packet /\ chan[c] \in Seq(Packet)
      BY <1>0, ApibusAssumption
    <3>2. Len(Append(chan[c], p)) = Len(chan[c]) + 1 /\ Len(chan[c]) \in Nat
      BY <3>1
    <3>3. Len(<<>>) = 0
      OBVIOUS
    <3> QED BY <3>2, <3>3
  <2>3. \A d \in Conns : chan[d] # <<>> => chan'[d] # <<>>
    BY <1>0, <2>1, <2>2
  <2>4. \A F \in Live : fdtab[F] \in Conns
    BY DEF Live
  <2> QED BY <1>1, <2>1, <2>3, <2>4 DEF WInv, OneDescriptor, BacklogWaits, NewNowhere, OpenListed,
                                  ReadyReadable, Attached, Live
<1>5. ASSUME NEW c \in Quitters, PeerClose(c) PROVE WInv'
  <2>1. /\ UNCHANGED <<backlog, fdtab, ready, sinkfds>> /\ peer' = [peer EXCEPT ![c] = "closed"]
        /\ chan' \in {chan, [chan EXCEPT ![c] = <<>>]}
    BY <1>5 DEF PeerClose
  <2>2. \A d \in Conns : /\ peer'[d] = "new" => peer[d] = "new"
                         /\ peer'[d] # "closed" => peer[d] # "closed"
                         /\ peer[d] = "closed" => peer'[d] = "closed"
                         /\ chan'[d] = chan[d] \/ peer'[d] = "closed"
    BY <1>0, <2>1
  <2>3. \A F \in Live : fdtab[F] \in Conns
    BY DEF Live
  <2>4. Live' = Live /\ (\A d : Attached(d)' <=> Attached(d))
    BY <2>1 DEF Live, Attached
  <2> QED BY <1>1, <2>1, <2>2, <2>3, <2>4 DEF WInv, OneDescriptor, BacklogWaits, NewNowhere,
                                        OpenListed, ReadyReadable
<1>6. CASE Select
  <2>1. /\ UNCHANGED <<peer, backlog, chan, fdtab, sinkfds>>
        /\ ready' = {F \in Range(sinkfds) : Readable(F)}
    BY <1>6 DEF Select
  <2>2. ReadyReadable'
    <3>1. Range(sinkfds) \subseteq Live \cup {Listener} /\ Live' = Live
      BY <1>0, <2>1, SeqParts DEF Live
    <3> QED BY <2>1, <3>1 DEF ReadyReadable, Readable
  <2> QED BY <1>1, <2>1, <2>2 DEF WInv, OneDescriptor, BacklogWaits, NewNowhere, OpenListed,
                                  Attached, Live
<1>7. ASSUME NEW F \in FDs, Accept(F) PROVE WInv'
  <2> DEFINE c == Head(backlog)
  <2>1. /\ UNCHANGED <<peer, chan>> /\ fdtab[F] = None
        /\ fdtab' = [fdtab EXCEPT ![F] = c] /\ backlog' = Tail(backlog)
        /\ sinkfds' = Cons(F, sinkfds) /\ ready' = ready \ {Listener} /\ backlog # <<>>
    BY <1>0, <1>7 DEF Accept, Turn
  <2>2. /\ c \in Conns /\ c = backlog[1] /\ 1 \in DOMAIN backlog
        /\ DOMAIN backlog' = 1..(Len(backlog) - 1) /\ Len(backlog) \in Nat
        /\ \A i \in DOMAIN backlog' : i + 1 \in DOMAIN backlog /\ backlog'[i] = backlog[i + 1] /\ i \in Nat
    BY <1>0, <2>1
  <2> HIDE DEF c
  <2>3. \A G \in Live : fdtab[G] # c
    BY <1>1, <2>2 DEF BacklogWaits, Attached
  <2>4. F \notin Live /\ F \in Live' /\ fdtab'[F] = c
    BY <1>0, <2>1, <2>2, ApibusAssumption DEF Live
  <2>5. \A G \in Live' : G = F \/ (G \in Live /\ fdtab'[G] = fdtab[G])
    BY <1>0, <2>1 DEF Live
  <2>6. OneDescriptor'
    BY <1>1, <2>3, <2>4, <2>5 DEF OneDescriptor
  <2>7. \A d : Attached(d)' => Attached(d) \/ d = c
    BY <2>4, <2>5 DEF Attached
  <2>8. \A i \in DOMAIN backlog' : backlog'[i] # c
    <3> SUFFICES ASSUME NEW i \in DOMAIN backlog', backlog'[i] = c PROVE FALSE
      OBVIOUS
    <3>1. i + 1 = 1 /\ i \in 1..(Len(backlog) - 1)
      BY <1>1, <2>2 DEF BacklogWaits
    <3> QED BY <2>2, <3>1
  <2>9. BacklogWaits'
    <3>1. \A i, j \in DOMAIN backlog' : backlog'[i] = backlog'[j] => i = j
      <4> SUFFICES ASSUME NEW i \in DOMAIN backlog', NEW j \in DOMAIN backlog',
                          backlog'[i] = backlog'[j]
                   PROVE  i = j
        OBVIOUS
      <4>1. i + 1 = j + 1 /\ i \in Nat /\ j \in Nat
        BY <1>1, <2>2 DEF BacklogWaits
      <4> QED BY <4>1
    <3>2. \A i \in DOMAIN backlog' : \A G \in Live' : fdtab'[G] # backlog'[i]
      BY <1>1, <2>2, <2>4, <2>5, <2>8 DEF BacklogWaits, Attached
    <3> QED BY <3>1, <3>2 DEF BacklogWaits, Attached
  <2>10. NewNowhere'
    <3>1. Range(backlog') \subseteq Range(backlog) /\ c \in Range(backlog)
      BY <2>2 DEF Range
    <3>2. \A d \in Conns : peer[d] = "new" => d # c
      BY <1>1, <3>1 DEF NewNowhere
    <3> QED BY <1>1, <2>1, <2>7, <3>1, <3>2 DEF NewNowhere
  <2>11. OpenListed'
    <3>1. Range(sinkfds') = Range(sinkfds) \cup {F}
      <4>1. sinkfds \in Seq(FDs \cup {Listener})
        BY <1>0 DEF TypeOK
      <4> QED BY <2>1, <4>1, ConsRange
    <3> QED BY <1>1, <2>1, <2>5, <3>1 DEF OpenListed
  <2>12. ReadyReadable'
    <3>1. \A G \in Live : G # F /\ G \in Live' /\ fdtab'[G] = fdtab[G]
      BY <1>0, <2>1, <2>4 DEF Live
    <3> QED BY <1>1, <2>1, <3>1 DEF ReadyReadable
  <2> QED BY <2>6, <2>9, <2>10, <2>11, <2>12 DEF WInv
<1>8. CASE AcceptFails
  <2>1. UNCHANGED <<peer, backlog, chan, fdtab, sinkfds>> /\ ready' = ready \ {Listener}
    BY <1>8 DEF AcceptFails
  <2> QED BY <1>1, <2>1 DEF WInv, OneDescriptor, BacklogWaits, NewNowhere, OpenListed,
                            ReadyReadable, Attached, Live
<1>9. ASSUME NEW F \in FDs, Recv(F) PROVE WInv'
  <2>1. /\ UNCHANGED <<peer, backlog, fdtab, sinkfds>> /\ ready' = ready \ {F} /\ F \in ready
        /\ chan' = [chan EXCEPT ![fdtab[F]] = <<>>]
    BY <1>9 DEF Recv, Turn
  <2>2. F \in Live /\ F # Listener
    BY <1>1, <2>1, ApibusAssumption DEF ReadyReadable
  <2>3. \A G \in Live : G # F => chan'[fdtab[G]] = chan[fdtab[G]]
    <3>1. \A G \in Live : G # F => fdtab[G] # fdtab[F] /\ fdtab[G] \in Conns
      BY <1>1, <2>2 DEF OneDescriptor, Live
    <3> QED BY <1>0, <2>1, <3>1
  <2>4. Live' = Live /\ (\A d : Attached(d)' <=> Attached(d))
    BY <2>1 DEF Live, Attached
  <2>5. ReadyReadable'
    BY <1>1, <2>1, <2>3, <2>4 DEF ReadyReadable
  <2> QED BY <1>1, <2>1, <2>4, <2>5 DEF WInv, OneDescriptor, BacklogWaits, NewNowhere, OpenListed
<1>10. ASSUME NEW F \in FDs, Hangup(F) PROVE WInv'
  <2>1. /\ UNCHANGED <<peer, backlog, chan, fdtab>> /\ ready' = ready \ {F} /\ F \in ready
        /\ chan[fdtab[F]] = <<>>
    BY <1>10 DEF Hangup, Turn, sinkfd_destroy
  <2>2. F \in Live /\ peer[fdtab[F]] = "closed"
    BY <1>1, <2>1, ApibusAssumption DEF ReadyReadable
  <2>3. PICK i \in DOMAIN sinkfds : sinkfds[i] = F /\ sinkfds' = RemoveAt(sinkfds, i)
    BY <1>10 DEF Hangup, sinkfd_destroy
  <2>4. Range(sinkfds) \ {F} \subseteq Range(sinkfds')
    BY <1>0, <2>3, RemoveAtKeeps
  <2>5. Live' = Live /\ (\A d : Attached(d)' <=> Attached(d))
    BY <2>1 DEF Live, Attached
  <2>6. OpenListed'
    BY <1>1, <2>1, <2>2, <2>4, <2>5 DEF OpenListed
  <2>7. ReadyReadable'
    BY <1>1, <2>1, <2>5 DEF ReadyReadable
  <2> QED BY <1>1, <2>1, <2>5, <2>6, <2>7 DEF WInv, OneDescriptor, BacklogWaits, NewNowhere
<1>11. CASE SinksDone \/ Tick
  BY <1>2, <1>11 DEF SinksDone, Tick
<1>12. CASE Handlers
  <2>1. CASE \/ ParseDone \/ (\E F \in FDs : ParsePacket(F))
             \/ RequestWaits \/ RequestTimeout \/ RequestNotFound \/ RequestForward \/ RequestsDone
             \/ ResponseUnmatched \/ ResponsesDone \/ PollEnd
             \/ \E i \in DOMAIN requests : ResponseRelay(i)
    BY <1>2, <2>1 DEF ParseDone, ParsePacket, RequestWaits, RequestTimeout, RequestNotFound,
       RequestForward, RequestsDone, ResponseUnmatched, ResponsesDone, PollEnd, ResponseRelay,
       FinishResponse
  <2>2. CASE \/ Subscribe \/ SubscribeDies \/ UnsubscribeUnknown \/ PublishDropped
             \/ \E i \in DOMAIN topics : Unsubscribe(i) \/ Publish(i)
    BY <1>2, <2>2 DEF Subscribe, SubscribeDies, UnsubscribeUnknown, PublishDropped, Unsubscribe,
                      Publish, FinishTopicMsg
  <2> QED BY <1>12, <2>1, <2>2 DEF Handlers
<1>13. CASE Peers
  BY <1>3, <1>4, <1>5, <1>13 DEF Peers
<1>14. CASE Sinks
  BY <1>6, <1>7, <1>8, <1>9, <1>10, <1>11, <1>14 DEF Sinks
<1>15. CASE UNCHANGED vars
  BY <1>2, <1>15 DEF vars
<1> QED BY <1>11, <1>12, <1>13, <1>14, <1>15 DEF Next, apibus_poll

-----------------------------------------------------------------------------
(* Counting requests.                                                      *)

(* Sets of positions that a shift maps onto one another are of one size.   *)
LEMMA SameSize ==
  ASSUME NEW S, NEW T, IsFiniteSet(S), NEW f \in [S -> T],
         \A x, y \in S : f[x] = f[y] => x = y,
         \A z \in T : \E x \in S : f[x] = z
  PROVE  IsFiniteSet(T) /\ Cardinality(T) = Cardinality(S)
<1>1. f \in Bijection(S, T)
  BY DEF Bijection, Injection, Surjection, IsInjective
<1>2. ExistsBijection(S, T)
  BY <1>1 DEF ExistsBijection
<1> QED BY <1>2, FS_Bijection

LEMMA PositionsFinite ==
  ASSUME NEW S, NEW s \in Seq(S), NEW T \in SUBSET DOMAIN s
  PROVE  IsFiniteSet(T) /\ Cardinality(T) \in Nat
<1>1. IsFiniteSet(1..Len(s))
  BY FS_Interval
<1> QED BY <1>1, FS_Subset, FS_CardinalityType

(* The requests among the packets of two lists joined, and of one packet.  *)
LEMMA RequestsJoin ==
  ASSUME NEW s \in Seq(Packet), NEW t \in Seq(Packet)
  PROVE  Requests(s \o t) = Requests(s) + Requests(t) /\ Requests(s) \in Nat /\ Requests(t) \in Nat
<1> DEFINE A == {i \in DOMAIN s : s[i].leader = ">"}
           B == {i \in DOMAIN t : t[i].leader = ">"}
           C == {i \in DOMAIN (s \o t) : i > Len(s) /\ (s \o t)[i].leader = ">"}
           f == [i \in B |-> Len(s) + i]
<1>1. /\ DOMAIN (s \o t) = 1..(Len(s) + Len(t)) /\ DOMAIN s = 1..Len(s) /\ DOMAIN t = 1..Len(t)
      /\ Len(s) \in Nat /\ Len(t) \in Nat
      /\ \A i \in 1..Len(s) : (s \o t)[i] = s[i]
      /\ \A i \in 1..Len(t) : (s \o t)[Len(s) + i] = t[i]
  BY ConcatParts
<1>2. /\ IsFiniteSet(A) /\ Cardinality(A) \in Nat
      /\ IsFiniteSet(B) /\ Cardinality(B) \in Nat
  BY PositionsFinite
<1>3. f \in [B -> C]
  BY <1>1
<1>4. \A x, y \in B : f[x] = f[y] => x = y
  BY <1>1
<1>5. ASSUME NEW z \in C PROVE \E x \in B : f[x] = z
  <2>1. z - Len(s) \in 1..Len(t) /\ Len(s) + (z - Len(s)) = z
    BY <1>1
  <2>2. z - Len(s) \in B
    BY <1>1, <2>1
  <2>3. f[z - Len(s)] = z
    BY <2>1, <2>2
  <2> QED BY <2>2, <2>3
<1>6. {i \in DOMAIN (s \o t) : (s \o t)[i].leader = ">"} = A \cup C
  BY <1>1
<1>7. A \cap C = {}
  BY <1>1
<1>8. Requests(s \o t) = Cardinality(A \cup C) /\ Requests(s) = Cardinality(A) /\ Requests(t) = Cardinality(B)
  BY <1>6 DEF Requests
<1> HIDE DEF A, B, C, f
<1>9. IsFiniteSet(C) /\ Cardinality(C) = Cardinality(B)
  BY <1>2, <1>3, <1>4, <1>5, SameSize
<1>10. Cardinality(A \cup C) = Cardinality(A) + Cardinality(C) - 0
  BY <1>2, <1>7, <1>9, FS_Union, FS_EmptySet
<1> QED BY <1>2, <1>8, <1>9, <1>10

LEMMA RequestsNone == Requests(<<>>) = 0
<1>1. {i \in DOMAIN <<>> : <<>>[i].leader = ">"} = {}
  OBVIOUS
<1> QED BY <1>1, FS_EmptySet DEF Requests

One(p) == IF p.leader = ">" THEN 1 ELSE 0

LEMMA RequestsOne ==
  ASSUME NEW p \in Packet
  PROVE  Requests(<<p>>) = One(p) /\ One(p) \in Nat
<1>1. DOMAIN <<p>> = {1} /\ <<p>>[1] = p
  OBVIOUS
<1>2. CASE p.leader = ">"
  <2>1. {i \in DOMAIN <<p>> : <<p>>[i].leader = ">"} = {1}
    BY <1>1, <1>2
  <2> QED BY <1>2, <2>1, FS_Singleton DEF Requests, One
<1>3. CASE p.leader # ">"
  <2>1. {i \in DOMAIN <<p>> : <<p>>[i].leader = ">"} = {}
    BY <1>1, <1>3
  <2> QED BY <1>3, <2>1, FS_EmptySet DEF Requests, One
<1> QED BY <1>2, <1>3

(* One packet more at the end, and one less in front.                      *)
LEMMA RequestsParts ==
  ASSUME NEW s \in Seq(Packet)
  PROVE  /\ Requests(s) \in Nat
         /\ \A p \in Packet : Requests(Append(s, p)) = Requests(s) + One(p) /\ One(p) \in Nat
         /\ s # <<>> => Requests(s) = One(Head(s)) + Requests(Tail(s)) /\ Requests(Tail(s)) \in Nat
<1>1. Requests(s) \in Nat
  BY RequestsJoin
<1>2. ASSUME NEW p \in Packet
      PROVE  Requests(Append(s, p)) = Requests(s) + One(p) /\ One(p) \in Nat
  <2>1. Append(s, p) = s \o <<p>> /\ <<p>> \in Seq(Packet)
    OBVIOUS
  <2> QED BY <2>1, RequestsJoin, RequestsOne
<1>3. ASSUME s # <<>>
      PROVE  Requests(s) = One(Head(s)) + Requests(Tail(s)) /\ Requests(Tail(s)) \in Nat
  <2>1. Head(s) \in Packet /\ Tail(s) \in Seq(Packet) /\ s = <<Head(s)>> \o Tail(s)
        /\ <<Head(s)>> \in Seq(Packet)
    BY <1>3
  <2> QED BY <2>1, RequestsJoin, RequestsOne
<1> QED BY <1>1, <1>2, <1>3

(* A new request in front.                                                 *)
LEMMA PendingCons ==
  ASSUME TInv, NEW G, NEW r \in QueuedRequest, requests' = Cons(r, requests)
  PROVE  Cardinality(Pending(G)') =
           Cardinality(Pending(G)) + (IF r.fd = G THEN 1 ELSE 0)
<1> DEFINE S == Pending(G)
           T == {i \in DOMAIN requests' : i # 1 /\ requests'[i].fd = G}
           f == [i \in S |-> i + 1]
<1>1. requests \in Seq(QueuedRequest) /\ requests' = <<r>> \o requests
  BY DEF TInv, TypeOK, Cons
<1>2. /\ requests' \in Seq(QueuedRequest) /\ DOMAIN requests' = 1..(Len(requests) + 1)
      /\ requests'[1] = r
      /\ \A i \in DOMAIN requests : i + 1 \in DOMAIN requests' /\ requests'[i + 1] = requests[i]
      /\ \A i \in DOMAIN requests' : i # 1 => i - 1 \in DOMAIN requests /\ requests'[i] = requests[i - 1]
  BY <1>1
<1>3. S \in SUBSET DOMAIN requests /\ IsFiniteSet(S) /\ Cardinality(S) \in Nat
  BY <1>1, PositionsFinite DEF Pending
<1>4. f \in [S -> T]
  BY <1>1, <1>2 DEF Pending
<1>5. \A x, y \in S : f[x] = f[y] => x = y
  BY <1>1 DEF Pending
<1>6. ASSUME NEW z \in T PROVE \E x \in S : f[x] = z
  <2>1. z - 1 \in S
    BY <1>2 DEF Pending
  <2>2. f[z - 1] = z
    BY <1>2, <2>1
  <2> QED BY <2>1, <2>2
<1> HIDE DEF f
<1>7. IsFiniteSet(T) /\ Cardinality(T) = Cardinality(S)
  BY <1>3, <1>4, <1>5, <1>6, SameSize
<1>8. CASE r.fd = G
  <2>1. Pending(G)' = T \cup {1} /\ 1 \notin T
    BY <1>2, <1>8 DEF Pending
  <2> HIDE DEF T
  <2> QED BY <1>7, <1>8, <2>1, FS_AddElement
<1>9. CASE r.fd # G
  <2>1. Pending(G)' = T
    BY <1>2, <1>9 DEF Pending
  <2> QED BY <1>3, <1>7, <1>9, <2>1
<1> QED BY <1>8, <1>9

(* One request leaves.                                                     *)
LEMMA PendingRemove ==
  ASSUME TInv, NEW G, NEW i \in DOMAIN requests, requests' = RemoveAt(requests, i)
  PROVE  Cardinality(Pending(G)') =
           Cardinality(Pending(G)) - (IF requests[i].fd = G THEN 1 ELSE 0)
<1> DEFINE S == Pending(G)'
           T == Pending(G) \ {i}
           f == [k \in S |-> IF k < i THEN k ELSE k + 1]
<1>1. requests \in Seq(QueuedRequest) /\ i \in 1..Len(requests) /\ Len(requests) \in Nat
  BY DEF TInv, TypeOK
<1>2. /\ requests' \in Seq(QueuedRequest)
      /\ DOMAIN requests' = 1..(Len(requests) - 1)
      /\ \A k \in DOMAIN requests' : requests'[k] = requests[IF k < i THEN k ELSE k + 1]
  BY <1>1, RemoveAtParts
<1>3. S \in SUBSET DOMAIN requests' /\ IsFiniteSet(S) /\ Cardinality(S) \in Nat
  BY <1>2, PositionsFinite DEF Pending
<1>4. IsFiniteSet(Pending(G)) /\ Cardinality(Pending(G)) \in Nat
  BY <1>1, PositionsFinite DEF Pending
<1>5. f \in [S -> T]
  BY <1>1, <1>2 DEF Pending
<1>6. \A x, y \in S : f[x] = f[y] => x = y
  BY <1>1, <1>2 DEF Pending
<1>7. ASSUME NEW z \in T PROVE \E x \in S : f[x] = z
  <2>1. z \in 1..Len(requests) /\ z # i
    BY <1>1 DEF Pending
  <2>2. CASE z < i
    <3>1. z \in DOMAIN requests' /\ requests'[z] = requests[z]
      BY <1>1, <1>2, <2>1, <2>2
    <3>2. z \in S
      BY <3>1 DEF Pending
    <3>3. f[z] = z
      BY <2>2, <3>2
    <3> QED BY <3>2, <3>3
  <2>3. CASE i < z
    <3>1. z - 1 \in DOMAIN requests' /\ ~(z - 1 < i) /\ (z - 1) + 1 = z
      BY <1>1, <1>2, <2>1, <2>3
    <3>2. requests'[z - 1] = requests[z]
      BY <1>2, <3>1
    <3>3. z - 1 \in S
      BY <3>1, <3>2 DEF Pending
    <3>4. f[z - 1] = z
      BY <2>1, <3>1, <3>3
    <3> QED BY <3>3, <3>4
  <2> QED BY <1>1, <2>1, <2>2, <2>3
<1> HIDE DEF f
<1>8. Cardinality(T) = Cardinality(S)
  BY <1>3, <1>5, <1>6, <1>7, SameSize
<1>9. i \in Pending(G) <=> requests[i].fd = G
  BY DEF Pending
<1>10. Cardinality(T) = IF i \in Pending(G) THEN Cardinality(Pending(G)) - 1 ELSE Cardinality(Pending(G))
  BY <1>4, FS_RemoveElement
<1> QED BY <1>4, <1>8, <1>9, <1>10

-----------------------------------------------------------------------------
(* Every request is accounted for: behind a descriptor as AnsweredOnce     *)
(* says, and before accept() among the packets not yet received.           *)

Balanced(c, n) ==
  n <= Requests(asked[c]) /\ (peer[c] # "closed" => n = Requests(asked[c]))

AInv ==
  /\ \A c \in Conns : ~Attached(c) => told[c] = 0 /\ Balanced(c, Requests(chan[c]))
  /\ \A F \in Live : Balanced(fdtab[F], Accounted(F))

(* What the bus holds of F's requests, and what it has answered.           *)
Taken(F) == Requests(rxbuf[F]) + Cardinality(Pending(F)) + told[fdtab[F]]

LEMMA CountTypes ==
  ASSUME TypeOK
  PROVE  /\ \A c \in Conns : Requests(chan[c]) \in Nat /\ Requests(asked[c]) \in Nat /\ told[c] \in Nat
         /\ \A F \in Live : /\ fdtab[F] \in Conns
                            /\ Requests(rxbuf[F]) \in Nat /\ Cardinality(Pending(F)) \in Nat
                            /\ Taken(F) \in Nat /\ Accounted(F) = Requests(chan[fdtab[F]]) + Taken(F)
<1>1. \A c \in Conns : Requests(chan[c]) \in Nat /\ Requests(asked[c]) \in Nat /\ told[c] \in Nat
  BY RequestsParts DEF TypeOK
<1>2. ASSUME NEW F \in Live
      PROVE  /\ fdtab[F] \in Conns
             /\ Requests(rxbuf[F]) \in Nat /\ Cardinality(Pending(F)) \in Nat
  <2>1. rxbuf[F] \in Seq(Packet) /\ fdtab[F] \in Conns /\ requests \in Seq(QueuedRequest)
    BY DEF TypeOK, Live
  <2>2. Pending(F) \in SUBSET DOMAIN requests
    BY DEF Pending
  <2> QED BY <2>1, <2>2, RequestsParts, PositionsFinite
<1>3. ASSUME NEW F \in Live
      PROVE  Taken(F) \in Nat /\ Accounted(F) = Requests(chan[fdtab[F]]) + Taken(F)
  BY <1>1, <1>2 DEF Taken, Accounted
<1> QED BY <1>1, <1>2, <1>3

TakenCounts ==
  \A F \in Live : Taken(F) \in Nat /\ Accounted(F) = Requests(chan[fdtab[F]]) + Taken(F)

LEMMA CountTypesNext == TypeOK' => TakenCounts'
<1>1. TypeOK => TakenCounts
  BY CountTypes DEF TakenCounts
<1> QED BY <1>1, PTL

(* A step of the bus keeps the account when what it has taken stays the    *)
(* same, or shrinks for a peer that has closed.                            *)
LEMMA TakenKept ==
  ASSUME PInv, TypeOK', AInv, UNCHANGED <<peer, chan, asked, fdtab>>,
         \A c \in Conns : ~Attached(c) => told'[c] = told[c],
         \A F \in Live : Taken(F)' <= Taken(F)
                         /\ (peer[fdtab[F]] # "closed" => Taken(F)' = Taken(F))
  PROVE  AInv'
<1>1. TypeOK
  BY DEF PInv, TInv
<1>2. Live' = Live /\ (\A c : Attached(c)' <=> Attached(c))
  BY DEF Live, Attached
<1>3. ASSUME NEW c \in Conns, ~Attached(c)
      PROVE  told'[c] = 0 /\ Balanced(c, Requests(chan[c]))'
  BY <1>3 DEF AInv, Balanced
<1>4. ASSUME NEW F \in Live PROVE Balanced(fdtab[F], Accounted(F))'
  <2> DEFINE a == Requests(chan[fdtab[F]])
             n == Requests(asked[fdtab[F]])
             k == Taken(F)
             l == Taken(F)'
             z == peer[fdtab[F]] # "closed"
  <2>1. a \in Nat /\ n \in Nat /\ k \in Nat /\ Accounted(F) = a + k
    BY <1>1, CountTypes
  <2>2. l \in Nat /\ Accounted(F)' = a + l
    BY <1>2, CountTypesNext DEF TakenCounts
  <2>3. l <= k /\ (z => l = k) /\ a + k <= n /\ (z => a + k = n)
    BY <2>1 DEF AInv, Balanced
  <2>4. a + l <= n /\ (z => a + l = n)
    <3> HIDE DEF a, n, k, l, z
    <3> QED BY <2>1, <2>2, <2>3
  <2> QED BY <2>2, <2>4 DEF Balanced
<1> QED BY <1>2, <1>3, <1>4 DEF AInv

(* A message that is no answer to a request.                               *)
LEMMA NoAnswer ==
  ASSUME TypeOK, NEW S, NEW m, SendAll(S, m), m.kind \notin Answer
  PROVE  UNCHANGED told
<1>1. told \in [Conns -> Nat] /\ told' = [c \in Conns |-> told[c]]
  BY DEF SendAll, TypeOK
<1> QED BY <1>1

(* The answer that goes with the removal of a request: its sender gets it  *)
(* unless it has closed, and nobody else does.                             *)
LEMMA AnswerTaken ==
  ASSUME PInv, WInv, NEW i \in DOMAIN requests, NEW k \in Answer, NEW p,
         apibus_send(requests[i].fd, k, p), api_request_delete(i),
         UNCHANGED <<peers, inputs>>
  PROVE  /\ \A c \in Conns : ~Attached(c) => told'[c] = told[c]
         /\ \A F \in Live : Taken(F)' <= Taken(F)
                            /\ (peer[fdtab[F]] # "closed" => Taken(F)' = Taken(F))
<1> DEFINE G == requests[i].fd
           d == fdtab[G]
           m == [kind |-> k, pac |-> p]
<1>1. TInv /\ TypeOK /\ told \in [Conns -> Nat] /\ peer \in [Conns -> {"new", "open", "closed"}]
  BY DEF PInv, TInv, TypeOK
<1>2. G \in Live /\ d \in Conns /\ Attached(d)
  BY BackedParts DEF Live, Attached
<1>3. /\ told' = [c \in Conns |-> IF c \in Reach({G}) /\ peer[c] = "open" /\ m.kind \in Answer
                                  THEN told[c] + 1 ELSE told[c]]
      /\ m.kind = k
      /\ \A c \in Reach({G}) : c = d
      /\ G \in Range(sinkfds) => d \in Reach({G})
  BY DEF apibus_send, SendAll, Reach
<1> HIDE DEF m
<1>4. \A c \in Conns : c # d => told'[c] = told[c]
  BY <1>3
<1>5. told'[d] = told[d] + (IF d \in Reach({G}) /\ peer[d] = "open" THEN 1 ELSE 0)
  BY <1>1, <1>2, <1>3
<1>6. peer[d] # "closed" => told'[d] = told[d] + 1
  <2>1. peer[d] # "new"
    BY <1>2 DEF WInv, NewNowhere
  <2>2. peer[d] # "closed" => peer[d] = "open" /\ G \in Range(sinkfds)
    BY <1>1, <1>2, <2>1 DEF WInv, OpenListed
  <2> QED BY <1>3, <1>5, <2>2
<1>7. told'[d] <= told[d] + 1
  BY <1>1, <1>2, <1>5
<1>8. requests' = RemoveAt(requests, i) /\ UNCHANGED <<rxbuf, fdtab>>
  BY DEF api_request_delete, inputs
<1>9. ASSUME NEW F \in Live
      PROVE  Taken(F)' <= Taken(F) /\ (peer[fdtab[F]] # "closed" => Taken(F)' = Taken(F))
  <2> DEFINE x == Requests(rxbuf[F])
             q == Cardinality(Pending(F))
             r == Cardinality(Pending(F)')
             t == told[fdtab[F]]
             u == told'[fdtab[F]]
             z == peer[fdtab[F]] # "closed"
  <2>1. x \in Nat /\ q \in Nat /\ t \in Nat /\ fdtab[F] \in Conns
    BY <1>1, CountTypes
  <2>2. Taken(F) = x + q + t /\ Taken(F)' = x + r + u
    BY <1>8 DEF Taken
  <2>3. r = q - (IF G = F THEN 1 ELSE 0)
    BY <1>1, <1>8, PendingRemove
  <2>4. CASE F # G
    <3>1. fdtab[F] # d
      BY <1>2, <2>4 DEF WInv, OneDescriptor
    <3>2. u = t /\ r = q
      BY <1>4, <2>1, <2>3, <2>4, <3>1
    <3> HIDE DEF x, q, r, t, u, z
    <3> QED BY <2>1, <2>2, <3>2
  <2>5. CASE F = G
    <3>1. r = q - 1 /\ u <= t + 1 /\ (z => u = t + 1) /\ u \in Int
      BY <1>1, <1>2, <1>5, <1>6, <1>7, <2>3, <2>5
    <3> HIDE DEF x, q, r, t, u
    <3> QED BY <2>1, <2>2, <3>1
  <2> QED BY <2>4, <2>5
<1>10. \A c \in Conns : ~Attached(c) => told'[c] = told[c]
  BY <1>2, <1>4
<1> QED BY <1>9, <1>10

LEMMA NextAInv == PInv /\ WInv /\ AInv /\ [Next]_vars => AInv'
<1> SUFFICES ASSUME PInv, WInv, AInv, [Next]_vars PROVE AInv'
  OBVIOUS
<1>0. /\ TInv /\ TypeOK /\ TypeOK'
      /\ fdtab \in [FDs -> Conns \cup {None}] /\ chan \in [Conns -> Seq(Packet)]
      /\ asked \in [Conns -> Seq(Packet)] /\ rxbuf \in [FDs -> Seq(Packet)]
      /\ peer \in [Conns -> {"new", "open", "closed"}] /\ requests \in Seq(QueuedRequest)
  BY NextTInv DEF PInv, TInv, TypeOK
<1>1. /\ \A c \in Conns : ~Attached(c) => told[c] = 0 /\ Balanced(c, Requests(chan[c]))
      /\ \A F \in Live : fdtab[F] \in Conns /\ Balanced(fdtab[F], Accounted(F))
  BY DEF AInv, Live
<1> USE DEF peers, inputs, queues, sent
(* The requests keep their places and nobody is answered.                  *)
<1>2. ASSUME UNCHANGED <<peer, chan, asked, fdtab, rxbuf, told>>, DOMAIN requests' = DOMAIN requests,
             \A i \in DOMAIN requests : requests'[i].fd = requests[i].fd
      PROVE  AInv'
  <2>1. \A F \in Live : Taken(F)' = Taken(F) /\ Taken(F) \in Nat
    <3> TAKE F \in Live
    <3>1. Pending(F)' = Pending(F)
      BY <1>2 DEF Pending
    <3> QED BY <1>0, <1>2, <3>1, CountTypes DEF Taken
  <2> QED BY <1>0, <1>2, <2>1, TakenKept
<1>3. CASE UNCHANGED <<peer, chan, asked, fdtab, rxbuf, told, requests>>
  BY <1>2, <1>3
<1>4. ASSUME NEW c \in Conns, PeerConnect(c) PROVE AInv'
  <2>1. UNCHANGED <<chan, asked, fdtab, rxbuf, told, requests>> /\ peer[c] = "new"
        /\ peer' = [peer EXCEPT ![c] = "open"]
    BY <1>4 DEF PeerConnect
  <2>2. \A d \in Conns : peer'[d] = "closed" <=> peer[d] = "closed"
    BY <1>0, <2>1
  <2>3. Live' = Live /\ (\A d : Attached(d)' <=> Attached(d))
    BY <2>1 DEF Live, Attached
  <2>4. \A F \in Live : Accounted(F)' = Accounted(F) /\ fdtab'[F] = fdtab[F]
    BY <2>1 DEF Accounted, Pending
  <2> QED BY <1>1, <2>1, <2>2, <2>3, <2>4 DEF AInv, Balanced
<1>5. ASSUME NEW c \in Conns, NEW p \in Script[c], PeerSend(c, p) PROVE AInv'
  <2>1. /\ UNCHANGED <<peer, fdtab, rxbuf, told, requests>>
        /\ chan' = [chan EXCEPT ![c] = Append(chan[c], p)]
        /\ asked' = [asked EXCEPT ![c] = Append(asked[c], p)]
    BY <1>5 DEF PeerSend
  <2>2. p \in Packet
    BY ApibusAssumption
  <2>3. Live' = Live /\ (\A d : Attached(d)' <=> Attached(d)) /\ (\A F \in Live : Taken(F)' = Taken(F))
    BY <2>1 DEF Live, Attached, Taken, Pending
  <2>4. \A d \in Conns : \E n \in Nat : /\ Requests(chan'[d]) = Requests(chan[d]) + n
                                        /\ Requests(asked'[d]) = Requests(asked[d]) + n
    <3> TAKE d \in Conns
    <3>1. CASE d = c
      <4>1. chan'[d] = Append(chan[d], p) /\ asked'[d] = Append(asked[d], p)
        BY <1>0, <2>1, <3>1
      <4>2. chan[d] \in Seq(Packet) /\ asked[d] \in Seq(Packet)
        BY <1>0
      <4> QED BY <2>2, <4>1, <4>2, RequestsParts, SMTT(30)
    <3>2. CASE d # c
      <4>1. chan'[d] = chan[d] /\ asked'[d] = asked[d]
        BY <1>0, <2>1, <3>2
      <4>2. Requests(chan[d]) \in Nat /\ Requests(asked[d]) \in Nat
        BY <1>0, CountTypes
      <4> HIDE DEF Requests
      <4> WITNESS 0 \in Nat
      <4> QED BY <4>1, <4>2
    <3> QED BY <3>1, <3>2
  <2>5. ASSUME NEW d \in Conns, ~Attached(d)'
        PROVE  told'[d] = 0 /\ Balanced(d, Requests(chan[d]))'
    <3>1. PICK n \in Nat : /\ Requests(chan'[d]) = Requests(chan[d]) + n
                           /\ Requests(asked'[d]) = Requests(asked[d]) + n
      BY <2>4
    <3>2. Requests(chan[d]) \in Nat /\ Requests(asked[d]) \in Nat
      BY <1>0, CountTypes
    <3>3. told[d] = 0 /\ Balanced(d, Requests(chan[d]))
      BY <1>1, <2>3, <2>5
    <3> QED BY <2>1, <3>1, <3>2, <3>3 DEF Balanced
  <2>6. ASSUME NEW F \in Live' PROVE Balanced(fdtab[F], Accounted(F))'
    <3> DEFINE d == fdtab[F]
    <3>1. d \in Conns /\ F \in Live /\ fdtab' = fdtab
      BY <1>1, <2>1, <2>3
    <3>2. PICK n \in Nat : /\ Requests(chan'[d]) = Requests(chan[d]) + n
                           /\ Requests(asked'[d]) = Requests(asked[d]) + n
      BY <2>4, <3>1
    <3>3. Requests(chan[d]) \in Nat /\ Requests(asked[d]) \in Nat /\ Taken(F) \in Nat
          /\ Accounted(F) = Requests(chan[d]) + Taken(F)
      BY <1>0, <3>1, CountTypes
    <3>4. Accounted(F)' = Requests(chan'[d]) + Taken(F)
      BY <1>0, <2>3, <3>1, CountTypesNext DEF TakenCounts
    <3>5. Balanced(d, Accounted(F))
      BY <1>1, <3>1
    <3>6. Accounted(F)' <= Requests(asked'[d]) /\ (peer[d] # "closed" => Accounted(F)' = Requests(asked'[d]))
      <4> HIDE DEF d
      <4> QED BY <3>2, <3>3, <3>4, <3>5 DEF Balanced
    <3> QED BY <2>1, <3>1, <3>6 DEF Balanced
  <2> QED BY <2>5, <2>6 DEF AInv
<1>6. ASSUME NEW c \in Quitters, PeerClose(c) PROVE AInv'
  <2>1. /\ UNCHANGED <<asked, fdtab, rxbuf, told, requests>> /\ peer' = [peer EXCEPT ![c] = "closed"]
        /\ chan' \in {chan, [chan EXCEPT ![c] = <<>>]}
    BY <1>6 DEF PeerClose
  <2>2. Live' = Live /\ (\A d : Attached(d)' <=> Attached(d)) /\ (\A F \in Live : Taken(F)' = Taken(F))
    BY <2>1 DEF Live, Attached, Taken, Pending
  <2>3. \A d \in Conns : /\ peer'[d] # "closed" => peer[d] # "closed" /\ chan'[d] = chan[d]
                         /\ chan'[d] = chan[d] \/ chan'[d] = <<>>
    BY <1>0, <2>1
  <2>4. \A d \in Conns : /\ Requests(chan'[d]) \in Nat /\ Requests(chan'[d]) <= Requests(chan[d])
                         /\ peer'[d] # "closed" => Requests(chan'[d]) = Requests(chan[d])
    <3> TAKE d \in Conns
    <3>1. Requests(chan[d]) \in Nat /\ Requests(<<>>) = 0
      BY <1>0, CountTypes, RequestsNone
    <3> QED BY <2>3, <3>1
  <2>5. ASSUME NEW d \in Conns, ~Attached(d)'
        PROVE  told'[d] = 0 /\ Balanced(d, Requests(chan[d]))'
    <3>1. Requests(chan[d]) \in Nat /\ Requests(asked[d]) \in Nat /\ Requests(chan'[d]) \in Nat
      BY <1>0, <2>4, CountTypes
    <3>2. told[d] = 0 /\ Balanced(d, Requests(chan[d]))
      BY <1>1, <2>2, <2>5
    <3> QED BY <2>1, <2>3, <2>4, <3>1, <3>2 DEF Balanced
  <2>6. ASSUME NEW F \in Live' PROVE Balanced(fdtab[F], Accounted(F))'
    <3> DEFINE d == fdtab[F]
    <3>1. d \in Conns /\ F \in Live /\ fdtab' = fdtab
      BY <1>1, <2>1, <2>2
    <3>2. Requests(chan[d]) \in Nat /\ Requests(asked[d]) \in Nat /\ Taken(F) \in Nat
          /\ Accounted(F) = Requests(chan[d]) + Taken(F) /\ Requests(chan'[d]) \in Nat
      BY <1>0, <2>4, <3>1, CountTypes
    <3>3. Accounted(F)' = Requests(chan'[d]) + Taken(F)
      BY <1>0, <2>2, <3>1, CountTypesNext DEF TakenCounts
    <3>4. Balanced(d, Accounted(F))
      BY <1>1, <3>1
    <3>5. /\ Accounted(F)' <= Requests(asked[d])
          /\ peer'[d] # "closed" => Accounted(F)' = Requests(asked[d])
      <4>1. d \in Conns
        BY <3>1
      <4> HIDE DEF d
      <4> QED BY <2>3, <2>4, <3>2, <3>3, <3>4, <4>1 DEF Balanced
    <3> QED BY <2>1, <3>1, <3>5 DEF Balanced
  <2> QED BY <2>5, <2>6 DEF AInv
<1>7. CASE Tick
  <2>1. \A i \in DOMAIN requests : requests'[i].fd = requests[i].fd
    <3> TAKE i \in DOMAIN requests
    <3>1. requests[i] \in QueuedRequest
      BY <1>0
    <3> QED BY <1>7, <3>1 DEF Tick, QueuedRequest
  <2> QED BY <1>2, <1>7, <2>1 DEF Tick
(* Nothing of the new connection has been received before.                 *)
<1>8. ASSUME NEW F \in FDs, Accept(F) PROVE AInv'
  <2> DEFINE c == Head(backlog)
  <2>1. /\ UNCHANGED <<peer, chan, asked, rxbuf, told, requests>> /\ fdtab[F] = None
        /\ fdtab' = [fdtab EXCEPT ![F] = c] /\ backlog # <<>>
    BY <1>0, <1>8 DEF Accept, Turn, TInv
  <2>2. c \in Conns /\ ~Attached(c)
    <3>1. backlog \in Seq(Conns) /\ c = backlog[1] /\ 1 \in DOMAIN backlog /\ c \in Conns
      BY <1>0, <2>1 DEF TypeOK
    <3> QED BY <3>1 DEF WInv, BacklogWaits
  <2> HIDE DEF c
  <2>3. F \notin Live /\ fdtab'[F] = c
    BY <1>0, <2>1, ApibusAssumption DEF Live
  <2>4. \A G \in Live' : G = F \/ (G \in Live /\ fdtab'[G] = fdtab[G])
    BY <1>0, <2>1 DEF Live
  <2>5. \A G \in Live : G \in Live' /\ fdtab'[G] = fdtab[G]
    BY <1>0, <2>1, <2>3 DEF Live
  <2>6. \A d : Attached(d) => Attached(d)'
    BY <2>5 DEF Attached
  <2>7. rxbuf[F] = <<>> /\ Pending(F) = {}
    <3>1. \A i \in DOMAIN requests : requests[i].fd # F
      BY <2>3, BackedParts
    <3> QED BY <2>3, <3>1 DEF PInv, BackedBuffer, Pending
  <2>8. Accounted(F)' = Requests(chan[c])
    <3>1. Accounted(F)' = Requests(chan[c]) + Requests(rxbuf[F]) + Cardinality(Pending(F)) + told[c]
      BY <2>1, <2>3 DEF Accounted, Pending
    <3>2. Requests(rxbuf[F]) = 0 /\ Cardinality(Pending(F)) = 0 /\ told[c] = 0 /\ Requests(chan[c]) \in Nat
      BY <1>0, <1>1, <2>2, <2>7, RequestsNone, FS_EmptySet, CountTypes
    <3> QED BY <3>1, <3>2
  <2>9. ASSUME NEW G \in Live' PROVE Balanced(fdtab[G], Accounted(G))'
    <3>1. CASE G = F
      BY <1>1, <2>1, <2>2, <2>3, <2>8, <3>1 DEF Balanced
    <3>2. CASE G # F
      <4>1. G \in Live /\ fdtab'[G] = fdtab[G]
        BY <2>4, <3>2
      <4>2. Accounted(G)' = Accounted(G)
        BY <2>1, <4>1 DEF Accounted, Pending
      <4> QED BY <1>1, <2>1, <4>1, <4>2 DEF Balanced
    <3> QED BY <3>1, <3>2
  <2>10. ASSUME NEW d \in Conns, ~Attached(d)'
         PROVE  told'[d] = 0 /\ Balanced(d, Requests(chan[d]))'
    BY <1>1, <2>1, <2>6, <2>10 DEF Balanced
  <2> QED BY <2>9, <2>10 DEF AInv
<1>9. ASSUME NEW F \in FDs, Recv(F) PROVE AInv'
  <2> DEFINE c == fdtab[F]
  <2>1. /\ UNCHANGED <<peer, asked, fdtab, told, requests>> /\ F \in ready
        /\ rxbuf' = [rxbuf EXCEPT ![F] = rxbuf[F] \o chan[c]]
        /\ chan' = [chan EXCEPT ![c] = <<>>]
    BY <1>9 DEF Recv, Turn
  <2>2. F \in Live /\ c \in Conns
    BY <2>1, ApibusAssumption DEF WInv, ReadyReadable, Live
  <2>3. Live' = Live /\ (\A d : Attached(d)' <=> Attached(d)) /\ Attached(c)
    BY <2>1, <2>2 DEF Live, Attached
  <2>4. Accounted(F)' = Accounted(F)
    <3>1. chan'[c] = <<>> /\ rxbuf'[F] = rxbuf[F] \o chan[c]
      BY <1>0, <2>1, <2>2
    <3>2. rxbuf[F] \in Seq(Packet) /\ chan[c] \in Seq(Packet)
      BY <1>0, <2>2
    <3>3. /\ Requests(rxbuf'[F]) = Requests(rxbuf[F]) + Requests(chan[c]) /\ Requests(chan'[c]) = 0
          /\ Requests(rxbuf[F]) \in Nat /\ Requests(chan[c]) \in Nat
      BY <3>1, <3>2, RequestsJoin, RequestsNone
    <3>4. Cardinality(Pending(F)) \in Nat /\ told[c] \in Nat /\ Pending(F)' = Pending(F)
      BY <1>0, <2>1, <2>2, CountTypes DEF Pending
    <3>5. /\ Accounted(F) = Requests(chan[c]) + Requests(rxbuf[F]) + Cardinality(Pending(F)) + told[c]
          /\ Accounted(F)' = Requests(chan'[c]) + Requests(rxbuf'[F]) + Cardinality(Pending(F)) + told[c]
      BY <2>1, <3>4 DEF Accounted
    <3> QED BY <3>3, <3>4, <3>5
  <2>5. \A G \in Live : G # F => Accounted(G)' = Accounted(G)
    <3> SUFFICES ASSUME NEW G \in Live, G # F PROVE Accounted(G)' = Accounted(G)
      OBVIOUS
    <3>1. fdtab[G] # c /\ fdtab[G] \in Conns /\ G \in FDs
      BY <1>1, <2>2 DEF WInv, OneDescriptor, Live
    <3>2. chan'[fdtab[G]] = chan[fdtab[G]] /\ rxbuf'[G] = rxbuf[G]
      BY <1>0, <2>1, <3>1
    <3> QED BY <2>1, <3>2 DEF Accounted, Pending
  <2>6. \A d \in Conns : ~Attached(d) => chan'[d] = chan[d]
    BY <1>0, <2>1, <2>2, <2>3
  <2>7. ASSUME NEW G \in Live PROVE Balanced(fdtab[G], Accounted(G))'
    <3>1. Accounted(G)' = Accounted(G)
      BY <2>4, <2>5
    <3> QED BY <1>1, <2>1, <3>1 DEF Balanced
  <2>8. ASSUME NEW d \in Conns, ~Attached(d)
        PROVE  told'[d] = 0 /\ Balanced(d, Requests(chan[d]))'
    BY <1>1, <2>1, <2>6, <2>8 DEF Balanced
  <2> QED BY <2>3, <2>7, <2>8 DEF AInv
(* Only a peer that has closed loses what its buffer holds.                *)
<1>10. ASSUME NEW F \in FDs, Hangup(F) PROVE AInv'
  <2>1. /\ UNCHANGED <<peer, chan, asked, fdtab, told, requests>> /\ F \in ready
        /\ rxbuf' = [rxbuf EXCEPT ![F] = <<>>] /\ chan[fdtab[F]] = <<>>
    BY <1>10 DEF Hangup, Turn, sinkfd_destroy
  <2>2. F \in Live /\ peer[fdtab[F]] = "closed"
    BY <2>1, ApibusAssumption DEF WInv, ReadyReadable
  <2>3. ASSUME NEW G \in Live
        PROVE  Taken(G)' <= Taken(G) /\ (peer[fdtab[G]] # "closed" => Taken(G)' = Taken(G))
    <3> DEFINE x == Requests(rxbuf[G])
               y == Requests(rxbuf'[G])
               q == Cardinality(Pending(G))
               t == told[fdtab[G]]
    <3>1. x \in Nat /\ q \in Nat /\ t \in Nat
      BY <1>0, <1>1, CountTypes
    <3>2. Taken(G) = x + q + t /\ Taken(G)' = y + q + t
      BY <2>1 DEF Taken, Pending
    <3>3. CASE G = F
      <4>1. rxbuf'[G] = <<>>
        BY <1>0, <2>1, <3>3
      <4>2. y = 0
        BY <4>1, RequestsNone
      <4>3. Taken(G)' <= Taken(G)
        <5> HIDE DEF x, y, q, t
        <5> QED BY <3>1, <3>2, <4>2
      <4> QED BY <2>2, <3>3, <4>3
    <3>4. CASE G # F
      <4>1. y = x
        BY <1>0, <2>1, <3>4 DEF Live
      <4> HIDE DEF x, y, q, t
      <4> QED BY <3>1, <3>2, <4>1
    <3> QED BY <3>3, <3>4
  <2> QED BY <1>0, <2>1, <2>3, TakenKept
<1>11. ASSUME NEW F \in FDs, ParsePacket(F) PROVE AInv'
  <2> DEFINE p == Head(rxbuf[F])
             r == [pac |-> p, fd |-> F, state |-> "none", age |-> 0]
  <2>1. /\ UNCHANGED <<peer, chan, asked, fdtab, told>> /\ rxbuf[F] # <<>>
        /\ rxbuf' = [rxbuf EXCEPT ![F] = Tail(rxbuf[F])]
        /\ requests' = IF p.leader = ">" THEN Cons(r, requests) ELSE requests
    BY <1>11 DEF ParsePacket, Buffered
  <2>2. p \in Packet /\ r \in QueuedRequest /\ r.fd = F
    <3>1. p \in Packet
      BY <1>0, <2>1, SeqParts
    <3> QED BY <3>1 DEF QueuedRequest
  <2> HIDE DEF r
  <2>3. ASSUME NEW G \in Live PROVE Taken(G)' = Taken(G) /\ Taken(G) \in Nat
    <3> DEFINE x == Requests(rxbuf[G])
               y == Requests(rxbuf'[G])
               q == Cardinality(Pending(G))
               s == Cardinality(Pending(G)')
               t == told[fdtab[G]]
               n == IF G = F THEN One(p) ELSE 0
    <3>1. x \in Nat /\ q \in Nat /\ t \in Nat /\ One(p) \in Nat
      BY <1>0, <1>1, <2>2, CountTypes, RequestsOne
    <3>2. Taken(G) = x + q + t /\ Taken(G)' = y + s + t
      BY <2>1 DEF Taken
    <3>3. x = n + y /\ y \in Nat
      <4>1. CASE G = F
        <5>1. rxbuf'[G] = Tail(rxbuf[G]) /\ rxbuf[G] # <<>> /\ rxbuf[G] \in Seq(Packet)
          BY <1>0, <2>1, <4>1
        <5> QED BY <4>1, <5>1, RequestsParts
      <4>2. CASE G # F
        <5>1. rxbuf'[G] = rxbuf[G]
          BY <1>0, <2>1, <4>2 DEF Live
        <5> QED BY <3>1, <4>2, <5>1
      <4> QED BY <4>1, <4>2
    <3>4. s = q + n
      <4>1. CASE p.leader = ">"
        <5>1. s = q + (IF r.fd = G THEN 1 ELSE 0)
          BY <1>0, <2>1, <2>2, <4>1, PendingCons
        <5> QED BY <2>2, <4>1, <5>1 DEF One
      <4>2. CASE p.leader # ">"
        <5>1. Pending(G)' = Pending(G) /\ n = 0
          BY <2>1, <4>2 DEF Pending, One
        <5> QED BY <3>1, <5>1
      <4> QED BY <4>1, <4>2
    <3>5. n \in Nat
      BY <3>1
    <3> HIDE DEF x, y, q, s, t, n
    <3> QED BY <3>1, <3>2, <3>3, <3>4, <3>5
  <2> QED BY <1>0, <2>1, <2>3, TakenKept
<1>12. ASSUME NEW i \in DOMAIN requests, NEW k \in Answer, NEW p,
              apibus_send(requests[i].fd, k, p), api_request_delete(i), UNCHANGED <<peers, inputs>>
       PROVE  AInv'
  <2>1. /\ \A c \in Conns : ~Attached(c) => told'[c] = told[c]
        /\ \A F \in Live : Taken(F)' <= Taken(F)
                           /\ (peer[fdtab[F]] # "closed" => Taken(F)' = Taken(F))
    BY <1>12, AnswerTaken
  <2> QED BY <1>0, <1>12, <2>1, TakenKept
<1>13. CASE RequestTimeout
  <2>1. cur \in DOMAIN requests
    <3>1. AtRequest("wait")
      BY <1>13 DEF RequestTimeout
    <3> QED BY <1>0, <3>1, AtCurrent, Zenon
  <2>2. "timeout" \in Answer
    BY DEF Answer
  <2> QED BY <1>12, <1>13, <2>1, <2>2 DEF RequestTimeout
<1>14. CASE RequestNotFound
  <2>1. cur \in DOMAIN requests
    <3>1. AtRequest("none")
      BY <1>14 DEF RequestNotFound
    <3> QED BY <1>0, <3>1, AtCurrent, Zenon
  <2>2. "notfound" \in Answer
    BY DEF Answer
  <2> QED BY <1>12, <1>14, <2>1, <2>2 DEF RequestNotFound
<1>15. ASSUME NEW i \in DOMAIN requests, ResponseRelay(i) PROVE AInv'
  <2>1. "response" \in Answer
    BY DEF Answer
  <2> QED BY <1>12, <1>15, <2>1 DEF ResponseRelay, FinishResponse
<1>16. ASSUME NEW F, NEW k, NEW p, apibus_send(F, k, p), k \notin Answer PROVE UNCHANGED told
  <2> DEFINE m == [kind |-> k, pac |-> p]
  <2>1. SendAll({F}, m) /\ m.kind = k
    BY <1>16 DEF apibus_send
  <2> HIDE DEF m
  <2> QED BY <1>0, <1>16, <2>1, NoAnswer
<1>17. {"request", "subok", "unsubok", "publish"} \cap Answer = {}
  BY DEF Answer
<1>18. CASE RequestForward
  <2> DEFINE w == [requests[cur] EXCEPT !.state = "wait", !.age = 0]
  <2>1. cur \in DOMAIN requests
    <3>1. AtRequest("none")
      BY <1>18 DEF RequestForward
    <3> QED BY <1>0, <3>1, AtCurrent, Zenon
  <2>2. w.fd = requests[cur].fd
    <3>1. requests[cur] \in QueuedRequest
      BY <1>0, <2>1
    <3> QED BY <3>1 DEF QueuedRequest
  <2>3. requests' = [requests EXCEPT ![cur] = w] /\ UNCHANGED <<peers, inputs>>
    BY <1>18 DEF RequestForward
  <2>4. UNCHANGED told
    BY <1>16, <1>17, <1>18 DEF RequestForward
  <2> HIDE DEF w
  <2>5. DOMAIN requests' = DOMAIN requests /\ \A i \in DOMAIN requests : requests'[i].fd = requests[i].fd
    BY <1>0, <2>1, <2>2, <2>3
  <2> QED BY <1>2, <2>3, <2>4, <2>5
<1>19. CASE Subscribe \/ UnsubscribeUnknown \/ \E i \in DOMAIN topics : Unsubscribe(i)
  <2>1. UNCHANGED told
    BY <1>16, <1>17, <1>19 DEF Subscribe, UnsubscribeUnknown, Unsubscribe
  <2> QED BY <1>3, <1>19, <2>1 DEF Subscribe, UnsubscribeUnknown, Unsubscribe, FinishTopicMsg
<1>20. ASSUME NEW i \in DOMAIN topics, Publish(i) PROVE AInv'
  <2> DEFINE m == [kind |-> "publish", pac |-> Head(topic_msgs).pac]
             S == Range(topics[i].fds)
  <2>1. SendAll(S, m) /\ m.kind \notin Answer
    BY <1>17, <1>20 DEF Publish
  <2> HIDE DEF m, S
  <2>2. UNCHANGED told
    BY <1>0, <2>1, NoAnswer
  <2> QED BY <1>3, <1>20, <2>2 DEF Publish, FinishTopicMsg
<1>21. CASE Peers
  BY <1>4, <1>5, <1>6, <1>21 DEF Peers
<1>22. CASE Sinks
  BY <1>3, <1>8, <1>9, <1>10, <1>22 DEF Sinks, Select, AcceptFails, SinksDone
<1>23. CASE Handlers
  <2>1. CASE \/ ParseDone \/ RequestWaits \/ RequestsDone \/ ResponseUnmatched \/ ResponsesDone
             \/ SubscribeDies \/ PublishDropped \/ PollEnd
    BY <1>3, <2>1 DEF ParseDone, RequestWaits, RequestsDone, ResponseUnmatched, ResponsesDone,
                      SubscribeDies, PublishDropped, PollEnd, FinishResponse, FinishTopicMsg
  <2> QED BY <1>11, <1>13, <1>14, <1>15, <1>18, <1>19, <1>20, <1>23, <2>1 DEF Handlers
<1>24. CASE UNCHANGED vars
  BY <1>3, <1>24 DEF vars
<1> QED BY <1>7, <1>21, <1>22, <1>23, <1>24 DEF Next, apibus_poll

-----------------------------------------------------------------------------

(* A station's registration stays with its connection until it has been    *)
(* silent for APIBUS_STATION_ALIVE_TIMEOUT, whoever else uses its id.      *)
THEOREM StationsHeld == Spec => StationHeld
<1>1. Init => TInv
  BY InitTInv
<1>2. TInv /\ [Next]_vars => TInv'
  BY NextTInv
<1>3. TInv /\ [Next]_vars => [Held]_vars
  BY NextHeld
<1>4. [][Held]_vars => StationHeld
  BY PTL DEF StationHeld, Held
<1> QED BY <1>1, <1>2, <1>3, <1>4, PTL DEF Spec

(* Deleting requests while walking the list skips none: all that is left   *)
(* when handle_response() begins has been passed on to a station.          *)
THEOREM NoRequestSkipped == Spec => []AllForwarded
<1>1. Init => TInv /\ AllForwarded
  BY InitTInv DEF Init, AllForwarded
<1>2. TInv /\ [Next]_vars => TInv'
  BY NextTInv
<1>3. TInv /\ AllForwarded /\ [Next]_vars => AllForwarded'
  BY NextAllForwarded
<1> QED BY <1>1, <1>2, <1>3, PTL DEF Spec

(* No request is lost or answered twice, however many connections share    *)
(* the bus and whatever they send: a request leaves bus->requests with     *)
(* exactly one message to the connection that sent it.                     *)
THEOREM RequestsAnsweredOnce == Spec => []AnsweredOnce
<1>1. Init => PInv /\ WInv /\ AInv
  <2> SUFFICES ASSUME Init PROVE PInv /\ WInv /\ AInv
    OBVIOUS
  <2>1. Live = {} /\ \A c : ~Attached(c)
    BY ApibusAssumption DEF Init, Live, Attached
  <2>2. WInv
    BY <2>1 DEF Init, WInv, OneDescriptor, BacklogWaits, NewNowhere, OpenListed, ReadyReadable, Range
  <2>3. AInv
    BY <2>1, RequestsNone DEF Init, AInv, Balanced
  <2> QED BY <2>2, <2>3, InitPInv
<1>2. PInv /\ WInv /\ AInv /\ [Next]_vars => (PInv /\ WInv /\ AInv)'
  BY NextPInv, NextWInv, NextAInv DEF PInv
<1>3. PInv /\ AInv => AnsweredOnce
  <2> SUFFICES ASSUME PInv, AInv, NEW F \in FDs, fdtab[F] # None
               PROVE  Balanced(fdtab[F], Accounted(F))
    BY DEF AnsweredOnce, Balanced
  <2>1. F \in Live
    BY DEF PInv, TInv, TypeOK, Live
  <2> QED BY <2>1 DEF AInv
<1> QED BY <1>1, <1>2, <1>3, PTL DEF Spec
=============================================================================
