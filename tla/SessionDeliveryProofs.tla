------------------------ MODULE SessionDeliveryProofs ------------------------
(***************************************************************************)
(* Theorems about the messages that the server delivers: which of them the *)
(* application is given, how often, and what the server is told of it.     *)
(***************************************************************************)
EXTENDS SessionProofs

-----------------------------------------------------------------------------
(* The way of a message *)

AckPkts     == {p \in Packets : p.type \in {"PUBACK", "PUBREC"} /\ p.obj = None}
PublishPkts == {p \in Packets : p.type = "PUBLISH"}

AckType(d)   == IF d \in In1 THEN "PUBACK" ELSE "PUBREC"
AckOf(d)     == Pkt(AckType(d), bid[d], None)
PublishOf(d) == Pkt("PUBLISH", bid[d], d)

\* What handling d takes, and what is left of it once d is in recvCh
Full(d) == <<Deliver(d), SendPkt(AckType(d), bid[d]), StoreRecv(bid[d], "PUBLISH")>>
Rest(d) == <<SendPkt(AckType(d), bid[d]), StoreRecv(bid[d], "PUBLISH")>>

\* The server waits for the answer to d, and will not send it again.
Waits(d) == d \in In1 \cup In2 /\ bpc[d] = "sent" /\ d \notin bResend

\* d is in the stream to the client.
Streamed(d) == PublishOf(d) \in Elems(toClient)

\* The server does not use an identifier for two messages at a time.
NumbersOK ==
    /\ \A d, e \in In1 \cup In2 :
          bpc[d] \in {"sent", "rel"} /\ bpc[e] \in {"sent", "rel"} /\ bid[d] = bid[e] => d = e
    /\ \A d \in Deliveries : bpc[d] = "rel" => d \in In2

\* A message is in the stream, once, ...
InboundOK ==
    /\ NoDup(toClient, PublishPkts)
    /\ \A p \in Elems(toClient) : p.type = "PUBLISH" => p = PublishOf(p.obj)
    /\ \A d \in Deliveries : Streamed(d) =>
          /\ bpc[d] \notin {"unused", "new"} /\ Deliver(d) \notin Elems(todo)
          /\ d \notin In0 => Waits(d) /\ AckOf(d) \notin Outgoing /\ todo # Rest(d)

\* No message is left to be given to the application or to be answered.
NoneHanded ==
    \A o \in Elems(todo) : o.op # "deliver" /\ ~(o.op = "send" /\ o.pkt \in {"PUBACK", "PUBREC"})

\* ... or logic() has it ...
HandedOK ==
    \/ NoneHanded
    \/ \E d \in In0 : bpc[d] \notin {"unused", "new"} /\ todo = <<Deliver(d)>>
    \/ \E d \in In1 \cup In2 :
          /\ Waits(d) /\ AckOf(d) \notin Outgoing
          /\ todo = Full(d) \/ (todo = Rest(d) /\ Given(d) > 0)

\* ... or it is given to the application and its answer is under way, ...
AcksOK ==
    \A p \in Outgoing : p \in AckPkts =>
        \E d \in In1 \cup In2 : p = AckOf(d) /\ Waits(d) /\ Given(d) > 0

\* ... once.
AcksOnce ==
    /\ NoDup(logicSendC, AckPkts) /\ NoDup(wbuf, AckPkts) /\ NoDup(toServer, AckPkts)
    /\ \A p \in AckPkts : /\ p \in Elems(logicSendC) => p \notin Elems(wbuf) \cup Elems(toServer)
                          /\ p \in Elems(wbuf) => p \notin Elems(toServer)

\* d may still be given to the application on this connection.
Coming(d) == bpc[d] = "new" \/ d \in bResend \/ Deliver(d) \in Elems(todo) \/ Streamed(d)

\* How often d was given, or may still be
GivenOK ==
    \A d \in Deliveries :
        Given(d) + (IF Coming(d) THEN 1 ELSE 0) <= losses + (IF conn = "up" THEN 1 ELSE 0)

-----------------------------------------------------------------------------
(* What the names mean *)

LEMMA InTypes ==
    /\ Deliveries = In0 \cup In1 \cup In2 /\ In0 \cap (In1 \cup In2) = {} /\ In1 \cap In2 = {}
    /\ \A d : AckType(d) \in {"PUBACK", "PUBREC"}
BY PacketsAssumption DEF Deliveries, AckType

LEMMA DeliveryPkts ==
    ASSUME Typed, NEW d \in Deliveries
    PROVE  /\ AckOf(d) \in AckPkts /\ AckOf(d).type = AckType(d) /\ AckOf(d).id = bid[d] /\ AckOf(d).obj = None
           /\ PublishOf(d) \in PublishPkts \cap InPkts /\ PublishOf(d).type = "PUBLISH"
           /\ PublishOf(d).id = bid[d] /\ PublishOf(d).obj = d
<1>1. bid[d] \in IDs \cup {0} /\ AckType(d) \in Types /\ "PUBLISH" \in Types
  BY InTypes DEF Typed, TypeOK, Types
<1> QED BY <1>1, PktTyped, InTypes DEF AckOf, AckPkts, PublishOf, PublishPkts, InPkts

LEMMA NamesStay ==
    ASSUME NEW d, bid'[d] = bid[d]
    PROVE  AckOf(d)' = AckOf(d) /\ PublishOf(d)' = PublishOf(d) /\ Full(d)' = Full(d) /\ Rest(d)' = Rest(d)
BY DEF AckOf, AckType, PublishOf, Full, Rest, Pkt, Deliver, SendPkt, StoreRecv, Op

LEMMA HandedHeads ==
    ASSUME NEW d
    PROVE  /\ Full(d) # <<>> /\ Head(Full(d)).op = "deliver" /\ Head(Full(d)).obj = d /\ Tail(Full(d)) = Rest(d)
           /\ Elems(Full(d)) = {Deliver(d), SendPkt(AckType(d), bid[d]), StoreRecv(bid[d], "PUBLISH")}
           /\ Rest(d) # <<>> /\ Head(Rest(d)).op = "send" /\ Head(Rest(d)).pkt = AckType(d) /\ Head(Rest(d)).id = bid[d]
           /\ Tail(Rest(d)) = <<StoreRecv(bid[d], "PUBLISH")>>
           /\ Elems(Rest(d)) = {SendPkt(AckType(d), bid[d]), StoreRecv(bid[d], "PUBLISH")}
BY Elems3, OpFields DEF Full, Rest

LEMMA SameAck ==
    ASSUME Typed, NumbersOK, NEW d \in In1 \cup In2, NEW e \in In1 \cup In2, Waits(d), bpc[e] = "sent",
           AckOf(d) = AckOf(e) \/ Rest(d) = Rest(e)
    PROVE  d = e
<1>1. bid[d] = bid[e]
  <2>1. CASE AckOf(d) = AckOf(e)
    BY <2>1, DeliveryPkts, InTypes
  <2>2. CASE Rest(d) = Rest(e)
    BY <2>2, HandedHeads
  <2> QED BY <2>1, <2>2
<1> QED BY <1>1 DEF NumbersOK, Waits

-----------------------------------------------------------------------------
(* How often a message is given to the application *)

LEMMA GivenType ==
    ASSUME Typed, NEW d \in Deliveries
    PROVE  Given(d) \in Nat
<1>1. recvCh \in Seq(Deliveries) /\ dispatched[d] \in Nat
  BY DEF Typed, TypeOK
<1>2. Times(d, recvCh) \in Nat
  BY <1>1, TimesType
<1> QED BY <1>1, <1>2 DEF Given

LEMMA GivenStep ==
    ASSUME Typed, [Next]_vars, NEW d \in Deliveries
    PROVE  \/ Given(d)' = Given(d)
           \/ LogicDeliver /\ Head(todo).obj = d /\ Given(d)' = Given(d) + 1
<1> USE DEF appVars
<1>0. recvCh \in Seq(Deliveries) /\ dispatched \in [Deliveries -> Nat] /\ todo \in Seq(LogicOps)
  BY DEF Typed, TypeOK
<1>a. Times(d, recvCh) \in Nat /\ dispatched[d] \in Nat /\ Given(d) \in Nat
  BY <1>0, TimesType, GivenType
<1>1. CASE LogicDeliver
  <2>0. PICK x : x = Head(todo).obj
    OBVIOUS
  <2>1. x \in Deliveries
    BY <1>0, <1>1, <2>0, ElemsTail DEF LogicDeliver, LogicDo, LogicOps
  <2>2. recvCh' = Append(recvCh, x) /\ dispatched' = dispatched
    BY <1>1, <2>0 DEF LogicDeliver
  <2>3. Times(d, recvCh') = Times(d, recvCh) + (IF x = d THEN 1 ELSE 0)
    BY <1>0, <2>1, <2>2, TimesAppend
  <2>4. Given(d)' = Given(d) + (IF x = d THEN 1 ELSE 0)
    BY <1>a, <2>2, <2>3 DEF Given
  <2> QED BY <1>1, <1>a, <2>0, <2>4
<1>2. CASE HandleTopicMsg
  <2>0. PICK x : x = Head(recvCh)
    OBVIOUS
  <2>1. /\ recvCh # <<>> /\ recvCh' = Tail(recvCh) /\ x \in Deliveries
        /\ dispatched' = [dispatched EXCEPT ![x] = @ + 1]
    BY <1>0, <1>2, <2>0, ElemsTail DEF HandleTopicMsg
  <2>2. Times(d, recvCh) = Times(d, recvCh') + (IF x = d THEN 1 ELSE 0)
    BY <1>0, <2>0, <2>1, TimesTail
  <2>3. Times(d, recvCh') \in Nat
    BY <1>0, <2>1, ElemsTail, TimesType
  <2>4. dispatched'[d] = dispatched[d] + (IF x = d THEN 1 ELSE 0)
    BY <1>0, <2>1
  <2> QED BY <1>a, <2>2, <2>3, <2>4 DEF Given
<1>3. ASSUME UNCHANGED <<recvCh, dispatched>>
      PROVE  Given(d)' = Given(d)
  BY <1>3 DEF Given
<1>4. CASE HsTakeSend \/ HsTakeLogic \/ HsFlush \/ HsStop \/ HsNotify \/ HsStore \/ HsDelete
  BY <1>3, <1>4 DEF HsTakeSend, HsTakeLogic, HsFlush, HsStop, HsNotify, HsStore, HsDelete
<1>5. CASE LogicRecv \/ LogicNotify \/ LogicFree \/ LogicDelete \/ LogicStore \/ LogicSend \/ LogicExit
  BY <1>3, <1>5 DEF LogicRecv, LogicNotify, LogicFree, LogicDelete, LogicStore, LogicSend, LogicExit
<1>6. CASE HandleMsg \/ NetBreak \/ NetRecvExit \/ Reconnect \/ ServerAnswer \/ ServerPublish \/ Quietly
  BY <1>3, <1>6 DEF HandleMsg, NetBreak, NetRecvExit, Reconnect, ServerAnswer, ServerPublish, Quietly, vars
<1>7. ASSUME NEW s \in Reqs, CallNext(s) \/ CallStore(s) \/ CallSend(s)
      PROVE  Given(d)' = Given(d)
  BY <1>3, <1>7 DEF CallNext, CallStore, CallSend
<1> QED BY <1>1, <1>2, <1>4, <1>5, <1>6, <1>7, Steps

LEMMA GivenBy ==
    ASSUME Typed, LogicDeliver, NEW d \in Deliveries, Head(todo).obj = d
    PROVE  Given(d)' = Given(d) + 1
<1>1. recvCh \in Seq(Deliveries) /\ dispatched[d] \in Nat /\ Times(d, recvCh) \in Nat
  BY TimesType DEF Typed, TypeOK
<1>2. recvCh' = Append(recvCh, d) /\ dispatched' = dispatched
  BY DEF LogicDeliver, appVars
<1>3. Times(d, recvCh') = Times(d, recvCh) + 1
  BY <1>1, <1>2, TimesAppend
<1> QED BY <1>1, <1>2, <1>3 DEF Given

LEMMA GivenStays ==
    ASSUME Typed, [Next]_vars, NEW d \in Deliveries, Given(d) > 0
    PROVE  Given(d)' > 0
BY GivenStep, GivenType

-----------------------------------------------------------------------------
(* The server waits for one answer to a message *)

LEMMA NextNumbers ==
    ASSUME Typed, UsedOK, NumbersOK, [Next]_vars
    PROVE  NumbersOK'
<1>0. bid \in [Deliveries -> IDs \cup {0}] /\ bpc \in [Deliveries -> {"unused", "new", "sent", "rel", "done"}]
  BY DEF Typed, TypeOK
<1>1. CASE BrokerRecv
  <2>0. PICK p : p = Head(toServer)
    OBVIOUS
  <2>1. /\ bid' = bid
        /\ \A d \in Deliveries : bpc'[d] = bpc[d] \/ (d \in In1 /\ bpc'[d] = "done")
               \/ (d \in In2 /\ bpc[d] \in {"sent", "rel"} /\ bpc'[d] \in {"rel", "done"})
    BY <1>1, <2>0 DEF BrokerRecv, Acked
  <2> QED BY <2>1, InTypes DEF NumbersOK
<1>2. ASSUME NEW d \in Deliveries, NEW i \in IDs \cup {0}, BrokerPublish(d, i)
      PROVE  NumbersOK'
  <2>1. /\ bpc' = [bpc EXCEPT ![d] = IF d \in In0 THEN "done" ELSE "sent"] /\ bid' = [bid EXCEPT ![d] = i]
        /\ d \notin In0 => \A e \in Deliveries : bpc[e] \in {"sent", "rel"} => bid[e] # i
    BY <1>2 DEF BrokerPublish
  <2> QED BY <1>0, <2>1, InTypes DEF NumbersOK
<1>3. CASE UNCHANGED <<bpc, bid>>
  BY <1>3 DEF NumbersOK
<1>4. CASE BrokerNewConnection \/ \E e \in Deliveries : BrokerResend(e)
  BY <1>3, <1>4 DEF BrokerNewConnection, BrokerResend
<1> QED BY <1>1, <1>2, <1>3, <1>4, BrokerFrame

\* The packet that acknowledges d is the answer to d.
LEMMA AckedByAck ==
    ASSUME Typed, IdsOK, PipeOK, NEW p \in Elems(toServer), NEW d \in Acked(p), bpc[d] = "sent"
    PROVE  d \in In1 \cup In2 /\ p = AckOf(d) /\ p \in AckPkts
<1>1. p \in Packets
  BY ElemsType DEF Typed, TypeOK
<1>2. d \in In1 \cup In2 /\ p.id = bid[d] /\ p.type = AckType(d)
  BY InTypes DEF Acked, AckType
<1>3. p.obj = None
  BY <1>2, InTypes, RequestFields DEF PipeOK, IsAck
<1>4. p = Pkt(p.type, p.id, p.obj)
  BY <1>1 DEF Packets, Pkt
<1> QED BY <1>1, <1>2, <1>3, <1>4, InTypes DEF AckOf, AckPkts

\* Until its answer is taken, or there is a new connection, the server waits.
LEMMA WaitsStays ==
    ASSUME Typed, IdsOK, PipeOK, UsedOK, AcksOnce, [Next]_vars, ~Reconnect, NEW d \in In1 \cup In2, Waits(d),
           AckOf(d) \notin Outgoing \/ AckOf(d) \in Outgoing'
    PROVE  Waits(d)' /\ bid'[d] = bid[d]
<1>0. /\ bid \in [Deliveries -> IDs \cup {0}] /\ bpc \in [Deliveries -> {"unused", "new", "sent", "rel", "done"}]
      /\ d \in Deliveries /\ toServer \in Seq(Packets)
  BY ReqTypes DEF Typed, TypeOK
<1>1. CASE ServerAnswer /\ BrokerRecv
  <2>0. PICK p : p = Head(toServer)
    OBVIOUS
  <2>1. /\ UNCHANGED <<bid, bResend, wbuf, logicSendC>> /\ toServer # <<>> /\ toServer' = Tail(toServer)
        /\ d \notin Acked(p) => bpc'[d] = bpc[d]
    BY <1>0, <1>1, <2>0 DEF ServerAnswer, BrokerRecv, hsVars
  <2>2. p \in Elems(toServer) /\ Elems(toServer') \subseteq Elems(toServer) /\ (p \in AckPkts => p \notin Elems(toServer'))
    BY <1>0, <2>0, <2>1, ElemsTail, NoDupTail DEF AcksOnce
  <2>3. ASSUME d \in Acked(p)
        PROVE  FALSE
    <3>1. p = AckOf(d) /\ p \in AckPkts
      BY <2>2, <2>3, AckedByAck DEF Waits
    <3>2. p \in Outgoing /\ p \notin Outgoing'
      BY <2>1, <2>2, <3>1 DEF Outgoing, AcksOnce
    <3> QED BY <3>1, <3>2
  <2> QED BY <2>1, <2>3 DEF Waits
<1>2. ASSUME NEW e \in Deliveries, BrokerResend(e)
      PROVE  Waits(d)' /\ bid'[d] = bid[d]
  BY <1>2 DEF BrokerResend, Waits
<1>3. ASSUME NEW e \in Deliveries, NEW i \in IDs \cup {0}, BrokerPublish(e, i)
      PROVE  Waits(d)' /\ bid'[d] = bid[d]
  BY <1>0, <1>3 DEF BrokerPublish, Waits
<1>4. CASE UNCHANGED <<bpc, bid, bResend>>
  BY <1>4 DEF Waits
<1> QED BY <1>1, <1>2, <1>3, <1>4, BrokerFrame

-----------------------------------------------------------------------------
(* A message in the stream *)

LEMMA StreamedOne ==
    ASSUME InboundOK, NEW q \in Elems(toClient), q.type = "PUBLISH"
    PROVE  Streamed(q.obj) /\ q = PublishOf(q.obj)
BY DEF InboundOK, Streamed

\* A message comes into the stream when the server sends it.
LEMMA StreamFrom ==
    ASSUME Typed, InboundOK, [Next]_vars, NEW q \in Elems(toClient'), q.type = "PUBLISH"
    PROVE  \/ q \in Elems(toClient)
           \/ \E d \in Deliveries : BrokerResend(d) /\ ServerAnswer /\ bpc[d] = "sent" /\ q = PublishOf(d)
           \/ \E d \in Deliveries, i \in IDs \cup {0} :
                 BrokerPublish(d, i) /\ ServerPublish /\ q = Pkt("PUBLISH", i, d)
<1>0. /\ toClient \in Seq(InPkts) /\ toServer \in Seq(Packets) /\ bid \in [Deliveries -> IDs \cup {0}]
      /\ "PUBLISH" \in Types /\ "PUBREL" \in Types
  BY DEF Typed, TypeOK, Types
<1>1. CASE ServerAnswer /\ BrokerRecv
  <2>0. PICK p : p = Head(toServer)
    OBVIOUS
  <2>1. p \in Packets /\ toClient' = toClient \o Answer(p)
    BY <1>0, <1>1, <2>0, ElemsTail DEF BrokerRecv
  <2>2. Elems(toClient') = Elems(toClient) \cup Elems(Answer(p))
    BY <1>0, <2>1, AnswerTyped, ElemsConcat
  <2> QED BY <2>1, <2>2, AnswerTyped
<1>2. ASSUME NEW d \in Deliveries, BrokerResend(d), ServerAnswer
      PROVE  q \in Elems(toClient) \/ (bpc[d] = "sent" /\ q = PublishOf(d))
  <2>0. PICK e : e = IF bpc[d] = "sent" THEN Pkt("PUBLISH", bid[d], d) ELSE Pkt("PUBREL", bid[d], None)
    OBVIOUS
  <2>1. toClient' = Append(toClient, e)
    BY <1>2, <2>0 DEF BrokerResend
  <2>2. e \in InPkts /\ (bpc[d] # "sent" => e.type = "PUBREL")
    <3>1. CASE bpc[d] = "sent"
      BY <2>0, <3>1, DeliveryPkts DEF PublishOf
    <3>2. CASE bpc[d] # "sent"
      <4>1. e = Pkt("PUBREL", bid[d], None)
        BY <2>0, <3>2
      <4>2. e \in Packets /\ e.type = "PUBREL"
        BY <1>0, <4>1 DEF Pkt, Packets
      <4> QED BY <4>2 DEF InPkts, AckTypes
    <3> QED BY <3>1, <3>2
  <2>3. q = e \/ q \in Elems(toClient)
    BY <1>0, <2>1, <2>2, ElemsAppend
  <2> QED BY <2>0, <2>2, <2>3 DEF PublishOf
<1>3. ASSUME NEW d \in Deliveries, NEW i \in IDs \cup {0}, BrokerPublish(d, i), ServerPublish
      PROVE  q \in Elems(toClient) \/ q = Pkt("PUBLISH", i, d)
  <2>0. PICK e : e = Pkt("PUBLISH", i, d)
    OBVIOUS
  <2>1. toClient' = Append(toClient, e) /\ e \in InPkts
    <3>1. e \in Packets /\ e.type = "PUBLISH" /\ e.obj = d
      BY <1>0, <2>0 DEF Pkt, Packets
    <3> QED BY <1>3, <2>0, <3>1 DEF BrokerPublish, InPkts
  <2> QED BY <1>0, <2>0, <2>1, ElemsAppend
<1>4. CASE Elems(toClient') \subseteq Elems(toClient)
  BY <1>4
<1> QED BY <1>1, <1>2, <1>3, <1>4, ToClientFrom

LEMMA ComesIntoStream ==
    ASSUME Typed, InboundOK, [Next]_vars, NEW d \in Deliveries, Streamed(d)'
    PROVE  \/ Streamed(d)
           \/ BrokerResend(d) /\ ServerAnswer /\ bpc[d] = "sent"
           \/ \E i \in IDs \cup {0} : BrokerPublish(d, i) /\ ServerPublish
<1>1. PICK q : q = PublishOf(d)'
  OBVIOUS
<1>2. q \in Elems(toClient') /\ q.type = "PUBLISH" /\ q.obj = d
  BY <1>1 DEF Streamed, PublishOf, Pkt
<1>3. CASE q \in Elems(toClient)
  BY <1>2, <1>3, StreamedOne
<1>4. ASSUME NEW e \in Deliveries, BrokerResend(e), ServerAnswer, bpc[e] = "sent", q = PublishOf(e)
      PROVE  e = d
  BY <1>2, <1>4, DeliveryPkts
<1>5. ASSUME NEW e \in Deliveries, NEW i \in IDs \cup {0}, q = Pkt("PUBLISH", i, e)
      PROVE  e = d
  BY <1>2, <1>5 DEF Pkt
<1> QED BY <1>2, <1>3, <1>4, <1>5, StreamFrom

\* What the server sends again or for the first time is nowhere else.
LEMMA NotYet ==
    ASSUME Typed, UsedOK, NumbersOK, InboundOK, HandedOK, AcksOK, NEW d \in Deliveries,
           bpc[d] = "new" \/ (d \in bResend /\ bpc[d] = "sent")
    PROVE  /\ ~Streamed(d) /\ Deliver(d) \notin Elems(todo) /\ ~Waits(d)
           /\ bpc[d] = "sent" => AckOf(d) \notin Outgoing /\ todo # Rest(d)
<1>1. ~Waits(d) /\ (bpc[d] = "sent" => d \in In1 \cup In2)
  BY DEF Waits, UsedOK
<1>2. ~Streamed(d)
  BY <1>1, InTypes DEF InboundOK, UsedOK
<1>3. AckOf(d) \notin Outgoing \/ bpc[d] # "sent"
  <2> SUFFICES ASSUME AckOf(d) \in Outgoing, bpc[d] = "sent"
               PROVE  FALSE
    OBVIOUS
  <2>1. PICK e \in In1 \cup In2 : AckOf(d) = AckOf(e) /\ Waits(e)
    BY DeliveryPkts DEF AcksOK
  <2> QED BY <1>1, <2>1, SameAck
<1>4. Deliver(d) \notin Elems(todo) /\ (bpc[d] = "sent" => todo # Rest(d))
  <2>a. \A e, t, i : /\ Deliver(d).op = "deliver" /\ SendPkt(t, i).op = "send" /\ StoreRecv(i, t).op = "storeRecv"
                     /\ Deliver(e).op = "deliver" /\ Deliver(e).obj = e /\ Deliver(d).obj = d /\ SendPkt(t, i).pkt = t
    BY OpFields
  <2>1. CASE NoneHanded
    <3>1. Deliver(d) \notin Elems(todo)
      BY <2>1, <2>a DEF NoneHanded
    <3>2. todo # Rest(d)
      BY <2>1, <2>a, HandedHeads, InTypes DEF NoneHanded
    <3> QED BY <3>1, <3>2
  <2>2. ASSUME NEW e \in In0, bpc[e] \notin {"unused", "new"}, todo = <<Deliver(e)>>
        PROVE  Deliver(d) \notin Elems(todo) /\ todo # Rest(d)
    <3>1. e # d
      BY <2>2, InTypes, <1>1
    <3>2. Elems(todo) = {Deliver(e)} /\ Head(todo) = Deliver(e)
      BY <2>2, Elems3
    <3> QED BY <2>a, <3>1, <3>2, HandedHeads
  <2>3. ASSUME NEW e \in In1 \cup In2, Waits(e), todo = Full(e) \/ todo = Rest(e)
        PROVE  Deliver(d) \notin Elems(todo) /\ (bpc[d] = "sent" => todo # Rest(d))
    <3>1. e # d
      BY <1>1, <2>3
    <3>2. Deliver(d) \notin Elems(todo)
      <4>1. Elems(todo) \subseteq {Deliver(e), SendPkt(AckType(e), bid[e]), StoreRecv(bid[e], "PUBLISH")}
        BY <2>3, HandedHeads
      <4>2. Deliver(d) \notin {Deliver(e), SendPkt(AckType(e), bid[e]), StoreRecv(bid[e], "PUBLISH")}
        BY <3>1, OpFields
      <4> QED BY <4>1, <4>2
    <3>3. ASSUME bpc[d] = "sent", todo = Rest(d)
          PROVE  FALSE
      <4>1. todo = Rest(e)
        BY <2>3, <3>3, HandedHeads
      <4> QED BY <1>1, <2>3, <3>1, <3>3, <4>1, SameAck
    <3> QED BY <3>2, <3>3
  <2> QED BY <2>1, <2>2, <2>3 DEF HandedOK
<1> QED BY <1>1, <1>2, <1>3, <1>4

\* A message that is handled came from the stream.
LEMMA HandlesStreamed ==
    ASSUME Typed, InboundOK, LogicRecv
    PROVE  \/ NoneHanded'
           \/ \E d \in Deliveries :
                 /\ Streamed(d) /\ PublishOf(d) \notin Elems(toClient')
                 /\ \/ d \in In0 /\ todo' = <<Deliver(d)>>
                    \/ d \in In1 \cup In2 /\ todo' = Full(d)
<1>0. toClient \in Seq(InPkts)
  BY DEF Typed
<1>1. PICK p : p = Head(toClient)
  OBVIOUS
<1>2. p \in InPkts /\ p \in Elems(toClient) /\ todo' = Handler(p) /\ toClient # <<>> /\ toClient' = Tail(toClient)
  BY <1>0, <1>1, ElemsTail DEF LogicRecv
<1>3. CASE p.type = "PUBLISH"
  <2>1. p.obj \in Deliveries /\ Streamed(p.obj) /\ p = PublishOf(p.obj)
    BY <1>2, <1>3, StreamedOne DEF InPkts
  <2>2. p.id = bid[p.obj] /\ p \in PublishPkts
    BY <2>1, DeliveryPkts
  <2>3. p \notin Elems(toClient')
    BY <1>0, <1>1, <1>2, <2>2, NoDupTail DEF InboundOK
  <2>4. Handler(p) = OnPublish(p.obj, p.id)
    BY <1>3 DEF Handler
  <2>5. \/ p.obj \in In0 /\ todo' = <<Deliver(p.obj)>>
        \/ p.obj \in In1 \cup In2 /\ todo' = Full(p.obj)
    BY <1>2, <2>1, <2>2, <2>4, InTypes DEF OnPublish, Full, AckType
  <2> QED BY <2>1, <2>3, <2>5
<1>4. CASE p.type # "PUBLISH"
  <2>1. \A o \in Elems(Handler(p)) : o.op = "send" => o.pkt \notin {"PUBACK", "PUBREC"}
    BY <1>2, <1>4, HandlerReleases
  <2>a. \A x, t : /\ Notify(x).op # "deliver" /\ FreeID(x).op # "deliver" /\ DeleteSent(x).op # "deliver"
                  /\ SendPkt(t, x).op # "deliver" /\ StoreRecv(x, t).op # "deliver"
    BY OpFields
  <2>2. \A o \in Elems(Handler(p)) : o.op # "deliver"
    <3>1. ASSUME NEW x, NEW y
          PROVE  /\ \A o \in Elems(<<Notify(x), FreeID(y), DeleteSent(y)>>) : o.op # "deliver"
                 /\ \A o \in Elems(<<SendPkt("PUBREL", y), Notify(x), FreeID(y), DeleteSent(y)>>) : o.op # "deliver"
      BY <2>a, Elems3
    <3>2. ASSUME NEW y
          PROVE  /\ \A o \in Elems(<<SendPkt("PUBREL", y)>>) : o.op # "deliver"
                 /\ \A o \in Elems(<<SendPkt("PUBCOMP", y), StoreRecv(y, "PUBREL")>>) : o.op # "deliver"
      BY <2>a, Elems3
    <3>3. \A o \in Elems(<<>>) : o.op # "deliver"
      BY ElemsEmpty
    <3>4. \/ Handler(p) = <<>>
          \/ \E x : Handler(p) = <<Notify(x), FreeID(p.id), DeleteSent(p.id)>>
          \/ \E x : Handler(p) = <<SendPkt("PUBREL", p.id), Notify(x), FreeID(p.id), DeleteSent(p.id)>>
          \/ Handler(p) = <<SendPkt("PUBREL", p.id)>>
          \/ Handler(p) = <<SendPkt("PUBCOMP", p.id), StoreRecv(p.id, "PUBREL")>>
      BY <1>2, <1>4, HandlerShape
    <3> QED BY <3>1, <3>2, <3>3, <3>4
  <2> QED BY <1>2, <2>1, <2>2 DEF NoneHanded
<1> QED BY <1>3, <1>4

-----------------------------------------------------------------------------
(* The answer to a message *)

\* logic() sends an answer only after it has given the message away.
LEMMA SendsAck ==
    ASSUME Typed, HandedOK, LogicSend, NEW e, e = Pkt(Head(todo).pkt, Head(todo).id, None)
    PROVE  /\ e \in Packets /\ Outgoing' \subseteq Outgoing \cup {e}
           /\ UNCHANGED <<wbuf, toServer>> /\ (logicSendC' = Append(logicSendC, e) \/ UNCHANGED logicSendC)
           /\ e \in AckPkts => \E d \in In1 \cup In2 :
                 e = AckOf(d) /\ Waits(d) /\ AckOf(d) \notin Outgoing /\ todo = Rest(d) /\ Given(d) > 0
<1>0. logicSendC \in Seq(Packets) /\ todo \in Seq(LogicOps)
  BY DEF Typed, TypeOK
<1>1. /\ todo # <<>> /\ Head(todo).op = "send" /\ UNCHANGED <<wbuf, toServer>>
      /\ logicSendC' = Append(logicSendC, e) \/ UNCHANGED logicSendC
  BY DEF LogicSend, LogicDo, hsVars, netVars
<1>2. Head(todo) \in LogicOps /\ Head(todo) \in Elems(todo)
  BY <1>0, <1>1, ElemsTail
<1>3. Head(todo).pkt \in Types /\ Head(todo).id \in IDs \cup {0}
  BY <1>1, <1>2 DEF LogicOps, Ops, AckTypes, Types
<1>4. e \in Packets /\ e.type = Head(todo).pkt
  BY <1>3 DEF Pkt, Packets
<1>5. Outgoing' \subseteq Outgoing \cup {e}
  BY <1>0, <1>1, <1>4, ElemsAppend, ZenonT(60) DEF Outgoing
<1>6. ASSUME e \in AckPkts
      PROVE  \E d \in In1 \cup In2 :
                e = AckOf(d) /\ Waits(d) /\ AckOf(d) \notin Outgoing /\ todo = Rest(d) /\ Given(d) > 0
  <2>1. ~NoneHanded
    BY <1>1, <1>2, <1>4, <1>6 DEF NoneHanded, AckPkts
  <2>2. \A d : todo # <<Deliver(d)>>
    BY <1>1, Elems3, OpFields
  <2>3. \A d : todo # Full(d)
    BY <1>1, HandedHeads
  <2>4. PICK d \in In1 \cup In2 : Waits(d) /\ AckOf(d) \notin Outgoing /\ todo = Rest(d) /\ Given(d) > 0
    BY <2>1, <2>2, <2>3 DEF HandedOK
  <2>5. e = AckOf(d)
    BY <2>4, HandedHeads DEF AckOf
  <2> QED BY <2>4, <2>5
<1> QED BY <1>1, <1>4, <1>5, <1>6

\* Any other step leaves the answers where they are, moves or loses them.
LEMMA AcksFrom ==
    ASSUME Typed, IdsOK, PipeOK, [Next]_vars, ~LogicSend
    PROVE  Outgoing' \cap AckPkts \subseteq Outgoing
<1>1. \A p \in Elems(sendCh) : p \notin AckPkts
  BY RequestFields, ReqTypes DEF PipeOK, AckPkts
<1> QED BY <1>1, OutgoingFrom

LEMMA NextAcks ==
    ASSUME Typed, IdsOK, PipeOK, UsedOK, HandedOK, AcksOK, AcksOnce, [Next]_vars
    PROVE  AcksOK'
<1>0. In1 \cup In2 \subseteq Deliveries
  BY ReqTypes
<1>1. ASSUME NEW d \in In1 \cup In2, Waits(d), Given(d) > 0, AckOf(d) \in Outgoing', ~Reconnect
      PROVE  AckOf(d) = AckOf(d)' /\ Waits(d)' /\ Given(d)' > 0
  BY <1>0, <1>1, WaitsStays, NamesStay, GivenStays
<1>2. ASSUME NEW p \in Outgoing', p \in AckPkts, ~Reconnect
      PROVE  \E d \in In1 \cup In2 : p = AckOf(d)' /\ Waits(d)' /\ Given(d)' > 0
  <2>1. \E d \in In1 \cup In2 : p = AckOf(d) /\ Waits(d) /\ Given(d) > 0
    <3>1. CASE p \in Outgoing
      BY <1>2, <3>1 DEF AcksOK
    <3>2. CASE p \notin Outgoing
      <4>1. LogicSend
        BY <1>2, <3>2, AcksFrom
      <4>2. PICK e : e = Pkt(Head(todo).pkt, Head(todo).id, None)
        OBVIOUS
      <4>3. p = e
        BY <1>2, <3>2, <4>1, <4>2, SendsAck
      <4> QED BY <1>2, <4>1, <4>2, <4>3, SendsAck
    <3> QED BY <3>1, <3>2
  <2> QED BY <1>1, <1>2, <2>1
<1>3. CASE Reconnect
  <2>1. Outgoing' = {}
    BY <1>3, ElemsEmpty DEF Reconnect, Outgoing
  <2> QED BY <2>1 DEF AcksOK
<1>4. AckPkts' = AckPkts
  BY DEF AckPkts
<1> QED BY <1>2, <1>3, <1>4 DEF AcksOK

LEMMA NextAcksOnce ==
    ASSUME Typed, IdsOK, PipeOK, HandedOK, AcksOnce, [Next]_vars
    PROVE  AcksOnce'
<1> USE DEF callVars, storeVars, hsVars, netVars, brokerVars
<1>0. /\ sendCh \in Seq(Packets) /\ wbuf \in Seq(Packets) /\ toServer \in Seq(Packets)
      /\ logicSendC \in Seq(Packets) /\ AckPkts' = AckPkts
  BY DEF Typed, TypeOK, AckPkts
<1>1. CASE HsTakeSend
  <2>0. PICK e : e = Head(sendCh)
    OBVIOUS
  <2>1. e \in Packets /\ e \in Elems(sendCh) /\ Write(e) /\ UNCHANGED logicSendC
    BY <1>0, <1>1, <2>0, ElemsTail DEF HsTakeSend
  <2>2. e \notin AckPkts
    BY <2>1, RequestFields, ReqTypes DEF PipeOK, AckPkts
  <2>3. /\ NoDup(wbuf', AckPkts) /\ NoDup(toServer', AckPkts)
        /\ \A q \in AckPkts : q \in Elems(wbuf') => q \notin Elems(toServer')
        /\ Elems(wbuf') \cup Elems(toServer') \subseteq Elems(wbuf) \cup Elems(toServer) \cup {e}
    BY <2>1, <2>2, WriteOnce DEF AcksOnce
  <2> QED BY <1>0, <2>1, <2>2, <2>3 DEF AcksOnce
<1>2. CASE HsTakeLogic
  <2>0. PICK e : e = Head(logicSendC)
    OBVIOUS
  <2>1. /\ e \in Packets /\ Elems(logicSendC) = Elems(logicSendC') \cup {e} /\ Write(e)
        /\ NoDup(logicSendC', AckPkts) /\ (e \in AckPkts => e \notin Elems(logicSendC'))
    BY <1>0, <1>2, <2>0, ElemsTail, NoDupTail DEF HsTakeLogic, AcksOnce
  <2>2. /\ NoDup(wbuf', AckPkts) /\ NoDup(toServer', AckPkts)
        /\ \A q \in AckPkts : q \in Elems(wbuf') => q \notin Elems(toServer')
        /\ Elems(wbuf') \cup Elems(toServer') \subseteq Elems(wbuf) \cup Elems(toServer) \cup {e}
    BY <2>1, WriteOnce DEF AcksOnce
  <2> QED BY <1>0, <2>1, <2>2 DEF AcksOnce
<1>3. CASE HsFlush
  <2>1. \/ toServer' = toServer \o wbuf /\ wbuf' = <<>> /\ UNCHANGED logicSendC
        \/ UNCHANGED <<wbuf, toServer, logicSendC>>
    BY <1>3 DEF HsFlush
  <2>2. CASE toServer' = toServer \o wbuf /\ wbuf' = <<>> /\ UNCHANGED logicSendC
    <3>1. Elems(toServer') = Elems(toServer) \cup Elems(wbuf) /\ Elems(wbuf') = {} /\ NoDup(wbuf', AckPkts)
      BY <1>0, <2>2, ElemsConcat, ElemsEmpty, NoDupEmpty
    <3>2. NoDup(toServer', AckPkts)
      BY <1>0, <2>2, NoDupConcat DEF AcksOnce
    <3> QED BY <1>0, <2>2, <3>1, <3>2 DEF AcksOnce
  <2> QED BY <1>0, <2>1, <2>2 DEF AcksOnce
<1>4. CASE LogicSend
  <2>0. PICK e : e = Pkt(Head(todo).pkt, Head(todo).id, None)
    OBVIOUS
  <2>1. UNCHANGED <<wbuf, toServer>> /\ (logicSendC' = Append(logicSendC, e) \/ UNCHANGED logicSendC)
    BY <1>4, <2>0 DEF LogicSend
  <2>2. e \in Packets /\ (e \in AckPkts => e \notin Outgoing)
    BY <1>4, <2>0, SendsAck
  <2>3. CASE logicSendC' = Append(logicSendC, e)
    <3>1. Elems(logicSendC') = Elems(logicSendC) \cup {e} /\ NoDup(logicSendC', AckPkts)
      BY <1>0, <2>2, <2>3, ElemsAppend, NoDupAppend DEF AcksOnce, Outgoing
    <3> QED BY <1>0, <2>1, <2>2, <3>1 DEF AcksOnce, Outgoing
  <2> QED BY <1>0, <2>1, <2>3 DEF AcksOnce
<1>5. CASE NetBreak \/ Reconnect
  <2>1. toServer' = <<>> /\ (UNCHANGED <<wbuf, logicSendC>> \/ (wbuf' = <<>> /\ logicSendC' = <<>>))
    BY <1>5 DEF NetBreak, StreamBroken, Reconnect
  <2> QED BY <1>0, <2>1, ElemsEmpty, NoDupEmpty DEF AcksOnce
<1>6. CASE ServerAnswer /\ BrokerRecv
  <2>1. UNCHANGED <<wbuf, logicSendC>> /\ toServer' = Tail(toServer) /\ toServer # <<>>
    BY <1>6 DEF ServerAnswer, BrokerRecv
  <2>2. Elems(toServer') \subseteq Elems(toServer) /\ NoDup(toServer', AckPkts)
    BY <1>0, <2>1, ElemsTail, NoDupTail DEF AcksOnce
  <2> QED BY <1>0, <2>1, <2>2 DEF AcksOnce
<1>7. ASSUME NEW r \in Reqs, CallSend(r)
      PROVE  UNCHANGED <<logicSendC, wbuf, toServer>>
  BY <1>7 DEF CallSend
<1>8. CASE UNCHANGED <<logicSendC, wbuf, toServer>>
  BY <1>0, <1>8 DEF AcksOnce
<1> QED BY <1>1, <1>2, <1>3, <1>4, <1>5, <1>6, <1>7, <1>8, PipeFrame

-----------------------------------------------------------------------------
(* A message that logic() has *)

LEMMA NextHanded ==
    ASSUME Typed, IdsOK, PipeOK, UsedOK, InboundOK, HandedOK, AcksOnce, [Next]_vars
    PROVE  HandedOK'
<1>0. todo \in Seq(LogicOps) /\ In1 \cup In2 \subseteq Deliveries /\ In0 \subseteq Deliveries
  BY ReqTypes DEF Typed
<1>a. \A d, i, t : Deliver(d)' = Deliver(d) /\ StoreRecv(i, t).op = "storeRecv" /\ Deliver(d).op = "deliver"
  BY OpFields DEF Deliver, Op
<1>b. ASSUME NEW d \in In1 \cup In2, Waits(d), AckOf(d) \notin Outgoing, ~LogicSend, ~Reconnect
      PROVE  Waits(d)' /\ (AckOf(d) \notin Outgoing)' /\ Full(d)' = Full(d) /\ Rest(d)' = Rest(d)
  <2>1. Waits(d)' /\ bid'[d] = bid[d]
    BY <1>b, WaitsStays
  <2>2. AckOf(d)' = AckOf(d) /\ Full(d)' = Full(d) /\ Rest(d)' = Rest(d)
    BY <2>1, NamesStay
  <2>3. AckOf(d) \notin Outgoing'
    BY <1>0, <1>b, AcksFrom, DeliveryPkts
  <2> QED BY <2>1, <2>2, <2>3
<1>c. ASSUME NEW d \in In0, bpc[d] \notin {"unused", "new"}
      PROVE  bpc'[d] \notin {"unused", "new"}
  BY <1>0, <1>c, NumberStays
<1>1. CASE LogicRecv
  <2>1. ~LogicSend /\ ~Reconnect
    BY <1>1 DEF LogicRecv, LogicSend, LogicDo, Reconnect
  <2>2. CASE NoneHanded'
    BY <2>2 DEF HandedOK
  <2>3. ASSUME NEW d \in In0, Streamed(d), todo' = <<Deliver(d)>>
        PROVE  HandedOK'
    <3>1. bpc'[d] \notin {"unused", "new"}
      BY <1>0, <1>c, <2>3 DEF InboundOK
    <3> QED BY <1>a, <2>3, <3>1 DEF HandedOK
  <2>4. ASSUME NEW d \in In1 \cup In2, Streamed(d), todo' = Full(d)
        PROVE  HandedOK'
    <3>1. Waits(d) /\ AckOf(d) \notin Outgoing
      BY <1>0, <2>4, InTypes DEF InboundOK
    <3>2. Waits(d)' /\ (AckOf(d) \notin Outgoing)' /\ Full(d)' = Full(d)
      BY <1>b, <2>1, <3>1
    <3> QED BY <2>4, <3>2 DEF HandedOK
  <2> QED BY <1>1, <2>2, <2>3, <2>4, HandlesStreamed
<1>2. CASE todo # <<>> /\ todo' = Tail(todo)
  <2>1. CASE NoneHanded
    <3>1. Elems(todo') \subseteq Elems(todo)
      BY <1>0, <1>2, ElemsTail
    <3> QED BY <2>1, <3>1 DEF NoneHanded, HandedOK
  <2>2. ASSUME NEW d \in In0, todo = <<Deliver(d)>>
        PROVE  HandedOK'
    <3>1. Elems(todo') = {}
      BY <1>2, <2>2, Elems3, ElemsEmpty
    <3> QED BY <3>1 DEF NoneHanded, HandedOK
  <2>3. ASSUME NEW d \in In1 \cup In2, Waits(d), AckOf(d) \notin Outgoing, todo = Full(d)
        PROVE  HandedOK'
    <3>1. Head(todo).op = "deliver" /\ Head(todo).obj = d /\ todo' = Rest(d) /\ todo' # todo /\ todo' # <<>>
      BY <1>2, <2>3, HandedHeads
    <3>2. LogicDeliver
      BY <1>2, <3>1, TodoFrame
            DEF LogicRecv, LogicNotify, LogicFree, LogicDelete, LogicStore, LogicSend, LogicDo
    <3>3. ~LogicSend /\ ~Reconnect
      BY <3>1, <3>2 DEF LogicSend, LogicDeliver, LogicDo, Reconnect
    <3>4. Given(d)' > 0
      BY <1>0, <3>1, <3>2, GivenBy, GivenType
    <3> QED BY <1>b, <2>3, <3>1, <3>3, <3>4 DEF HandedOK
  <2>4. ASSUME NEW d \in In1 \cup In2, todo = Rest(d)
        PROVE  HandedOK'
    <3>1. Elems(todo') = {StoreRecv(bid[d], "PUBLISH")}
      BY <1>2, <2>4, HandedHeads, Elems3
    <3> QED BY <1>a, <3>1 DEF NoneHanded, HandedOK
  <2> QED BY <2>1, <2>2, <2>3, <2>4 DEF HandedOK
<1>3. CASE todo' = <<>>
  BY <1>3, ElemsEmpty DEF NoneHanded, HandedOK
<1>4. CASE todo' = todo /\ ~LogicSend /\ ~Reconnect
  <2>1. CASE NoneHanded
    BY <1>4, <2>1 DEF NoneHanded, HandedOK
  <2>2. ASSUME NEW d \in In0, bpc[d] \notin {"unused", "new"}, todo = <<Deliver(d)>>
        PROVE  HandedOK'
    BY <1>4, <1>a, <1>c, <2>2 DEF HandedOK
  <2>3. ASSUME NEW d \in In1 \cup In2, Waits(d), AckOf(d) \notin Outgoing,
               todo = Full(d) \/ (todo = Rest(d) /\ Given(d) > 0)
        PROVE  HandedOK'
    <3>1. Given(d) > 0 => Given(d)' > 0
      BY <1>0, GivenStays
    <3> QED BY <1>4, <1>b, <2>3, <3>1 DEF HandedOK
  <2> QED BY <2>1, <2>2, <2>3 DEF HandedOK
<1>5. LogicSend => todo # <<>> /\ todo' = Tail(todo)
  BY DEF LogicSend, LogicDo
<1>6. Reconnect => todo' = <<>>
  BY DEF Reconnect
<1> QED BY <1>1, <1>2, <1>3, <1>4, <1>5, <1>6, TodoFrame

-----------------------------------------------------------------------------
(* The stream *)

LEMMA NextStream ==
    ASSUME Typed, UsedOK, NumbersOK, InboundOK, HandedOK, AcksOK, [Next]_vars
    PROVE  /\ NoDup(toClient', PublishPkts)
           /\ \A q \in Elems(toClient') : q.type = "PUBLISH" => q = PublishOf(q.obj)'
<1>0. /\ toClient \in Seq(InPkts) /\ toServer \in Seq(Packets) /\ NoDup(toClient, PublishPkts)
      /\ bid \in [Deliveries -> IDs \cup {0}] /\ "PUBLISH" \in Types /\ "PUBREL" \in Types
  BY DEF Typed, TypeOK, Types, InboundOK
<1>1. NoDup(toClient', PublishPkts)
  <2>1. CASE LogicRecv
    <3>1. toClient # <<>> /\ toClient' = Tail(toClient)
      BY <2>1 DEF LogicRecv
    <3> QED BY <1>0, <3>1, NoDupTail
  <2>2. CASE NetBreak
    <3>1. PICK k \in 0 .. Len(toClient) : toClient' = SubSeq(toClient, 1, k)
      BY <2>2 DEF NetBreak, StreamBroken
    <3> QED BY <1>0, <3>1, NoDupPrefix
  <2>3. CASE Reconnect
    BY <2>3, NoDupEmpty DEF Reconnect
  <2>4. CASE ServerAnswer /\ BrokerRecv
    <3>0. PICK p : p = Head(toServer)
      OBVIOUS
    <3>1. p \in Packets /\ toClient' = toClient \o Answer(p)
      BY <1>0, <2>4, <3>0, ElemsTail DEF BrokerRecv
    <3>2. \A q \in Elems(Answer(p)) : q \notin PublishPkts
      BY <3>1, AnswerTyped DEF PublishPkts
    <3>3. NoDup(Answer(p), PublishPkts)
      BY <3>2 DEF NoDup, Elems
    <3> QED BY <1>0, <3>1, <3>2, <3>3, AnswerTyped, NoDupConcat
  <2>5. ASSUME NEW d \in Deliveries, ServerAnswer, BrokerResend(d)
        PROVE  NoDup(toClient', PublishPkts)
    <3>0. PICK e : e = IF bpc[d] = "sent" THEN Pkt("PUBLISH", bid[d], d) ELSE Pkt("PUBREL", bid[d], None)
      OBVIOUS
    <3>1. toClient' = Append(toClient, e) /\ d \in bResend
      BY <2>5, <3>0 DEF BrokerResend
    <3>2. CASE bpc[d] = "sent"
      <4>1. e = PublishOf(d) /\ e \in InPkts
        BY <3>0, <3>2, DeliveryPkts DEF PublishOf
      <4>2. e \notin Elems(toClient)
        BY <3>1, <3>2, <4>1, NotYet DEF Streamed
      <4> QED BY <1>0, <3>1, <4>1, <4>2, NoDupAppend
    <3>3. CASE bpc[d] # "sent"
      <4>1. e = Pkt("PUBREL", bid[d], None)
        BY <3>0, <3>3
      <4>2. e \in Packets /\ e.type = "PUBREL"
        BY <1>0, <4>1 DEF Pkt, Packets
      <4>3. e \in InPkts /\ e \notin PublishPkts
        BY <4>2 DEF InPkts, AckTypes, PublishPkts
      <4> QED BY <1>0, <3>1, <4>3, NoDupAppend
    <3> QED BY <3>2, <3>3
  <2>6. ASSUME NEW d \in Deliveries, NEW i \in IDs \cup {0}, ServerPublish, BrokerPublish(d, i)
        PROVE  NoDup(toClient', PublishPkts)
    <3>0. PICK e : e = Pkt("PUBLISH", i, d)
      OBVIOUS
    <3>1. toClient' = Append(toClient, e) /\ bpc[d] = "new"
      BY <2>6, <3>0 DEF BrokerPublish
    <3>2. e \in Packets /\ e.type = "PUBLISH" /\ e.obj = d
      BY <1>0, <3>0 DEF Pkt, Packets
    <3>3. e \in InPkts
      BY <3>2 DEF InPkts
    <3>4. e \notin Elems(toClient)
      BY <3>1, <3>2, NotYet, StreamedOne
    <3> QED BY <1>0, <3>1, <3>3, <3>4, NoDupAppend
  <2>7. ASSUME UNCHANGED toClient
        PROVE  NoDup(toClient', PublishPkts)
    BY <1>0, <2>7
  <2> USE DEF netVars
  <2>8. CASE HsTakeSend \/ HsTakeLogic \/ HsFlush \/ HsStop \/ HsNotify \/ HsStore \/ HsDelete
    BY <2>7, <2>8 DEF HsTakeSend, HsTakeLogic, HsFlush, HsStop, HsNotify, HsStore, HsDelete
  <2>9. CASE LogicNotify \/ LogicFree \/ LogicDelete \/ LogicDeliver \/ LogicStore \/ LogicSend \/ LogicExit
    BY <2>7, <2>9 DEF LogicNotify, LogicFree, LogicDelete, LogicDeliver, LogicStore, LogicSend, LogicExit
  <2>10. CASE HandleMsg \/ HandleTopicMsg \/ NetRecvExit \/ Quietly
    BY <2>7, <2>10 DEF HandleMsg, HandleTopicMsg, NetRecvExit, Quietly, vars
  <2>11. ASSUME NEW r \in Reqs, CallNext(r) \/ CallStore(r) \/ CallSend(r)
         PROVE  UNCHANGED toClient
    BY <2>11 DEF CallNext, CallStore, CallSend
  <2> QED BY <2>1, <2>2, <2>3, <2>4, <2>5, <2>6, <2>7, <2>8, <2>9, <2>10, <2>11, Steps
<1>2. ASSUME NEW q \in Elems(toClient'), q.type = "PUBLISH"
      PROVE  q = PublishOf(q.obj)'
  <2>1. CASE q \in Elems(toClient)
    <3>1. q = PublishOf(q.obj) /\ Streamed(q.obj) /\ q.obj \in Deliveries
      BY <1>0, <1>2, <2>1, StreamedOne, ElemsType DEF InPkts
    <3>2. PICK d \in Deliveries : d = q.obj
      BY <3>1
    <3>3. bid'[d] = bid[d]
      BY <3>1, <3>2, NumberStays DEF InboundOK
    <3> QED BY <3>1, <3>2, <3>3, NamesStay
  <2>2. ASSUME NEW d \in Deliveries, BrokerResend(d), q = PublishOf(d)
        PROVE  q = PublishOf(q.obj)'
    <3>1. bid'[d] = bid[d]
      BY <2>2 DEF BrokerResend
    <3> QED BY <2>2, <3>1, DeliveryPkts, NamesStay
  <2>3. ASSUME NEW d \in Deliveries, NEW i \in IDs \cup {0}, BrokerPublish(d, i), q = Pkt("PUBLISH", i, d)
        PROVE  q = PublishOf(q.obj)'
    <3>1. bid'[d] = i /\ q.obj = d
      BY <1>0, <2>3 DEF BrokerPublish, Pkt
    <3> QED BY <2>3, <3>1 DEF PublishOf
  <2> QED BY <1>2, <2>1, <2>2, <2>3, StreamFrom
<1> QED BY <1>1, <1>2

LEMMA NextInbound ==
    ASSUME Typed, IdsOK, PipeOK, UsedOK, NumbersOK, InboundOK, HandedOK, AcksOK, AcksOnce, [Next]_vars
    PROVE  InboundOK'
<1>0. /\ todo \in Seq(LogicOps) /\ In1 \cup In2 \subseteq Deliveries
      /\ bid \in [Deliveries -> IDs \cup {0}] /\ bpc \in [Deliveries -> {"unused", "new", "sent", "rel", "done"}]
  BY ReqTypes DEF Typed, TypeOK
<1>a. \A d : Deliver(d)' = Deliver(d)
  BY DEF Deliver, Op
<1>1. ASSUME NEW d \in Deliveries, Streamed(d), Streamed(d)'
      PROVE  /\ bpc'[d] \notin {"unused", "new"} /\ Deliver(d) \notin Elems(todo')
             /\ d \notin In0 => Waits(d)' /\ (AckOf(d) \notin Outgoing)' /\ todo' # Rest(d)'
  <2>1. bpc[d] \notin {"unused", "new"} /\ bpc'[d] \notin {"unused", "new"} /\ bid'[d] = bid[d]
    BY <1>1, NumberStays DEF InboundOK
  <2>2. PublishOf(d)' = PublishOf(d) /\ AckOf(d)' = AckOf(d) /\ Rest(d)' = Rest(d)
    BY <2>1, NamesStay
  <2>3. PublishOf(d) \in Elems(toClient')
    BY <1>1, <2>2 DEF Streamed
  <2>4. ~Reconnect
    BY <2>3, ElemsEmpty DEF Reconnect
  <2>5. Deliver(d) \notin Elems(todo)
    BY <1>1 DEF InboundOK
  <2>6. Deliver(d) \notin Elems(todo')
    <3>1. CASE LogicRecv
      <4>1. ASSUME NEW e \in Deliveries, PublishOf(e) \notin Elems(toClient'), todo' = <<Deliver(e)>> \/ todo' = Full(e)
            PROVE  Deliver(d) \notin Elems(todo')
        <5>1. e # d
          BY <2>3, <4>1
        <5>2. Elems(todo') \subseteq {Deliver(e), SendPkt(AckType(e), bid[e]), StoreRecv(bid[e], "PUBLISH")}
          BY <4>1, Elems3, HandedHeads
        <5>3. Deliver(d) \notin {Deliver(e), SendPkt(AckType(e), bid[e]), StoreRecv(bid[e], "PUBLISH")}
          BY <5>1, OpFields
        <5> QED BY <5>2, <5>3
      <4>2. CASE NoneHanded'
        BY <4>2, OpFields DEF NoneHanded
      <4> QED BY <3>1, <4>1, <4>2, HandlesStreamed
    <3>2. CASE Elems(todo') \subseteq Elems(todo)
      BY <2>5, <3>2
    <3> QED BY <3>1, <3>2, TodoFrom
  <2>7. ASSUME d \notin In0
        PROVE  Waits(d)' /\ AckOf(d) \notin Outgoing' /\ todo' # Rest(d)
    <3>1. d \in In1 \cup In2 /\ Waits(d) /\ AckOf(d) \notin Outgoing /\ todo # Rest(d) /\ bpc[d] = "sent"
      BY <1>1, <2>7, InTypes DEF InboundOK, Waits
    <3>2. Waits(d)'
      BY <2>4, <3>1, WaitsStays
    <3>3. AckOf(d) \notin Outgoing'
      <4>1. CASE LogicSend
        <5>1. PICK e : e = Pkt(Head(todo).pkt, Head(todo).id, None)
          OBVIOUS
        <5>2. ASSUME AckOf(d) \in Outgoing'
              PROVE  FALSE
          <6>1. e = AckOf(d) /\ e \in AckPkts
            BY <3>1, <4>1, <5>1, <5>2, SendsAck, DeliveryPkts
          <6>2. PICK f \in In1 \cup In2 : e = AckOf(f) /\ Waits(f) /\ todo = Rest(f)
            BY <4>1, <5>1, <6>1, SendsAck
          <6>3. f = d
            BY <3>1, <6>1, <6>2, SameAck
          <6> QED BY <3>1, <6>2, <6>3
        <5> QED BY <5>2
      <4>2. CASE ~LogicSend
        BY <3>1, <4>2, AcksFrom, DeliveryPkts
      <4> QED BY <4>1, <4>2
    <3>4. ASSUME todo' = Rest(d)
          PROVE  FALSE
      <4>a. SendPkt(AckType(d), bid[d]) \in Elems(todo') /\ todo' # <<>> /\ Head(todo').op = "send"
        BY <3>4, HandedHeads
      <4>b. SendPkt(AckType(d), bid[d]).op = "send" /\ SendPkt(AckType(d), bid[d]).pkt \in {"PUBACK", "PUBREC"}
        BY OpFields, InTypes
      <4>1. CASE LogicRecv
        <5>1. ~NoneHanded'
          BY <4>a, <4>b DEF NoneHanded
        <5>2. \A e : todo' # <<Deliver(e)>>
          BY <4>a, Elems3, OpFields
        <5>3. \A e : todo' # Full(e)
          BY <4>a, HandedHeads
        <5> QED BY <4>1, <5>1, <5>2, <5>3, HandlesStreamed
      <4>2. CASE todo # <<>> /\ todo' = Tail(todo)
        <5>1. ~NoneHanded
          BY <1>0, <4>2, <4>a, <4>b, ElemsTail DEF NoneHanded
        <5>2. \A e : todo # <<Deliver(e)>>
          BY <4>2, <4>a, Elems3
        <5>3. \A e : todo # Rest(e)
          <6>1. ASSUME NEW e, todo = Rest(e)
                PROVE  FALSE
            <7>1. todo' = <<StoreRecv(bid[e], "PUBLISH")>>
              BY <4>2, <6>1, HandedHeads
            <7>2. Head(todo').op = "storeRecv"
              BY <7>1, Elems3, OpFields
            <7> QED BY <4>a, <7>2
          <6> QED BY <6>1
        <5>4. PICK e \in In1 \cup In2 : Waits(e) /\ todo = Full(e)
          BY <5>1, <5>2, <5>3 DEF HandedOK
        <5>5. Rest(e) = Rest(d) /\ Deliver(e) \in Elems(todo)
          BY <3>4, <4>2, <5>4, HandedHeads
        <5>6. e = d
          BY <3>1, <5>4, <5>5, SameAck
        <5> QED BY <2>5, <5>5, <5>6
      <4>3. CASE todo' = todo \/ todo' = <<>>
        BY <3>1, <3>4, <4>a, <4>3
      <4> QED BY <4>1, <4>2, <4>3, TodoFrame
    <3> QED BY <3>2, <3>3, <3>4
  <2> QED BY <2>1, <2>2, <2>6, <2>7
<1>2. ASSUME NEW d \in Deliveries, BrokerResend(d), ServerAnswer, bpc[d] = "sent"
      PROVE  /\ bpc'[d] \notin {"unused", "new"} /\ Deliver(d) \notin Elems(todo')
             /\ d \notin In0 => Waits(d)' /\ (AckOf(d) \notin Outgoing)' /\ todo' # Rest(d)'
  <2>1. /\ UNCHANGED <<bpc, bid, todo, logicSendC, wbuf, toServer>> /\ d \in bResend /\ bResend' = bResend \ {d}
    BY <1>2 DEF BrokerResend, ServerAnswer, logicVars, hsVars
  <2>2. Deliver(d) \notin Elems(todo) /\ AckOf(d) \notin Outgoing /\ todo # Rest(d)
    BY <1>2, <2>1, NotYet
  <2>3. AckOf(d)' = AckOf(d) /\ Rest(d)' = Rest(d) /\ Outgoing' = Outgoing
    BY <2>1, NamesStay DEF Outgoing
  <2>4. d \notin In0 => Waits(d)'
    BY <1>2, <2>1, InTypes DEF Waits
  <2> QED BY <1>2, <2>1, <2>2, <2>3, <2>4
<1>3. ASSUME NEW d \in Deliveries, NEW i \in IDs \cup {0}, BrokerPublish(d, i), ServerPublish
      PROVE  /\ bpc'[d] \notin {"unused", "new"} /\ Deliver(d) \notin Elems(todo')
             /\ d \notin In0 => Waits(d)' /\ (AckOf(d) \notin Outgoing)' /\ todo' # Rest(d)'
  <2>1. /\ UNCHANGED <<bResend, todo, logicSendC, wbuf, toServer>> /\ bpc[d] = "new"
        /\ bpc' = [bpc EXCEPT ![d] = IF d \in In0 THEN "done" ELSE "sent"] /\ bid' = [bid EXCEPT ![d] = i]
        /\ d \notin In0 => \A e \in Deliveries : bpc[e] \in {"sent", "rel"} => bid[e] # i
    BY <1>3 DEF BrokerPublish, ServerPublish, logicVars, hsVars
  <2>2. Deliver(d) \notin Elems(todo) /\ d \notin bResend
    BY <2>1, NotYet DEF UsedOK
  <2>3. bpc'[d] \notin {"unused", "new"} /\ bid'[d] = i
    BY <1>0, <2>1
  <2>4. ASSUME d \notin In0
        PROVE  Waits(d)' /\ (AckOf(d) \notin Outgoing)' /\ todo' # Rest(d)'
    <3>1. d \in In1 \cup In2 /\ bpc'[d] = "sent"
      BY <1>0, <2>1, <2>4, InTypes
    <3>2. Waits(d)'
      BY <2>1, <2>2, <3>1 DEF Waits
    <3>3. \A e \in In1 \cup In2 : Waits(e) => bid[e] # i
      BY <1>0, <2>1, <2>4 DEF Waits
    <3>4. AckOf(d)' = Pkt(AckType(d), i, None) /\ Outgoing' = Outgoing
      BY <2>1, <2>3 DEF AckOf, AckType, Pkt, Outgoing
    <3>5. Pkt(AckType(d), i, None) \in AckPkts /\ Pkt(AckType(d), i, None).id = i
      <4>1. AckType(d) \in {"PUBACK", "PUBREC"} /\ AckType(d) \in Types
        BY InTypes DEF Types
      <4> QED BY <4>1 DEF Pkt, AckPkts, Packets
    <3>6. Pkt(AckType(d), i, None) \notin Outgoing
      BY <1>0, <3>3, <3>5, DeliveryPkts DEF AcksOK
    <3>7. Head(Rest(d)').op = "send" /\ Head(Rest(d)').id = i /\ Head(Rest(d)').pkt \in {"PUBACK", "PUBREC"} /\ Rest(d)' # <<>>
      <4>1. Rest(d)' = <<SendPkt(AckType(d), i), StoreRecv(i, "PUBLISH")>>
        BY <2>3 DEF Rest, AckType, SendPkt, StoreRecv, Op
      <4> QED BY <4>1, Elems3, OpFields, InTypes
    <3>8. todo # Rest(d)'
      <4> SUFFICES ASSUME todo = Rest(d)'
                   PROVE  FALSE
        OBVIOUS
      <4>1. todo # <<>> /\ Head(todo).op = "send" /\ Head(todo).id = i /\ Head(todo).pkt \in {"PUBACK", "PUBREC"}
        BY <3>7
      <4>2. Head(todo) \in Elems(todo)
        BY <1>0, <4>1, ElemsTail
      <4>3. ~NoneHanded
        BY <4>1, <4>2 DEF NoneHanded
      <4>4. \A e : todo # <<Deliver(e)>> /\ todo # Full(e)
        <5>1. \A e : todo # <<Deliver(e)>>
          BY <4>1, Elems3, OpFields
        <5>2. \A e : todo # Full(e)
          BY <4>1, HandedHeads
        <5> QED BY <5>1, <5>2
      <4>5. PICK e \in In1 \cup In2 : Waits(e) /\ todo = Rest(e)
        BY <4>3, <4>4 DEF HandedOK
      <4> QED BY <3>3, <4>1, <4>5, HandedHeads
    <3> QED BY <2>1, <3>2, <3>4, <3>6, <3>8
  <2> QED BY <2>1, <2>2, <2>3, <2>4
<1>4. ASSUME NEW d \in Deliveries, Streamed(d)'
      PROVE  /\ bpc'[d] \notin {"unused", "new"} /\ Deliver(d) \notin Elems(todo')
             /\ d \notin In0 => Waits(d)' /\ (AckOf(d) \notin Outgoing)' /\ todo' # Rest(d)'
  <2>1. CASE Streamed(d)
    BY <1>1, <1>4, <2>1
  <2>2. CASE BrokerResend(d) /\ ServerAnswer /\ bpc[d] = "sent"
    BY <1>2, <2>2
  <2>3. CASE \E i \in IDs \cup {0} : BrokerPublish(d, i) /\ ServerPublish
    BY <1>3, <2>3
  <2> QED BY <1>4, <2>1, <2>2, <2>3, ComesIntoStream
<1>5. PublishPkts' = PublishPkts
  BY DEF PublishPkts
<1> QED BY <1>4, <1>5, <1>a, NextStream DEF InboundOK

-----------------------------------------------------------------------------
(* What the server is told, how often the application is given a message *)

LEMMA NextAcked ==
    ASSUME Typed, IdsOK, PipeOK, NumbersOK, AcksOK, AckedWasGiven, [Next]_vars
    PROVE  AckedWasGiven'
<1>0. In1 \cup In2 \subseteq Deliveries /\ toServer \in Seq(Packets)
      /\ bpc \in [Deliveries -> {"unused", "new", "sent", "rel", "done"}]
  BY ReqTypes DEF Typed, TypeOK
<1> SUFFICES ASSUME NEW d \in In1 \cup In2, bpc'[d] \in {"rel", "done"}
             PROVE  Given(d)' > 0
  BY DEF AckedWasGiven
<1>1. CASE bpc[d] \in {"rel", "done"}
  BY <1>0, <1>1, GivenStays DEF AckedWasGiven
<1>2. CASE bpc[d] \notin {"rel", "done"}
  <2>1. BrokerRecv
    <3>1. ASSUME NEW e \in Deliveries, NEW i \in IDs \cup {0}, BrokerPublish(e, i)
          PROVE  FALSE
      BY <1>0, <1>2, <3>1, InTypes DEF BrokerPublish
    <3>2. CASE bpc' = bpc
      BY <1>2, <3>2
    <3>3. CASE BrokerNewConnection \/ \E e \in Deliveries : BrokerResend(e)
      BY <3>2, <3>3 DEF BrokerNewConnection, BrokerResend
    <3> QED BY <3>1, <3>2, <3>3, BrokerFrame
  <2>2. PICK p : p = Head(toServer)
    OBVIOUS
  <2>3. p \in Elems(toServer) /\ d \in Acked(p)
    BY <1>0, <1>2, <2>1, <2>2, ElemsTail DEF BrokerRecv
  <2>4. bpc[d] = "sent"
    BY <1>2, <2>3 DEF Acked
  <2>5. p = AckOf(d) /\ p \in AckPkts /\ p \in Outgoing
    BY <2>3, <2>4, AckedByAck DEF Outgoing
  <2>6. PICK e \in In1 \cup In2 : p = AckOf(e) /\ Waits(e) /\ Given(e) > 0
    BY <2>5 DEF AcksOK
  <2>7. e = d
    BY <2>4, <2>5, <2>6, SameAck
  <2> QED BY <1>0, <2>6, <2>7, GivenStays
<1> QED BY <1>1, <1>2

\* Only a new connection makes the server repeat a message.
LEMMA ComingFrom ==
    ASSUME Typed, UsedOK, InboundOK, [Next]_vars, ~Reconnect, NEW d \in Deliveries, Coming(d)'
    PROVE  Coming(d)
<1>0. todo \in Seq(LogicOps) /\ bpc \in [Deliveries -> {"unused", "new", "sent", "rel", "done"}]
  BY DEF Typed, TypeOK
<1>1. CASE bpc'[d] = "new" \/ d \in bResend'
  <2>1. ASSUME NEW e \in Deliveries, NEW i \in IDs \cup {0}, BrokerPublish(e, i)
        PROVE  (bpc'[d] = "new" => bpc[d] = "new") /\ bResend' = bResend
    BY <1>0, <2>1 DEF BrokerPublish
  <2>2. CASE BrokerRecv
    <3>1. PICK p : p = Head(toServer)
      OBVIOUS
    <3>2. (bpc'[d] = "new" => bpc[d] = "new") /\ bResend' = bResend
      BY <2>2, <3>1 DEF BrokerRecv
    <3> QED BY <1>1, <3>2 DEF Coming
  <2>3. ASSUME NEW e \in Deliveries, BrokerResend(e)
        PROVE  bpc' = bpc /\ bResend' \subseteq bResend
    BY <2>3 DEF BrokerResend
  <2> QED BY <1>1, <2>1, <2>2, <2>3, BrokerFrame DEF Coming
<1>2. CASE Streamed(d)'
  BY <1>2, ComesIntoStream DEF Coming, BrokerResend, BrokerPublish
<1>3. CASE Deliver(d) \in Elems(todo')
  <2>1. CASE LogicRecv
    <3>1. ~NoneHanded'
      BY <1>3, OpFields DEF NoneHanded
    <3>2. ASSUME NEW e \in Deliveries, Streamed(e), todo' = <<Deliver(e)>> \/ todo' = Full(e)
          PROVE  e = d
      <4>1. Elems(todo') \subseteq {Deliver(e), SendPkt(AckType(e), bid[e]), StoreRecv(bid[e], "PUBLISH")}
        BY <3>2, Elems3, HandedHeads
      <4>2. e # d => Deliver(d) \notin {Deliver(e), SendPkt(AckType(e), bid[e]), StoreRecv(bid[e], "PUBLISH")}
        BY OpFields, SMTT(30)
      <4> QED BY <1>3, <4>1, <4>2
    <3> QED BY <2>1, <3>1, <3>2, HandlesStreamed DEF Coming
  <2>2. CASE Elems(todo') \subseteq Elems(todo)
    BY <1>3, <2>2 DEF Coming
  <2> QED BY <2>1, <2>2, TodoFrom
<1>4. Deliver(d)' = Deliver(d)
  BY DEF Deliver, Op
<1> QED BY <1>1, <1>2, <1>3, <1>4 DEF Coming

\* A message that goes to the application does not come again.
LEMMA GivenIsGone ==
    ASSUME Typed, UsedOK, InboundOK, HandedOK, LogicDeliver, NEW d \in Deliveries, Head(todo).obj = d
    PROVE  Coming(d) /\ ~Coming(d)'
<1>0. todo \in Seq(LogicOps)
  BY DEF Typed
<1>1. /\ todo # <<>> /\ Head(todo).op = "deliver" /\ todo' = Tail(todo)
      /\ UNCHANGED <<bpc, bid, bResend, toClient>>
  BY DEF LogicDeliver, LogicDo, netVars, brokerVars
<1>2. Head(todo) \in Elems(todo)
  BY <1>0, <1>1, ElemsTail
<1>3. ~NoneHanded
  BY <1>1, <1>2 DEF NoneHanded
<1>4. \A e : todo # Rest(e)
  BY <1>1, HandedHeads
<1>5. \/ d \in In0 /\ bpc[d] \notin {"unused", "new"} /\ todo = <<Deliver(d)>>
      \/ d \in In1 \cup In2 /\ Waits(d) /\ todo = Full(d)
  <2>1. ASSUME NEW e, todo = <<Deliver(e)>>
        PROVE  e = d
    BY <2>1, Elems3, OpFields
  <2>2. ASSUME NEW e, todo = Full(e)
        PROVE  e = d
    BY <2>2, HandedHeads
  <2> QED BY <1>3, <1>4, <2>1, <2>2 DEF HandedOK
<1>6. Deliver(d) \in Elems(todo) /\ bpc[d] # "new" /\ d \notin bResend
  BY <1>5, Elems3, HandedHeads, InTypes DEF Waits, UsedOK
<1>7. Deliver(d) \notin Elems(todo')
  <2>1. CASE todo = <<Deliver(d)>>
    BY <1>1, <2>1, Elems3, ElemsEmpty
  <2>2. CASE todo = Full(d)
    <3>1. Elems(todo') = {SendPkt(AckType(d), bid[d]), StoreRecv(bid[d], "PUBLISH")}
      <4>1. todo' = Rest(d)
        BY <1>1, <2>2, HandedHeads
      <4> QED BY <4>1, HandedHeads
    <3> QED BY <3>1, OpFields
  <2> QED BY <1>5, <2>1, <2>2
<1>8. ~Streamed(d) /\ (Streamed(d)' <=> Streamed(d))
  BY <1>1, <1>6 DEF InboundOK, Streamed, PublishOf, Pkt
<1>9. Deliver(d)' = Deliver(d)
  BY DEF Deliver, Op
<1> QED BY <1>1, <1>6, <1>7, <1>8, <1>9 DEF Coming

LEMMA NextGiven ==
    ASSUME Typed, Typed', UsedOK, InboundOK, HandedOK, GivenOK, [Next]_vars
    PROVE  GivenOK'
<1> SUFFICES ASSUME NEW d \in Deliveries
             PROVE  Given(d)' + (IF Coming(d)' THEN 1 ELSE 0) <= losses' + (IF conn' = "up" THEN 1 ELSE 0)
  BY DEF GivenOK
<1>a. Given(d) \in Nat /\ losses \in Nat /\ losses' \in Nat
  <2>1. MaxLosses \in Nat /\ losses \in 0 .. MaxLosses /\ losses' \in 0 .. MaxLosses
    BY ReqTypes DEF Typed, TypeOK
  <2> QED BY <2>1, GivenType
<1>0. Given(d) \in Nat /\ losses \in Nat /\ losses' \in Nat /\ Given(d)' \in Nat
  BY <1>a, GivenStep
<1>1. Given(d) + (IF Coming(d) THEN 1 ELSE 0) <= losses + (IF conn = "up" THEN 1 ELSE 0)
  BY DEF GivenOK
<1>2. CASE Reconnect
  <2>1. losses' = losses /\ conn' = "up" /\ conn # "up"
    BY <1>2 DEF Reconnect
  <2>2. Given(d)' = Given(d)
    BY <1>2, GivenStep DEF Reconnect, LogicDeliver, LogicDo, connVars
  <2>3. Given(d) <= losses
    BY <1>0, <1>1, <2>1
  <2> QED BY <1>0, <2>1, <2>2, <2>3
<1>3. CASE ~Reconnect
  <2>1. losses' + (IF conn' = "up" THEN 1 ELSE 0) = losses + (IF conn = "up" THEN 1 ELSE 0)
    <3>1. CASE NetBreak
      BY <1>0, <3>1 DEF NetBreak
    <3>2. CASE NetRecvExit
      BY <1>0, <3>2 DEF NetRecvExit
    <3>3. ASSUME UNCHANGED <<conn, losses>>
          PROVE  losses' + (IF conn' = "up" THEN 1 ELSE 0) = losses + (IF conn = "up" THEN 1 ELSE 0)
      BY <3>3
    <3> USE DEF connVars
    <3>4. CASE HsTakeSend \/ HsTakeLogic \/ HsFlush \/ HsStop \/ HsNotify \/ HsStore \/ HsDelete
      BY <3>3, <3>4 DEF HsTakeSend, HsTakeLogic, HsFlush, HsStop, HsNotify, HsStore, HsDelete
    <3>5. CASE LogicRecv \/ LogicNotify \/ LogicFree \/ LogicDelete \/ LogicDeliver \/ LogicStore \/ LogicSend \/ LogicExit
      BY <3>3, <3>5 DEF LogicRecv, LogicNotify, LogicFree, LogicDelete, LogicDeliver, LogicStore, LogicSend, LogicExit
    <3>6. CASE HandleMsg \/ HandleTopicMsg \/ ServerAnswer \/ ServerPublish \/ Quietly
      BY <3>3, <3>6 DEF HandleMsg, HandleTopicMsg, ServerAnswer, ServerPublish, Quietly, vars
    <3>7. ASSUME NEW r \in Reqs, CallNext(r) \/ CallStore(r) \/ CallSend(r)
          PROVE  UNCHANGED <<conn, losses>>
      BY <3>7 DEF CallNext, CallStore, CallSend
    <3> QED BY <1>3, <3>1, <3>2, <3>3, <3>4, <3>5, <3>6, <3>7, Steps
  <2>2. Given(d)' + (IF Coming(d)' THEN 1 ELSE 0) <= Given(d) + (IF Coming(d) THEN 1 ELSE 0)
    <3>1. CASE LogicDeliver /\ Head(todo).obj = d /\ Given(d)' = Given(d) + 1
      BY <1>0, <3>1, GivenIsGone
    <3>2. CASE Given(d)' = Given(d)
      <4>1. Coming(d)' => Coming(d)
        BY <1>3, ComingFrom
      <4> QED BY <1>0, <3>2, <4>1
    <3> QED BY <3>1, <3>2, GivenStep
  <2>3. \A a, b, c, e \in Nat : a <= b /\ b <= c /\ e = c => a <= e
    OBVIOUS
  <2>4. /\ Given(d)' + (IF Coming(d)' THEN 1 ELSE 0) \in Nat /\ Given(d) + (IF Coming(d) THEN 1 ELSE 0) \in Nat
        /\ losses + (IF conn = "up" THEN 1 ELSE 0) \in Nat /\ losses' + (IF conn' = "up" THEN 1 ELSE 0) \in Nat
    <3>1. /\ (IF Coming(d)' THEN 1 ELSE 0) \in Nat /\ (IF Coming(d) THEN 1 ELSE 0) \in Nat
          /\ (IF conn = "up" THEN 1 ELSE 0) \in Nat /\ (IF conn' = "up" THEN 1 ELSE 0) \in Nat
      OBVIOUS
    <3>2. \A a, b \in Nat : a + b \in Nat
      OBVIOUS
    <3> QED BY <1>0, <3>1, <3>2
  <2> QED BY <1>1, <2>1, <2>2, <2>3, <2>4
<1> QED BY <1>2, <1>3

LEMMA InitDelivery ==
    ASSUME Init
    PROVE  NumbersOK /\ InboundOK /\ HandedOK /\ AcksOK /\ AcksOnce /\ AckedWasGiven /\ GivenOK
<1>1. /\ toClient = <<>> /\ logicSendC = <<>> /\ wbuf = <<>> /\ toServer = <<>> /\ todo = <<>> /\ recvCh = <<>>
      /\ dispatched = [d \in Deliveries |-> 0] /\ conn = "up" /\ losses = 0
  BY DEF Init, BrokerInit
<1>2. \A d \in Deliveries : bpc[d] \in {"unused", "new"}
  BY DEF Init, BrokerInit
<1>3. \A d \in Deliveries : Given(d) = 0
  BY <1>1, TimesEmpty DEF Given
<1>4. NumbersOK /\ AckedWasGiven
  BY <1>2, ReqTypes DEF NumbersOK, AckedWasGiven
<1>5. InboundOK /\ HandedOK
  BY <1>1, ElemsEmpty, NoDupEmpty DEF InboundOK, Streamed, HandedOK, NoneHanded
<1>6. AcksOK /\ AcksOnce
  BY <1>1, ElemsEmpty, NoDupEmpty DEF AcksOK, AcksOnce, Outgoing
<1>7. GivenOK
  BY <1>1, <1>3 DEF GivenOK
<1> QED BY <1>4, <1>5, <1>6, <1>7

DeliveryInv ==
    /\ ReqInv /\ UsedOK
    /\ NumbersOK /\ InboundOK /\ HandedOK /\ AcksOK /\ AcksOnce /\ AckedWasGiven /\ GivenOK

\* The inductive invariant of the deliveries: a message that the server waits
\* for is in one place, the stream, logic() or the answer to it.
THEOREM DeliveryInvariance == Spec => []DeliveryInv
<1>1. Init => DeliveryInv
  BY InitTyped, InitIds, InitPipe, InitAnswers, InitPub0, InitReports, InitUsed, InitDelivery DEF ReqInv, DeliveryInv
<1>2. ReqInv /\ [Next]_vars => ReqInv'
  BY NextTyped, NextIds, NextPipe, NextAnswers, NextHsShape, NextTodo, NextReports, NextPub0 DEF ReqInv
<1>3. DeliveryInv /\ [Next]_vars => DeliveryInv'
  BY <1>2, NextUsed, NextNumbers, NextInbound, NextHanded, NextAcks, NextAcksOnce, NextAcked, NextGiven
     DEF ReqInv, DeliveryInv
<1> QED BY <1>1, <1>3, PTL DEF Spec

\* A message whose acknowledgement the server has is in the application's
\* queue or was routed: recvCh <- p comes before c.send (client_conn.go:115).
THEOREM AcknowledgedIsGiven == Spec => []AckedWasGiven
<1>1. DeliveryInv => AckedWasGiven
  BY DEF DeliveryInv
<1> QED BY <1>1, DeliveryInvariance, PTL

\* The application is given a message at most once per connection, whatever
\* the server repeats after a loss (client_conn.go:110-137).
THEOREM OnePerConnection == Spec => []GivenOncePerConnection
<1>1. ASSUME DeliveryInv
      PROVE  GivenOncePerConnection
  <2> SUFFICES ASSUME NEW d \in Deliveries
               PROVE  Given(d) <= 1 + losses
    BY DEF GivenOncePerConnection
  <2>1. Given(d) \in Nat /\ losses \in Nat
    BY <1>1, GivenType, SMTT(30) DEF DeliveryInv, ReqInv, Typed, TypeOK
  <2>2. Given(d) + (IF Coming(d) THEN 1 ELSE 0) <= losses + (IF conn = "up" THEN 1 ELSE 0)
    BY <1>1 DEF DeliveryInv, GivenOK
  <2> QED BY <2>1, <2>2
<1>2. DeliveryInv => GivenOncePerConnection
  BY <1>1
<1> QED BY <1>2, DeliveryInvariance, PTL
=============================================================================
