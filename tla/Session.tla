------------------------------- MODULE Session -------------------------------
(***************************************************************************)
(* The session of one client with one server: what Publish, Subscribe and  *)
(* Unsubscribe (client_async.go), the goroutines logic() and handleSend()  *)
(* of a connection (client_conn.go) and the dispatchers handleMsg() and    *)
(* handleTopicMsg() do to the packets in flight, to the identifier table,  *)
(* to the persisted packets and to the application's handlers.             *)
(*                                                                         *)
(* Every goroutine is a sequence of operations that other goroutines see:  *)
(* a channel send or receive (blocking when the channel is full or empty), *)
(* one access to the identifier table, one to the store, one write.  Each  *)
(* is one action.  What a handler still has to do is the sequence of the   *)
(* operations left (todo for logic, hsTodo for handleSend).                *)
(*                                                                         *)
(* Identifiers come from the first lap of idGenerator, on which they are   *)
(* unique (IdGeneratorProofs); the store accepts everything (a memPersist  *)
(* without limit).                                                         *)
(***************************************************************************)
EXTENDS Broker

CONSTANTS
    LogicCap,   \* capacity of logicSendC (10)
    MsgCap,     \* capacity of msgCh (10)
    Scenarios,  \* the sets of requests and deliveries that may come together
    MaxLosses   \* bound: how often the connection breaks

\* make(chan Packet, 1), make(chan *PublishPacket, 1)
SendCap == 1
RecvCap == 1

ASSUME CapacityAssumption ==
    LogicCap \in Nat /\ MsgCap \in Nat /\ LogicCap > 0 /\ MsgCap > 0 /\ MaxLosses \in Nat

ASSUME ScenariosAssumption == Scenarios \subseteq SUBSET (Reqs \cup Deliveries)

VARIABLES
    nextID,      \* the identifier counter
    usedIDs,     \* idGen.usedIDs: the request an identifier was given to
    reqID,       \* PacketID of each request, 0 until next() gave it one
    pc,          \* where the call that sends the request is
    sendStore,   \* persisted packets, keys sendKey(id): "none", "PUBLISH" or "PUBREL"
    recvStore,   \* persisted packets, keys recvKey(id)
    sendCh,      \* AsyncClient.sendCh
    msgCh,       \* AsyncClient.msgCh: the request reported, or None for a net message
    recvCh,      \* AsyncClient.recvCh
    notified,    \* notified[r]: how often the pub, sub or unsub handler was called for r
    dispatched,  \* dispatched[d]: how often d went to the router
    conn,        \* "up", "broken" (the socket), "stopped" (stopSig closed)
    losses,      \* how often the connection broke
    logicSendC,  \* clientConn.logicSendC
    logicOn,     \* logic() is running
    todo,        \* operations left of the packet logic() is handling
    hsOn,        \* handleSend() is running
    hsTodo,      \* operations left of the packet handleSend() wrote
    wbuf         \* the bufio.Writer

callVars  == <<nextID, reqID, pc>>
storeVars == <<sendStore, recvStore>>
appVars   == <<notified, dispatched>>
hsVars    == <<hsOn, hsTodo, wbuf>>
logicVars == <<logicOn, todo>>
connVars  == <<conn, losses>>
netVars   == <<toServer, toClient>>
vars == <<callVars, usedIDs, storeVars, sendCh, msgCh, recvCh, appVars, connVars,
          logicSendC, logicVars, hsVars, netVars, brokerVars>>

\* Operations of the handlers: what is left to do after a packet was taken.
Op(op, i, obj)     == [op |-> op, id |-> i, obj |-> obj, pkt |-> "none"]
Notify(r)          == Op("notify", 0, r)
NotifyNet          == Op("notifyNet", 0, None)
FreeID(i)          == Op("free", i, None)
DeleteSent(i)      == Op("delete", i, None)
Deliver(d)         == Op("deliver", 0, d)
StoreRecv(i, type) == [Op("storeRecv", i, None) EXCEPT !.pkt = type]
StoreSent(i, type) == [Op("storeSent", i, None) EXCEPT !.pkt = type]
SendPkt(type, i)   == [Op("send", i, None) EXCEPT !.pkt = type]

Init ==
    /\ \E sc \in Scenarios :
          /\ BrokerInit(sc)
          /\ pc = [r \in Reqs |-> IF r \in sc THEN "new" ELSE "unused"]
    /\ nextID = 0
    /\ usedIDs    = [i \in IDs |-> None]
    /\ reqID      = [r \in Reqs |-> 0]
    /\ sendStore  = [i \in IDs |-> "none"]
    /\ recvStore  = [i \in IDs |-> "none"]
    /\ sendCh = <<>> /\ msgCh = <<>> /\ recvCh = <<>>
    /\ notified   = [r \in Reqs |-> 0]
    /\ dispatched = [d \in Deliveries |-> 0]
    /\ conn = "up" /\ losses = 0
    /\ logicSendC = <<>>
    /\ logicOn = TRUE /\ todo = <<>>
    /\ hsOn = TRUE /\ hsTodo = <<>> /\ wbuf = <<>>

-----------------------------------------------------------------------------
(* Publish, Subscribe and Unsubscribe, each call in a goroutine of its own. *)

\* The packet of a request.
RequestPkt(r) ==
    Pkt(IF r \in Subs THEN "SUBSCRIBE" ELSE IF r \in Unsubs THEN "UNSUBSCRIBE" ELSE "PUBLISH",
        reqID[r], r)

\* idGen.next(p); a QoS 0 publish needs no identifier, only a publish is stored.
CallNext(r) ==
    /\ pc[r] = "new"
    /\ IF r \in Pub0
       THEN /\ pc' = [pc EXCEPT ![r] = "send"]
            /\ UNCHANGED <<nextID, usedIDs, reqID>>
       ELSE /\ nextID < NumIDs
            /\ nextID'  = nextID + 1
            /\ usedIDs' = [usedIDs EXCEPT ![nextID + 1] = r]
            /\ reqID'   = [reqID EXCEPT ![r] = nextID + 1]
            /\ pc' = [pc EXCEPT ![r] = IF r \in Pub1 \cup Pub2 THEN "store" ELSE "send"]
    /\ UNCHANGED <<storeVars, sendCh, msgCh, recvCh, appVars, connVars, logicSendC,
                   logicVars, hsVars, netVars, brokerVars>>

\* persist.Store(sendKey(p.PacketID), p)
CallStore(r) ==
    /\ pc[r] = "store"
    /\ sendStore' = [sendStore EXCEPT ![reqID[r]] = "PUBLISH"]
    /\ pc' = [pc EXCEPT ![r] = "send"]
    /\ UNCHANGED <<nextID, usedIDs, reqID, recvStore, sendCh, msgCh, recvCh, appVars,
                   connVars, logicSendC, logicVars, hsVars, netVars, brokerVars>>

\* c.sendCh <- p
CallSend(r) ==
    /\ pc[r] = "send"
    /\ Len(sendCh) < SendCap
    /\ sendCh' = Append(sendCh, RequestPkt(r))
    /\ pc' = [pc EXCEPT ![r] = "sent"]
    /\ UNCHANGED <<nextID, usedIDs, reqID, storeVars, msgCh, recvCh, appVars, connVars,
                   logicSendC, logicVars, hsVars, netVars, brokerVars>>

-----------------------------------------------------------------------------
(* handleSend(): the only writer of the socket. *)

\* Mutant: a QoS 0 publish is not reported.
AfterWriteSilent(p) ==
    CASE p.type = "PUBREL"                 -> <<StoreSent(p.id, "PUBREL")>>
      [] p.type \in {"PUBACK", "PUBCOMP"}  -> <<DeleteSent(p.id)>>
      [] OTHER                             -> <<>>

\* What handleSend() does after writing a packet.
AfterWrite(p) ==
    CASE p.type = "PUBLISH" /\ p.obj \in Pub0 -> <<Notify(p.obj)>>
      [] p.type = "PUBREL"                     -> <<StoreSent(p.id, "PUBREL")>>
      [] p.type \in {"PUBACK", "PUBCOMP"}      -> <<DeleteSent(p.id)>>
      [] OTHER                                 -> <<>>

\* pkt.WriteTo(c.connRW): into the buffer, or through it when it is full;
\* a failing write ends the goroutine without a word.
Write(p) ==
    \/ /\ wbuf' = Append(wbuf, p)
       /\ hsTodo' = AfterWrite(p)
       /\ UNCHANGED <<hsOn, toServer>>
    \/ /\ conn = "up"
       /\ toServer' = toServer \o Append(wbuf, p)
       /\ wbuf' = <<>>
       /\ hsTodo' = AfterWrite(p)
       /\ UNCHANGED hsOn
    \/ /\ conn # "up"
       /\ hsOn' = FALSE
       /\ UNCHANGED <<wbuf, hsTodo, toServer>>

\* case pkt := <-c.parent.sendCh: possible even when stopSig is closed
HsTakeSend ==
    /\ hsOn /\ hsTodo = <<>> /\ sendCh # <<>>
    /\ sendCh' = Tail(sendCh)
    /\ Write(Head(sendCh))
    /\ UNCHANGED <<callVars, usedIDs, storeVars, msgCh, recvCh, appVars, connVars,
                   logicSendC, logicVars, toClient, brokerVars>>

\* case pkt := <-c.logicSendC
HsTakeLogic ==
    /\ hsOn /\ hsTodo = <<>> /\ logicSendC # <<>>
    /\ logicSendC' = Tail(logicSendC)
    /\ Write(Head(logicSendC))
    /\ UNCHANGED <<callVars, usedIDs, storeVars, sendCh, msgCh, recvCh, appVars, connVars,
                   logicVars, toClient, brokerVars>>

\* case <-flushSig.C: the delayed flush of the buffer
HsFlush ==
    /\ hsOn /\ hsTodo = <<>> /\ wbuf # <<>>
    /\ IF conn = "up"
       THEN toServer' = toServer \o wbuf /\ wbuf' = <<>> /\ UNCHANGED hsTodo
       ELSE hsTodo' = <<NotifyNet>> /\ UNCHANGED <<toServer, wbuf>>
    /\ UNCHANGED <<callVars, usedIDs, storeVars, sendCh, msgCh, recvCh, appVars, connVars,
                   logicSendC, logicVars, hsOn, toClient, brokerVars>>

\* case <-c.stopSig
HsStop ==
    /\ hsOn /\ hsTodo = <<>> /\ conn = "stopped"
    /\ hsOn' = FALSE
    /\ UNCHANGED <<callVars, usedIDs, storeVars, sendCh, msgCh, recvCh, appVars, connVars,
                   logicSendC, logicVars, hsTodo, wbuf, netVars, brokerVars>>

\* notifyPubMsg, notifyNetMsg (which is followed by the return)
HsNotify ==
    /\ hsTodo # <<>> /\ Head(hsTodo).op \in {"notify", "notifyNet"}
    /\ Len(msgCh) < MsgCap
    /\ msgCh' = Append(msgCh, Head(hsTodo).obj)
    /\ hsOn' = (Head(hsTodo).op = "notify")
    /\ hsTodo' = Tail(hsTodo)
    /\ UNCHANGED <<callVars, usedIDs, storeVars, sendCh, recvCh, appVars, connVars,
                   logicSendC, logicVars, wbuf, netVars, brokerVars>>

\* persist.Store(sendKey(p.PacketID), pkt) of a PUBREL
HsStore ==
    /\ hsTodo # <<>> /\ Head(hsTodo).op = "storeSent"
    /\ sendStore' = [sendStore EXCEPT ![Head(hsTodo).id] = Head(hsTodo).pkt]
    /\ hsTodo' = Tail(hsTodo)
    /\ UNCHANGED <<callVars, usedIDs, recvStore, sendCh, msgCh, recvCh, appVars, connVars,
                   logicSendC, logicVars, hsOn, wbuf, netVars, brokerVars>>

\* persist.Delete(sendKey(p.PacketID)) of a PUBACK or PUBCOMP: the packet that
\* was written answers the server's identifier, the key is of the client's.
HsDelete ==
    /\ hsTodo # <<>> /\ Head(hsTodo).op = "delete"
    /\ sendStore' = [sendStore EXCEPT ![Head(hsTodo).id] = "none"]
    /\ hsTodo' = Tail(hsTodo)
    /\ UNCHANGED <<callVars, usedIDs, recvStore, sendCh, msgCh, recvCh, appVars, connVars,
                   logicSendC, logicVars, hsOn, wbuf, netVars, brokerVars>>

-----------------------------------------------------------------------------
(* logic(): one packet of the server at a time. *)

\* originPkt, ok := idGen.getExtra(id)
Origin(i) == IF i \in IDs THEN usedIDs[i] ELSE None

\* Mutants: the identifier is not freed; the entry is deleted first; the entry
\* stays; nothing is reported.
CompleteNoFree(r, i)      == <<Notify(r), DeleteSent(i)>>
CompleteDeleteFirst(r, i) == <<DeleteSent(i), Notify(r), FreeID(i)>>
CompleteNoDelete(r, i)    == <<Notify(r), FreeID(i)>>
CompleteSilent(r, i)      == <<FreeID(i), DeleteSent(i)>>

\* The request is complete: report it, free the identifier, drop the entry.
Complete(r, i) == <<Notify(r), FreeID(i), DeleteSent(i)>>

\* The cases of the switch over the packet types.  An acknowledgement counts
\* only if idGen has a packet of the right type (and QoS) for its identifier.
OnSubAck(i)   == IF Origin(i) \in Subs   THEN Complete(Origin(i), i) ELSE <<>>
OnUnsubAck(i) == IF Origin(i) \in Unsubs THEN Complete(Origin(i), i) ELSE <<>>
OnPubAck(i)   == IF Origin(i) \in Pub1   THEN Complete(Origin(i), i) ELSE <<>>

\* Mutants: the acknowledgement is sent first; QoS 2 is delivered twice.
OnPublishAckFirst(d, i) ==
    CASE d \in In0 -> <<Deliver(d)>>
      [] d \in In1 -> <<SendPkt("PUBACK", i), Deliver(d), StoreRecv(i, "PUBLISH")>>
      [] d \in In2 -> <<SendPkt("PUBREC", i), Deliver(d), StoreRecv(i, "PUBLISH")>>
OnPublishTwice(d, i) ==
    CASE d \in In0 -> <<Deliver(d)>>
      [] d \in In1 -> <<Deliver(d), SendPkt("PUBACK", i), StoreRecv(i, "PUBLISH")>>
      [] d \in In2 -> <<Deliver(d), SendPkt("PUBREC", i), StoreRecv(i, "PUBLISH"), Deliver(d)>>

\* A message of the server: to the application, then the answer, then the store.
OnPublish(d, i) ==
    CASE d \in In0 -> <<Deliver(d)>>
      [] d \in In1 -> <<Deliver(d), SendPkt("PUBACK", i), StoreRecv(i, "PUBLISH")>>
      [] d \in In2 -> <<Deliver(d), SendPkt("PUBREC", i), StoreRecv(i, "PUBLISH")>>

\* Mutant: a QoS 2 publish is complete at PUBREC.
OnPubRecEarly(i) ==
    IF Origin(i) \in Pub2 THEN <<SendPkt("PUBREL", i)>> \o Complete(Origin(i), i) ELSE <<>>

OnPubRec(i) == IF Origin(i) \in Pub2 THEN <<SendPkt("PUBREL", i)>> ELSE <<>>

\* The server's PUBREL is looked up in the table of the client's identifiers.
OnPubRel(i) ==
    IF Origin(i) \in Pub2 THEN <<SendPkt("PUBCOMP", i), StoreRecv(i, "PUBREL")>> ELSE <<>>

OnPubComp(i) ==
    IF Origin(i) \in Pub2 THEN <<SendPkt("PUBREL", i)>> \o Complete(Origin(i), i) ELSE <<>>

Handler(p) ==
    CASE p.type = "SUBACK"   -> OnSubAck(p.id)
      [] p.type = "UNSUBACK" -> OnUnsubAck(p.id)
      [] p.type = "PUBLISH"  -> OnPublish(p.obj, p.id)
      [] p.type = "PUBACK"   -> OnPubAck(p.id)
      [] p.type = "PUBREC"   -> OnPubRec(p.id)
      [] p.type = "PUBREL"   -> OnPubRel(p.id)
      [] p.type = "PUBCOMP"  -> OnPubComp(p.id)

\* case pkt := <-c.netRecvC: possible even when stopSig is closed
LogicRecv ==
    /\ logicOn /\ todo = <<>> /\ toClient # <<>>
    /\ toClient' = Tail(toClient)
    /\ todo' = Handler(Head(toClient))
    /\ UNCHANGED <<callVars, usedIDs, storeVars, sendCh, msgCh, recvCh, appVars, connVars,
                   logicSendC, logicOn, hsVars, toServer, brokerVars>>

LogicDo(op) ==
    /\ todo # <<>> /\ Head(todo).op = op
    /\ todo' = Tail(todo)

\* notifyPubMsg, notifySubMsg, notifyUnSubMsg
LogicNotify ==
    /\ LogicDo("notify")
    /\ Len(msgCh) < MsgCap
    /\ msgCh' = Append(msgCh, Head(todo).obj)
    /\ UNCHANGED <<callVars, usedIDs, storeVars, sendCh, recvCh, appVars, connVars,
                   logicSendC, logicOn, hsVars, netVars, brokerVars>>

\* idGen.free(p.PacketID)
LogicFree ==
    /\ LogicDo("free")
    /\ usedIDs' = [usedIDs EXCEPT ![Head(todo).id] = None]
    /\ UNCHANGED <<callVars, storeVars, sendCh, msgCh, recvCh, appVars, connVars,
                   logicSendC, logicOn, hsVars, netVars, brokerVars>>

\* persist.Delete(sendKey(p.PacketID))
LogicDelete ==
    /\ LogicDo("delete")
    /\ sendStore' = [sendStore EXCEPT ![Head(todo).id] = "none"]
    /\ UNCHANGED <<callVars, usedIDs, recvStore, sendCh, msgCh, recvCh, appVars, connVars,
                   logicSendC, logicOn, hsVars, netVars, brokerVars>>

\* c.parent.recvCh <- p
LogicDeliver ==
    /\ LogicDo("deliver")
    /\ Len(recvCh) < RecvCap
    /\ recvCh' = Append(recvCh, Head(todo).obj)
    /\ UNCHANGED <<callVars, usedIDs, storeVars, sendCh, msgCh, appVars, connVars,
                   logicSendC, logicOn, hsVars, netVars, brokerVars>>

\* persist.Store(recvKey(p.PacketID), pkt)
LogicStore ==
    /\ LogicDo("storeRecv")
    /\ recvStore' = [recvStore EXCEPT ![Head(todo).id] = Head(todo).pkt]
    /\ UNCHANGED <<callVars, usedIDs, sendStore, sendCh, msgCh, recvCh, appVars, connVars,
                   logicSendC, logicOn, hsVars, netVars, brokerVars>>

\* Mutant: the packet is dropped when the channel is full.
LogicSendDrop ==
    /\ LogicDo("send")
    /\ IF Len(logicSendC) < LogicCap
       THEN logicSendC' = Append(logicSendC, Pkt(Head(todo).pkt, Head(todo).id, None))
       ELSE UNCHANGED logicSendC
    /\ UNCHANGED <<callVars, usedIDs, storeVars, sendCh, msgCh, recvCh, appVars, connVars,
                   logicOn, hsVars, netVars, brokerVars>>

\* Mutant: a queue without a bound.
LogicSendUnbounded ==
    /\ LogicDo("send")
    /\ logicSendC' = Append(logicSendC, Pkt(Head(todo).pkt, Head(todo).id, None))
    /\ UNCHANGED <<callVars, usedIDs, storeVars, sendCh, msgCh, recvCh, appVars, connVars,
                   logicOn, hsVars, netVars, brokerVars>>

\* c.send(pkt): into the channel, or dropped once stopSig is closed
LogicSend ==
    /\ LogicDo("send")
    /\ \/ /\ Len(logicSendC) < LogicCap
          /\ logicSendC' = Append(logicSendC, Pkt(Head(todo).pkt, Head(todo).id, None))
       \/ /\ conn = "stopped"
          /\ UNCHANGED logicSendC
    /\ UNCHANGED <<callVars, usedIDs, storeVars, sendCh, msgCh, recvCh, appVars, connVars,
                   logicOn, hsVars, netVars, brokerVars>>

\* case <-c.stopSig, or netRecvC closed and empty: the deferred function
\* closes the connection and reports it.
LogicExit ==
    /\ logicOn /\ todo = <<>> /\ conn = "stopped"
    /\ Len(msgCh) < MsgCap
    /\ msgCh' = Append(msgCh, None)
    /\ logicOn' = FALSE
    /\ UNCHANGED <<callVars, usedIDs, storeVars, sendCh, recvCh, appVars, connVars,
                   logicSendC, todo, hsVars, netVars, brokerVars>>

-----------------------------------------------------------------------------
(* handleMsg() and handleTopicMsg(): every message gets a goroutine. *)

HandleMsg ==
    /\ msgCh # <<>>
    /\ msgCh' = Tail(msgCh)
    /\ notified' = IF Head(msgCh) = None THEN notified
                   ELSE [notified EXCEPT ![Head(msgCh)] = @ + 1]
    /\ UNCHANGED <<callVars, usedIDs, storeVars, sendCh, recvCh, dispatched, connVars,
                   logicSendC, logicVars, hsVars, netVars, brokerVars>>

HandleTopicMsg ==
    /\ recvCh # <<>>
    /\ recvCh' = Tail(recvCh)
    /\ dispatched' = [dispatched EXCEPT ![Head(recvCh)] = @ + 1]
    /\ UNCHANGED <<callVars, usedIDs, storeVars, sendCh, msgCh, notified, connVars,
                   logicSendC, logicVars, hsVars, netVars, brokerVars>>

-----------------------------------------------------------------------------
(* The end of a connection and the next one. *)

\* The socket fails.
NetBreak ==
    /\ conn = "up" /\ losses < MaxLosses
    /\ conn' = "broken" /\ losses' = losses + 1
    /\ StreamBroken
    /\ UNCHANGED <<callVars, usedIDs, storeVars, sendCh, msgCh, recvCh, appVars,
                   logicSendC, logicVars, hsVars, brokerVars>>

\* handleNetRecv(): the error of Decode is reported, then c.exit()
NetRecvExit ==
    /\ conn = "broken"
    /\ Len(msgCh) < MsgCap
    /\ msgCh' = Append(msgCh, None)
    /\ conn' = "stopped"
    /\ UNCHANGED <<callVars, usedIDs, storeVars, sendCh, recvCh, appVars, losses,
                   logicSendC, logicVars, hsVars, netVars, brokerVars>>

\* connect() again, after the reconnect delay: a new clientConn, the
\* same identifiers, channels of the client and store.  (The delay is assumed
\* to be long enough for the old handleSend() to see stopSig.)
Reconnect ==
    /\ conn = "stopped" /\ ~logicOn /\ ~hsOn
    /\ conn' = "up"
    /\ logicSendC' = <<>>
    /\ logicOn' = TRUE /\ todo' = <<>>
    /\ hsOn' = TRUE /\ hsTodo' = <<>> /\ wbuf' = <<>>
    /\ toServer' = <<>> /\ toClient' = <<>>
    /\ BrokerNewConnection
    /\ UNCHANGED <<callVars, usedIDs, storeVars, sendCh, msgCh, recvCh, appVars, losses>>

\* Steps of the server, as long as there is a connection: what it owes the
\* client, and new messages.
ServerAnswer ==
    /\ conn = "up"
    /\ BrokerRecv \/ \E d \in Deliveries : BrokerResend(d)
    /\ UNCHANGED <<callVars, usedIDs, storeVars, sendCh, msgCh, recvCh, appVars, connVars,
                   logicSendC, logicVars, hsVars>>

ServerPublish ==
    /\ conn = "up"
    /\ \E d \in Deliveries, i \in IDs \cup {0} : BrokerPublish(d, i)
    /\ UNCHANGED <<callVars, usedIDs, storeVars, sendCh, msgCh, recvCh, appVars, connVars,
                   logicSendC, logicVars, hsVars>>

-----------------------------------------------------------------------------
Call(r)    == CallNext(r) \/ CallStore(r) \/ CallSend(r)
HandleSend == HsTakeSend \/ HsTakeLogic \/ HsFlush \/ HsStop \/ HsNotify \/ HsStore \/ HsDelete
Logic      == \/ LogicRecv \/ LogicNotify \/ LogicFree \/ LogicDelete \/ LogicDeliver
              \/ LogicStore \/ LogicSend \/ LogicExit

\* Nothing is left to do: every call has returned and every queue is empty.
Quiet ==
    /\ \A r \in Reqs : pc[r] \in {"sent", "unused"}
    /\ \A d \in Deliveries : bpc[d] # "new"
    /\ conn = "up" /\ losses = MaxLosses /\ bResend = {}
    /\ todo = <<>> /\ hsTodo = <<>> /\ wbuf = <<>> /\ toServer = <<>> /\ toClient = <<>>
    /\ sendCh = <<>> /\ msgCh = <<>> /\ recvCh = <<>> /\ logicSendC = <<>>

\* A quiet session stays as it is; any other state without a step is a deadlock.
Idle == Quiet /\ UNCHANGED vars

Next ==
    \/ \E r \in Reqs : Call(r)
    \/ HandleSend \/ Logic \/ HandleMsg \/ HandleTopicMsg
    \/ NetBreak \/ NetRecvExit \/ Reconnect \/ ServerAnswer \/ ServerPublish
    \/ Idle

Spec == Init /\ [][Next]_vars

\* Every goroutine runs as long as it is not blocked, the server answers and
\* the reconnect timer fires.  Calls, deliveries and failures need not happen.
Fairness ==
    /\ \A r \in Reqs : WF_vars(CallStore(r) \/ CallSend(r))
    /\ WF_vars(HandleSend) /\ WF_vars(Logic)
    /\ WF_vars(HandleMsg) /\ WF_vars(HandleTopicMsg)
    /\ WF_vars(NetRecvExit) /\ WF_vars(Reconnect)
    /\ WF_vars(ServerAnswer)

FairSpec == Spec /\ Fairness

-----------------------------------------------------------------------------
OpNames == {"notify", "notifyNet", "free", "delete", "deliver", "storeRecv", "storeSent", "send"}
Ops     == [op : OpNames, id : IDs \cup {0}, obj : Reqs \cup Deliveries \cup {None},
            pkt : Types \cup {"none"}]
Stored  == {"none", "PUBLISH", "PUBREL"}

\* The types; no channel holds more than its capacity.
TypeOK ==
    /\ nextID \in 0 .. NumIDs
    /\ usedIDs \in [IDs -> Reqs \cup {None}]
    /\ reqID \in [Reqs -> IDs \cup {0}]
    /\ pc \in [Reqs -> {"unused", "new", "store", "send", "sent"}]
    /\ sendStore \in [IDs -> Stored] /\ recvStore \in [IDs -> Stored]
    /\ sendCh \in Seq(Packets) /\ Len(sendCh) <= SendCap
    /\ msgCh \in Seq(Reqs \cup {None}) /\ Len(msgCh) <= MsgCap
    /\ recvCh \in Seq(Deliveries) /\ Len(recvCh) <= RecvCap
    /\ notified \in [Reqs -> Nat] /\ dispatched \in [Deliveries -> Nat]
    /\ conn \in {"up", "broken", "stopped"} /\ losses \in 0 .. MaxLosses
    /\ logicSendC \in Seq(Packets) /\ Len(logicSendC) <= LogicCap
    /\ logicOn \in BOOLEAN /\ todo \in Seq(Ops)
    /\ hsOn \in BOOLEAN /\ hsTodo \in Seq(Ops) /\ wbuf \in Seq(Packets)
    /\ toServer \in Seq(Packets) /\ toClient \in Seq(Packets)
    /\ got \in [Reqs -> Nat] /\ bRecv \subseteq IDs \cup {0}
    /\ bpc \in [Deliveries -> {"unused", "new", "sent", "rel", "done"}]
    /\ bid \in [Deliveries -> IDs \cup {0}] /\ bResend \subseteq Deliveries

Times(x, s) == Cardinality({k \in DOMAIN s : s[k] = x})

\* How often the success of r has been reported, or is about to be.
Reported(r) == notified[r] + Times(r, msgCh)

\* How often d has been given to the application, or is about to be.
Given(d) == dispatched[d] + Times(d, recvCh)

\* A success is not reported before the server has the packet, and for QoS 2
\* not before the server has released its identifier (client_conn.go:78-145,
\* 174-191).  A QoS 0 publish is the exception: it is reported when it is in
\* the buffer (client_conn.go:280-284).
SuccessMeansReceived ==
    \A r \in Reqs \ Pub0 : Reported(r) > 0 => got[r] > 0 /\ reqID[r] \notin bRecv

\* However often the server repeats an acknowledgement, and in spite of the
\* PUBREL that is sent again on PUBCOMP, each request is reported once.
ReportedOnce == \A r \in Reqs : Reported(r) <= 1

\* An identifier is not freed silently: when it no longer leads to its
\* request, the request has been reported (client_conn.go:91-94, 104-107, ...).
FreedWasReported ==
    \A r \in Reqs : reqID[r] # 0 /\ usedIDs[reqID[r]] # r => Reported(r) = 1

\* The server never has the acknowledgement of a message that did not reach
\* the application's queue: recvCh <- p comes before c.send (client_conn.go:115).
AckedWasGiven ==
    \A d \in In1 \cup In2 : bpc[d] \in {"rel", "done"} => Given(d) > 0

\* A message is given to the application at most once per connection.
GivenOncePerConnection == \A d \in Deliveries : Given(d) <= 1 + losses

\* A publish with QoS > 0 that has been handed to the sender and is not
\* complete is in the store, as PUBLISH or as PUBREL (README.md:199), unless
\* the server used its identifier for a delivery: then the answer to that
\* deletes the entry of the client's own (client_conn.go:312-317).
PersistedWhileInFlight ==
    \A r \in Pub1 \cup Pub2 :
        /\ pc[r] \in {"send", "sent"} /\ usedIDs[reqID[r]] = r
        /\ \A d \in Deliveries : bid[d] # reqID[r]
        => sendStore[reqID[r]] # "none"

\* When nothing is going on, a reported QoS 1 publish has left nothing in the
\* store.  Of a QoS 2 publish a PUBREL may be left: it is sent, and stored,
\* once more on PUBCOMP, and handleSend() may get to that only after logic()
\* deleted the entry (client_conn.go:182-188, 309-311).
StoreCleared ==
    Quiet => \A r \in Pub1 \cup Pub2 : Reported(r) > 0 =>
                sendStore[reqID[r]] \in (IF r \in Pub2 THEN {"none", "PUBREL"} ELSE {"none"})

\* Every request that was handed over is eventually reported.
Completes ==
    \A r \in Reqs : pc[r] = "sent" ~> Reported(r) > 0

\* Every message delivered with QoS 1 is eventually acknowledged.
InboundQos1Acked ==
    \A d \in In1 : bpc[d] = "sent" ~> bpc[d] = "done"

\* "PubCompPacket is the response to a PubRelPacket" (pkt_pub.go:400): the
\* release of a message delivered with QoS 2 is answered.
InboundQos2Completes ==
    \A d \in In2 : bpc[d] = "rel" ~> bpc[d] = "done"

\* "session state should be persisted and be recovered when next time
\* connected to server without clean session flag set" (README.md:199): a
\* persisted publish survives the loss of the connection.
SessionRecovered ==
    \A r \in Pub1 \cup Pub2 : pc[r] = "sent" ~> Reported(r) > 0
=============================================================================
