----------------------------- MODULE Connection -----------------------------
(***************************************************************************)
(* The life of the connections of one client to one server: connect() and  *)
(* its reconnection (client_conn_options.go), the goroutines of a          *)
(* connection, handleNetRecv(), handleSend(), logic() and keepalive()      *)
(* (client_conn.go), and Disconnect() and Destroy() (client_async.go).     *)
(*                                                                         *)
(* Every run of connect() has a number; conns[a] is what run a and the     *)
(* clientConn it makes consist of.  What the packets of the session do is  *)
(* the subject of Session: here an application message of the server is    *)
(* "DATA", of QoS 1, and only the channels it blocks matter.               *)
(***************************************************************************)
EXTENDS Naturals, Sequences, FiniteSets

CONSTANTS
    MaxAttempts,      \* bound: runs of connect()
    MaxData,          \* bound: application messages of the server
    MaxCalls,         \* bound: calls of Disconnect and Destroy
    autoReconnect,    \* connectOptions.autoReconnect
    protoCompromise,  \* connectOptions.protoCompromise
    keepalive,        \* options.keepalive > 0
    FirstVersion,     \* connectOptions.protoVersion: 4 (V311) or 5 (V5)
    QueueCap,         \* capacity of logicSendC and of netRecvC (10)
    MsgCap            \* capacity of msgCh (10)

Attempts == 1 .. MaxAttempts
V311     == 4
V5       == 5
RecvCap  == 1         \* recvCh

ASSUME BoundsAssumption ==
    /\ MaxAttempts \in Nat \ {0} /\ {MaxData, MaxCalls} \subseteq Nat
    /\ QueueCap \in Nat \ {0} /\ MsgCap \in Nat \ {0}
    /\ {autoReconnect, protoCompromise, keepalive} \subseteq BOOLEAN
    /\ FirstVersion \in {V311, V5}

VARIABLES
    conns,             \* the runs of connect() and their connections
    connectedServers,  \* the entry of the server: a run, or 0 for none
    closing,           \* the client's context is cancelled
    msgCh,             \* number of messages in msgCh
    recvCh,            \* number of messages in recvCh
    handlers,          \* which of handleMsg, handleTopicMsg are running
    data,              \* application messages sent by the server so far
    call,              \* the call of Disconnect or Destroy in progress
    panicked           \* a send on a closed channel

vars == <<conns, connectedServers, closing, msgCh, recvCh, handlers, data, call, panicked>>

NewConn(version) ==
    [pc         |-> "none",   \* where connect() is
     version    |-> version,  \* its parameter
     sock       |-> "none",   \* "open", "peer" (closed by the server), "closed"
     stopSet    |-> FALSE,    \* ctx, exit and stopSig have been assigned
     exited     |-> FALSE,    \* exit() was called
     parentExit |-> FALSE,
     recv       |-> "none",   \* handleNetRecv: "none", "run", "report", "done"
     send       |-> "none",   \* handleSend: "none", "run", "report", "bye", "done"
     alive      |-> "none",   \* keepalive: "none", "tick", "wait", "done"
     logicSendC |-> <<>>,     \* "PINGREQ", "PUBACK", "DISCONNECT"
     sendClosed |-> FALSE,    \* close(logicSendC)
     netRecvC   |-> <<>>,
     keepaliveC |-> 0,
     wire       |-> <<>>,     \* sent by the server and not yet read
     server     |-> "none",   \* the server: "none", "hello", "up" or "leaving"
     discSent   |-> FALSE]    \* history: the DISCONNECT was written

Init ==
    /\ conns = [a \in Attempts |-> NewConn(FirstVersion)]
    /\ connectedServers = 0
    /\ closing = FALSE
    /\ msgCh = 0 /\ recvCh = 0
    /\ handlers = {"handleMsg", "handleTopicMsg"}
    /\ data = 0
    /\ call = [pc |-> "idle", count |-> 0, conn |-> 0, sawStop |-> FALSE, destroy |-> FALSE, result |-> FALSE]
    /\ panicked = FALSE

clientVars == <<connectedServers, closing, msgCh, recvCh, handlers, data, call, panicked>>

\* <-c.stopSig is ready; a stopSig not yet assigned is a nil channel.
Stopped(a) == conns[a].stopSet /\ (conns[a].exited \/ closing)

\* netRecvC is closed by handleNetRecv when it returns.
RecvClosed(a) == conns[a].recv = "done"

Update(a, c) == conns' = [conns EXCEPT ![a] = c]

\* addWorker: nothing is started once the client is closing.
Started(state) == IF closing THEN "none" ELSE state

\* Mutant: a buffer without a limit.
NotifyNetUnbounded == msgCh' = msgCh + 1

\* notifyNetMsg: blocks while msgCh is full
NotifyNet ==
    /\ msgCh < MsgCap
    /\ msgCh' = msgCh + 1


\* c.send(packet): queued, or the connection stops; c is its next state.
SendOrStop(a, packet, c) ==
    \/ /\ Len(conns[a].logicSendC) < QueueCap
       /\ Update(a, [c EXCEPT !.logicSendC = Append(@, packet)])
    \/ /\ Stopped(a)
       /\ Update(a, c)

\* if c.autoReconnect && !parent.isClosing() { goto reconnect }; return
RetryOrReturn == IF autoReconnect /\ ~closing THEN "delay" ELSE "defer"

-----------------------------------------------------------------------------
(* connect() *)

\* ConnectServer: the first run.
ConnectServer ==
    /\ conns[1].pc = "none" /\ ~closing
    /\ Update(1, [conns[1] EXCEPT !.pc = "dial"])
    /\ UNCHANGED clientVars

Dial(a) ==
    /\ conns[a].pc = "dial"
    /\ \/ Update(a, [conns[a] EXCEPT !.pc = RetryOrReturn])
       \/ Update(a, [conns[a] EXCEPT !.sock = "open", !.pc = IF closing THEN "defer" ELSE "store"])
    /\ UNCHANGED clientVars

\* parent.connectedServers.Store(server, connImpl): visible before stopSig is set
StoreConn(a) ==
    /\ conns[a].pc = "store"
    /\ connectedServers' = a
    /\ Update(a, [conns[a] EXCEPT !.pc = "context"])
    /\ UNCHANGED <<closing, msgCh, recvCh, handlers, data, call, panicked>>

\* context.WithCancel(parent.ctx); stopSig; addWorker(handleNetRecv)
SetContext(a) ==
    /\ conns[a].pc = "context"
    /\ Update(a, [conns[a] EXCEPT !.stopSet = TRUE, !.recv = Started("run"), !.pc = "hello"])
    /\ UNCHANGED clientVars

\* sendRaw(connPkt): the CONNECT is written, cannot be encoded, or the flush
\* fails ...
SendConnect(a) ==
    /\ conns[a].pc = "hello"
    /\ \/ Update(a, [conns[a] EXCEPT !.server = "hello", !.pc = "connack"])
       \/ Update(a, [conns[a] EXCEPT !.pc = RetryOrReturn])
       \/ conns[a].sock = "peer" /\ Update(a, [conns[a] EXCEPT !.pc = "flush"])
    /\ UNCHANGED clientVars

\* ... which is reported first.
SendConnectReport(a) ==
    /\ conns[a].pc = "flush"
    /\ NotifyNet
    /\ Update(a, [conns[a] EXCEPT !.pc = RetryOrReturn])
    /\ UNCHANGED <<connectedServers, closing, recvCh, handlers, data, call, panicked>>

\* The first packet of the server is its answer: accepted.
ConnAccepted(a) ==
    /\ conns[a].pc = "connack"
    /\ conns[a].netRecvC # <<>> /\ Head(conns[a].netRecvC) = "CONNACK"
    /\ Update(a, [conns[a] EXCEPT !.netRecvC = Tail(@), !.pc = "logic",
                                  !.send = Started("run"),
                                  !.alive = IF keepalive THEN Started("tick") ELSE "none"])
    /\ UNCHANGED clientVars

\* The version is not supported: another run of connect() with the lower one.
ConnCompromise(a) ==
    /\ conns[a].pc = "connack"
    /\ conns[a].netRecvC # <<>> /\ Head(conns[a].netRecvC) = "UNSUPPORTED"
    /\ conns[a].version > V311 /\ protoCompromise /\ a < MaxAttempts
    /\ conns' = [conns EXCEPT
                   ![a] = [conns[a] EXCEPT !.netRecvC = Tail(@), !.sendClosed = TRUE, !.pc = "defer"],
                   ![a + 1] = [conns[a + 1] EXCEPT !.pc = Started("dial"), !.version = conns[a].version - 1]]
    /\ UNCHANGED clientVars

\* Refused, answered by something else, or the stream ended.
ConnRefused(a) ==
    /\ conns[a].pc = "connack"
    /\ LET q == conns[a].netRecvC IN
       \/ /\ q # <<>> /\ Head(q) # "CONNACK"
          /\ ~(Head(q) = "UNSUPPORTED" /\ conns[a].version > V311 /\ protoCompromise)
          /\ Update(a, [conns[a] EXCEPT !.netRecvC = Tail(@), !.sendClosed = TRUE,
                                        !.pc = RetryOrReturn])
       \/ /\ q = <<>> /\ RecvClosed(a)
          /\ Update(a, [conns[a] EXCEPT !.sendClosed = TRUE, !.pc = RetryOrReturn])
    /\ UNCHANGED clientVars

\* Mutant: a connection that stops before it is accepted is not retried.
ConnStoppedReturn(a) ==
    /\ conns[a].pc = "connack" /\ Stopped(a)
    /\ Update(a, [conns[a] EXCEPT !.pc = "defer"])
    /\ UNCHANGED clientVars

\* case <-connImpl.stopSig
ConnStopped(a) ==
    /\ conns[a].pc = "connack" /\ Stopped(a)
    /\ Update(a, [conns[a] EXCEPT !.pc = RetryOrReturn])
    /\ UNCHANGED clientVars

\* Mutant: an intended disconnect is not looked at.
AfterLogicReconnect(a) ==
    /\ conns[a].pc = "after"
    /\ Update(a, [conns[a] EXCEPT !.pc = IF closing THEN "defer" ELSE "delay"])
    /\ UNCHANGED clientVars

\* if parent.isClosing() || connImpl.parentExiting() { return }, else reconnect
AfterLogic(a) ==
    /\ conns[a].pc = "after"
    /\ Update(a, [conns[a] EXCEPT
                    !.pc = IF closing \/ conns[a].parentExit THEN "defer" ELSE "delay"])
    /\ UNCHANGED clientVars

\* The reconnect timer fires: another run of connect(), with the same version
\* (past the bound it is not modelled).
Reconnect(a) ==
    /\ conns[a].pc = "delay"
    /\ IF a < MaxAttempts
       THEN conns' = [conns EXCEPT
                        ![a].pc = "defer",
                        ![a + 1] = [conns[a + 1] EXCEPT !.pc = Started("dial"), !.version = conns[a].version]]
       ELSE Update(a, [conns[a] EXCEPT !.pc = "defer"])
    /\ UNCHANGED clientVars

\* case <-parent.stopSig
DelayStopped(a) ==
    /\ conns[a].pc = "delay" /\ closing
    /\ Update(a, [conns[a] EXCEPT !.pc = "defer"])
    /\ UNCHANGED clientVars

\* The deferred functions: conn.Close(), then connectedServers.Delete(server),
\* whichever connection the entry is by now.
Deferred(a) ==
    /\ conns[a].pc = "defer"
    /\ connectedServers' = 0
    /\ Update(a, [conns[a] EXCEPT !.sock = IF @ = "none" THEN @ ELSE "closed",
                                  !.wire = <<>>, !.pc = "done"])
    /\ UNCHANGED <<closing, msgCh, recvCh, handlers, data, call, panicked>>

-----------------------------------------------------------------------------
(* logic() *)

\* An application message goes to recvCh, and nothing else can end the wait;
\* then it is acknowledged.
LogicData(a) ==
    /\ conns[a].pc = "logic" /\ conns[a].netRecvC # <<>>
    /\ Update(a, [conns[a] EXCEPT !.netRecvC = Tail(@), !.pc = "deliver"])
    /\ UNCHANGED clientVars

LogicDeliver(a) ==
    /\ conns[a].pc = "deliver"
    /\ recvCh < RecvCap
    /\ recvCh' = recvCh + 1
    /\ Update(a, [conns[a] EXCEPT !.pc = "ack"])
    /\ UNCHANGED <<connectedServers, closing, msgCh, handlers, data, call, panicked>>

\* c.send(PubAckPacket)
LogicAck(a) ==
    /\ conns[a].pc = "ack"
    /\ SendOrStop(a, "PUBACK", [conns[a] EXCEPT !.pc = "logic"])
    /\ UNCHANGED clientVars

\* The loop ends; the deferred function closes the connection ...
LogicReturn(a) ==
    /\ conns[a].pc = "logic"
    /\ Stopped(a) \/ (RecvClosed(a) /\ conns[a].netRecvC = <<>>)
    /\ Update(a, [conns[a] EXCEPT !.sock = "closed", !.wire = <<>>, !.pc = "report"])
    /\ UNCHANGED clientVars

\* ... and reports its end.
LogicReport(a) ==
    /\ conns[a].pc = "report"
    /\ NotifyNet
    /\ Update(a, [conns[a] EXCEPT !.pc = "after"])
    /\ UNCHANGED <<connectedServers, closing, recvCh, handlers, data, call, panicked>>

-----------------------------------------------------------------------------
(* handleNetRecv() *)

\* A PINGRESP always says that it is of version V311 (pkt_ping.go).
Mismatch(a) == Head(conns[a].wire) = "PINGRESP" /\ conns[a].version # V311

RecvPacket(a) ==
    /\ conns[a].recv = "run" /\ conns[a].sock \in {"open", "peer"} /\ conns[a].wire # <<>>
    /\ ~Mismatch(a)
    /\ LET p == Head(conns[a].wire)
           c == [conns[a] EXCEPT !.wire = Tail(@)]
       IN
       \/ /\ p = "PINGRESP" /\ c.keepaliveC < 1
          /\ Update(a, [c EXCEPT !.keepaliveC = @ + 1])
       \/ /\ p # "PINGRESP" /\ Len(c.netRecvC) < QueueCap
          /\ Update(a, [c EXCEPT !.netRecvC = Append(@, p)])
       \/ /\ Stopped(a)
          /\ Update(a, c)
    /\ UNCHANGED clientVars

\* if pkt.Version() != c.protoVersion { c.exit(); return }
RecvMismatch(a) ==
    /\ conns[a].recv = "run" /\ conns[a].sock \in {"open", "peer"} /\ conns[a].wire # <<>>
    /\ Mismatch(a)
    /\ Update(a, [conns[a] EXCEPT !.wire = Tail(@), !.exited = TRUE, !.recv = "done"])
    /\ UNCHANGED clientVars

\* Decode fails: the error is reported, then exit()
RecvError(a) ==
    /\ conns[a].recv = "run" /\ conns[a].sock # "open"
    /\ Update(a, [conns[a] EXCEPT !.recv = "report"])
    /\ UNCHANGED clientVars

\* Mutant: the connection is not told.
RecvReportOnly(a) ==
    /\ conns[a].recv = "report"
    /\ NotifyNet
    /\ Update(a, [conns[a] EXCEPT !.recv = "done"])
    /\ UNCHANGED <<connectedServers, closing, recvCh, handlers, data, call, panicked>>

\* Mutant: the receiver reconnects by itself.
RecvReportRedial(a) ==
    /\ conns[a].recv = "report"
    /\ NotifyNet
    /\ conns' = [b \in Attempts |->
                   IF b = a THEN [conns[b] EXCEPT !.exited = TRUE, !.recv = "done"]
                   ELSE IF b = a + 1 THEN [conns[b] EXCEPT !.pc = Started("dial")]
                   ELSE conns[b]]
    /\ UNCHANGED <<connectedServers, closing, recvCh, handlers, data, call, panicked>>

RecvReport(a) ==
    /\ conns[a].recv = "report"
    /\ NotifyNet
    /\ Update(a, [conns[a] EXCEPT !.exited = TRUE, !.recv = "done"])
    /\ UNCHANGED <<connectedServers, closing, recvCh, handlers, data, call, panicked>>

-----------------------------------------------------------------------------
(* handleSend() *)

SendStop(a) ==
    /\ conns[a].send = "run" /\ Stopped(a)
    /\ Update(a, [conns[a] EXCEPT !.send = "done"])
    /\ UNCHANGED clientVars

\* A packet reaches the server, or is lost with the connection; the server
\* answers a keepalive request.
SendLogic(a) ==
    /\ conns[a].send = "run"
    /\ conns[a].logicSendC # <<>> /\ Head(conns[a].logicSendC) # "DISCONNECT"
    /\ LET answered == Head(conns[a].logicSendC) = "PINGREQ" /\ conns[a].sock = "open" IN
       Update(a, [conns[a] EXCEPT !.logicSendC = Tail(@),
                                  !.wire = IF answered THEN Append(@, "PINGRESP") ELSE @])
    /\ UNCHANGED clientVars

\* The connection is closed and stopped after a DISCONNECT; c is its state.
Bye(a, c) ==
    Update(a, [c EXCEPT !.sock = "closed", !.wire = <<>>, !.exited = TRUE, !.send = "done"])

\* The DISCONNECT is written and flushed, or the flush fails ...
SendDisconnect(a) ==
    /\ conns[a].send = "run"
    /\ conns[a].logicSendC # <<>> /\ Head(conns[a].logicSendC) = "DISCONNECT"
    /\ LET c == [conns[a] EXCEPT !.logicSendC = Tail(@)] IN
       \/ conns[a].sock # "closed" /\ Bye(a, [c EXCEPT !.discSent = (conns[a].sock = "open")])
       \/ conns[a].sock # "open" /\ Update(a, [c EXCEPT !.send = "bye"])
    /\ UNCHANGED clientVars

\* ... which is reported first.
SendBye(a) ==
    /\ conns[a].send = "bye"
    /\ NotifyNet
    /\ Bye(a, conns[a])
    /\ UNCHANGED <<connectedServers, closing, recvCh, handlers, data, call, panicked>>

\* A packet that cannot be encoded, or a dead socket: the goroutine returns,
\* the connection is not stopped; an error of the flush ...
SendError(a) ==
    /\ conns[a].send = "run"
    /\ \/ Update(a, [conns[a] EXCEPT !.send = "done"])
       \/ conns[a].sock # "open" /\ Update(a, [conns[a] EXCEPT !.send = "report"])
    /\ UNCHANGED clientVars

\* ... is reported first.
SendReport(a) ==
    /\ conns[a].send = "report"
    /\ NotifyNet
    /\ Update(a, [conns[a] EXCEPT !.send = "done"])
    /\ UNCHANGED <<connectedServers, closing, recvCh, handlers, data, call, panicked>>

-----------------------------------------------------------------------------
(* keepalive() *)

\* The ticker: c.send(PingReqPacket)
AliveTick(a) ==
    /\ conns[a].alive = "tick"
    /\ SendOrStop(a, "PINGREQ", [conns[a] EXCEPT !.alive = "wait"])
    /\ UNCHANGED clientVars

\* <-c.keepaliveC: an answer, or closed
AliveAnswer(a) ==
    /\ conns[a].alive = "wait"
    /\ \/ /\ conns[a].keepaliveC > 0
          /\ Update(a, [conns[a] EXCEPT !.keepaliveC = @ - 1, !.alive = "tick"])
       \/ /\ conns[a].keepaliveC = 0 /\ RecvClosed(a)
          /\ Update(a, [conns[a] EXCEPT !.alive = "done"])
    /\ UNCHANGED clientVars

\* Mutant: the timeout ends the goroutine only.
AliveTimeoutQuiet(a) ==
    /\ conns[a].alive = "wait"
    /\ Update(a, [conns[a] EXCEPT !.alive = "done"])
    /\ UNCHANGED clientVars

\* <-timeoutTimer.C: c.exit()
AliveTimeout(a) ==
    /\ conns[a].alive = "wait"
    /\ Update(a, [conns[a] EXCEPT !.exited = TRUE, !.alive = "done"])
    /\ UNCHANGED clientVars

AliveStop(a) ==
    /\ conns[a].alive \in {"tick", "wait"} /\ Stopped(a)
    /\ Update(a, [conns[a] EXCEPT !.alive = "done"])
    /\ UNCHANGED clientVars

-----------------------------------------------------------------------------
(* handleMsg() and handleTopicMsg(), until the client is closing *)

HandleMsg ==
    /\ "handleMsg" \in handlers /\ msgCh > 0
    /\ msgCh' = msgCh - 1
    /\ UNCHANGED <<conns, connectedServers, closing, recvCh, handlers, data, call, panicked>>

HandleTopicMsg ==
    /\ "handleTopicMsg" \in handlers /\ recvCh > 0
    /\ recvCh' = recvCh - 1
    /\ UNCHANGED <<conns, connectedServers, closing, msgCh, handlers, data, call, panicked>>

HandlerStop(h) ==
    /\ h \in handlers /\ closing
    /\ handlers' = handlers \ {h}
    /\ UNCHANGED <<conns, connectedServers, closing, msgCh, recvCh, data, call, panicked>>

-----------------------------------------------------------------------------
(* Disconnect(server) and Destroy(false), one call at a time, and Destroy(true) at any time *)

CallReturns(result) ==
    [call EXCEPT !.pc = IF call.destroy THEN "cancel" ELSE "returned", !.result = result]

\* Disconnect, or Destroy(false), which disconnects from the server and then
\* cancels the context: connectedServers.Load(server)
DisconnectLoad(destroy) ==
    /\ call.pc \in {"idle", "returned", "destroyed"} /\ call.count < MaxCalls
    /\ LET c == [call EXCEPT !.count = @ + 1, !.destroy = destroy, !.conn = connectedServers] IN
       call' = IF connectedServers # 0 THEN [c EXCEPT !.pc = "flag"]
               ELSE [c EXCEPT !.pc = IF destroy THEN "cancel" ELSE "returned", !.result = FALSE]
    /\ UNCHANGED <<conns, connectedServers, closing, msgCh, recvCh, handlers, data, panicked>>

\* atomic.StoreUint32(&conn.parentExit, 1)
DisconnectFlag ==
    /\ call.pc = "flag"
    /\ Update(call.conn, [conns[call.conn] EXCEPT !.parentExit = TRUE])
    /\ call' = [call EXCEPT !.pc = "send"]
    /\ UNCHANGED <<connectedServers, closing, msgCh, recvCh, handlers, data, panicked>>

\* conn.send(packet): a closed channel is always ready, and panics
DisconnectSend ==
    /\ call.pc = "send"
    /\ LET c == conns[call.conn] IN
       \/ /\ ~c.sendClosed /\ Len(c.logicSendC) < QueueCap
          /\ Update(call.conn, [c EXCEPT !.logicSendC = Append(@, "DISCONNECT")])
          /\ call' = [call EXCEPT !.pc = "select"]
          /\ UNCHANGED panicked
       \/ /\ c.sendClosed
          /\ panicked' = TRUE
          /\ call' = [call EXCEPT !.pc = "panic"]
          /\ UNCHANGED conns
       \/ /\ Stopped(call.conn)
          /\ call' = [call EXCEPT !.pc = "select"]
          /\ UNCHANGED <<conns, panicked>>
    /\ UNCHANGED <<connectedServers, closing, msgCh, recvCh, handlers, data>>

\* The operands of the select are evaluated once: nil if not yet assigned.
DisconnectSelect ==
    /\ call.pc = "select"
    /\ call' = [call EXCEPT !.pc = "wait", !.sawStop = conns[call.conn].stopSet]
    /\ UNCHANGED <<conns, connectedServers, closing, msgCh, recvCh, handlers, data, panicked>>

\* case <-conn.stopSig: return true; case <-c.stopSig: return false
DisconnectWait ==
    /\ call.pc = "wait"
    /\ \/ call.sawStop /\ Stopped(call.conn) /\ call' = CallReturns(TRUE)
       \/ closing /\ call' = CallReturns(FALSE)
    /\ UNCHANGED <<conns, connectedServers, closing, msgCh, recvCh, handlers, data, panicked>>

\* Destroy has returned, as call number n.
Destroyed(n) ==
    [pc |-> "destroyed", count |-> n, conn |-> 0, sawStop |-> FALSE, destroy |-> FALSE, result |-> FALSE]

\* c.exit(): of Destroy(false) after the disconnect, of Destroy(true) at once,
\* also while a call of Disconnect waits
DestroyCancel ==
    /\ call.pc = "cancel"
    /\ closing' = TRUE
    /\ call' = Destroyed(call.count)
    /\ UNCHANGED <<conns, connectedServers, msgCh, recvCh, handlers, data, panicked>>

DestroyForce ==
    /\ ~closing /\ call.count < MaxCalls
    /\ closing' = TRUE
    /\ call' = IF call.pc \in {"idle", "returned"} THEN Destroyed(call.count + 1)
               ELSE [call EXCEPT !.count = @ + 1]
    /\ UNCHANGED <<conns, connectedServers, msgCh, recvCh, handlers, data, panicked>>

-----------------------------------------------------------------------------
(* The server (external) *)

\* The server answers the CONNECT: it accepts, does not support the version, or
\* refuses (sending something other than a CONNACK has the same effect).
ServerAnswer(a, answer) ==
    /\ conns[a].server = "hello" /\ conns[a].sock = "open"
    /\ answer = "UNSUPPORTED" => conns[a].version = V5 /\ a < MaxAttempts
    /\ Update(a, [conns[a] EXCEPT !.wire = Append(@, answer),
                                  !.server = IF answer = "CONNACK" THEN "up" ELSE "leaving"])
    /\ UNCHANGED clientVars

ServerData(a) ==
    /\ conns[a].server = "up" /\ conns[a].sock = "open" /\ data < MaxData
    /\ data' = data + 1
    /\ Update(a, [conns[a] EXCEPT !.wire = Append(@, "DATA")])
    /\ UNCHANGED <<connectedServers, closing, msgCh, recvCh, handlers, call, panicked>>

\* The server, or the network, ends the connection.
ServerClose(a) ==
    /\ conns[a].sock = "open"
    /\ Update(a, [conns[a] EXCEPT !.sock = "peer"])
    /\ UNCHANGED clientVars

-----------------------------------------------------------------------------
Connect(a) ==
    \/ Dial(a) \/ StoreConn(a) \/ SetContext(a) \/ SendConnect(a) \/ SendConnectReport(a)
    \/ ConnAccepted(a) \/ ConnCompromise(a) \/ ConnRefused(a) \/ ConnStopped(a)
    \/ LogicData(a) \/ LogicDeliver(a) \/ LogicAck(a) \/ LogicReturn(a) \/ LogicReport(a)
    \/ AfterLogic(a) \/ DelayStopped(a) \/ Deferred(a)
HandleNetRecv(a) == RecvPacket(a) \/ RecvMismatch(a) \/ RecvError(a) \/ RecvReport(a)
HandleSend(a)    == SendStop(a) \/ SendLogic(a) \/ SendDisconnect(a) \/ SendBye(a) \/ SendReport(a)
Keepalive(a)     == AliveTick(a) \/ AliveAnswer(a) \/ AliveTimeout(a) \/ AliveStop(a)
Handlers         == HandleMsg \/ HandleTopicMsg \/ \E h \in handlers : HandlerStop(h)
Disconnect       == DisconnectFlag \/ DisconnectSend \/ DisconnectSelect \/ DisconnectWait
Answers          == {"CONNACK", "REFUSED", "UNSUPPORTED"}

Next ==
    \/ ConnectServer
    \/ \E a \in Attempts :
         \/ Connect(a) \/ Reconnect(a) \/ HandleNetRecv(a) \/ HandleSend(a) \/ SendError(a)
         \/ Keepalive(a) \/ ServerData(a) \/ ServerClose(a)
         \/ \E answer \in Answers : ServerAnswer(a, answer)
    \/ Handlers
    \/ \E destroy \in BOOLEAN : DisconnectLoad(destroy)
    \/ Disconnect \/ DestroyCancel \/ DestroyForce

Spec == Init /\ [][Next]_vars

\* What a server owes a client: an answer to the CONNECT, or to hang up, and
\* to hang up when it has refused.
ServerOwes(a) ==
    \/ conns[a].server = "hello" /\ (ServerClose(a) \/ \E answer \in Answers : ServerAnswer(a, answer))
    \/ conns[a].server = "leaving" /\ ServerClose(a)

\* A goroutine runs unless it is blocked (the reconnect timer, the ticker and
\* the timeout of keepalive() fire), the select of keepalive() does not pass by a
\* stop signal for ever (it chooses among the ready cases at random), and the
\* server does what it owes.
Fairness ==
    /\ \A a \in Attempts :
         /\ WF_vars(Connect(a) \/ Reconnect(a))
         /\ WF_vars(HandleNetRecv(a)) /\ WF_vars(HandleSend(a))
         /\ WF_vars(Keepalive(a)) /\ WF_vars(AliveStop(a))
         /\ WF_vars(ServerOwes(a))
    /\ WF_vars(HandleMsg \/ HandlerStop("handleMsg"))
    /\ WF_vars(HandleTopicMsg \/ HandlerStop("handleTopicMsg"))
    /\ WF_vars(Disconnect \/ DestroyCancel)

FairSpec == Spec /\ Fairness

-----------------------------------------------------------------------------
PCs == {"none", "dial", "store", "context", "hello", "flush", "connack", "logic", "deliver", "ack",
        "report", "after", "delay", "defer", "done"}

Conn ==
    [pc : PCs, version : {V311, V5}, sock : {"none", "open", "peer", "closed"},
     stopSet : BOOLEAN, exited : BOOLEAN, parentExit : BOOLEAN,
     recv : {"none", "run", "report", "done"}, send : {"none", "run", "report", "bye", "done"},
     alive : {"none", "tick", "wait", "done"},
     logicSendC : Seq({"PINGREQ", "PUBACK", "DISCONNECT"}), sendClosed : BOOLEAN,
     netRecvC : Seq(Answers \cup {"DATA"}), keepaliveC : 0 .. 1,
     wire : Seq(Answers \cup {"DATA", "PINGRESP"}),
     server : {"none", "hello", "up", "leaving"}, discSent : BOOLEAN]

CallPCs == {"idle", "flag", "send", "select", "wait", "panic", "cancel", "returned", "destroyed"}

\* The types; no channel holds more than its capacity; a call of Disconnect
\* that has found a connection works on one that exists.
TypeOK ==
    /\ conns \in [Attempts -> Conn]
    /\ \A a \in Attempts : Len(conns[a].logicSendC) <= QueueCap /\ Len(conns[a].netRecvC) <= QueueCap
    /\ connectedServers \in Attempts \cup {0}
    /\ closing \in BOOLEAN /\ panicked \in BOOLEAN
    /\ msgCh \in 0 .. MsgCap /\ recvCh \in 0 .. RecvCap /\ data \in 0 .. MaxData
    /\ handlers \subseteq {"handleMsg", "handleTopicMsg"}
    /\ call \in [pc : CallPCs, count : 0 .. MaxCalls, conn : Attempts \cup {0}, sawStop : BOOLEAN,
                 destroy : BOOLEAN, result : BOOLEAN]
    /\ call.pc \in {"flag", "send", "select", "wait"} => call.conn \in Attempts

\* A connection that was ended with a DISCONNECT is not followed by another
\* one, although a lost connection is (client_conn_options.go:213-215).
DisconnectIsFinal ==
    \A a, b \in Attempts : conns[a].discSent /\ b > a => conns[b].pc = "none"

\* All connections take packets from the client's one sendCh.  By the time
\* another run of connect() exists, the sender of an earlier connection has
\* returned or been told to, so that it cannot go on taking packets.
OldSenderStopped ==
    \A a, b \in Attempts :
        a < b /\ conns[b].pc # "none" /\ conns[a].send = "run" => Stopped(a)

InUse(a) == conns[a].pc \in {"logic", "deliver", "ack"}

\* Two connections to the same server are never in use at the same time.
OneInUse ==
    \A a, b \in Attempts : InUse(a) /\ InUse(b) => a = b

\* With automatic reconnection, every run of connect() that ends, wherever it
\* failed, has started another, unless the client is closing or the connection
\* was to end.
EndedIsRetried ==
    autoReconnect =>
        \A a \in Attempts \ {MaxAttempts} :
            conns[a].pc = "done" => closing \/ conns[a].parentExit \/ conns[a + 1].pc # "none"

\* Waiting for room in a channel: recvCh and msgCh, which nobody reads any more
\* once the client is closing ...
RecvChFull(a) == conns[a].pc = "deliver" /\ recvCh = RecvCap
MsgChFull     == msgCh = MsgCap

\* ... and keepalive() for logicSendC, whose sender has died: that the
\* connection is dead is not noticed (client_conn.go:218).
Stranded(a) ==
    /\ conns[a].send = "done" /\ ~Stopped(a)
    /\ conns[a].alive = "tick" /\ Len(conns[a].logicSendC) = QueueCap


\* Once Disconnect waits for a stop signal it has seen, it returns, with one
\* exception: the sender of the connection has died and logicSendC is full, of
\* the DISCONNECT itself perhaps (client_conn.go:218, client_async.go:265).
DisconnectEnds ==
    call.pc = "wait" /\ call.sawStop ~> (call.pc # "wait" \/ Stranded(call.conn))


Running(a) ==
    \/ conns[a].pc \notin {"none", "done"}
    \/ conns[a].recv \in {"run", "report"}
    \/ conns[a].send \in {"run", "report", "bye"} \/ conns[a].alive \in {"tick", "wait"}

\* "goleak.VerifyNone(t)" after c.Destroy(true) (client_test.go:60-71): when
\* the client is destroyed, every goroutine of every connection ends.
DestroyEndsAll == closing ~> \A a \in Attempts : ~Running(a)

\* "WithAutoReconnect set client to auto reconnect to server when connection
\* failed" (client_options.go:192): without it, a failed connection is not
\* followed by another.
NoReconnectUnlessAsked == ~autoReconnect => \A a \in Attempts : a > 1 => conns[a].pc = "none"

\* "return true if DisconnPacket will be sent" (client_async.go:254).
TrueMeansSent ==
    call.pc = "returned" /\ call.conn # 0 /\ call.result => conns[call.conn].discSent

\* "Disconnect from one server, return true if DisconnPacket will be sent"
\* (client_async.go:253-254): the call returns true or false.
NoPanic == ~panicked

\* "wait for conn to exit" (client_async.go:267): when the connection has
\* exited, the call of Disconnect that waits for it returns.
WaitEndsWithConn ==
    \A a \in Attempts :
        call.pc = "wait" /\ call.conn = a /\ conns[a].pc = "done" ~> call.pc # "wait"

\* "Destroy will disconnect form all server" (client_async.go:237): it goes by
\* connectedServers, so a connection in use has to be there.
InUseIsListed ==
    \A a \in Attempts :
        InUse(a) /\ ~Stopped(a) => connectedServers = a

\* "It indicates that the Server is alive" (pkt_ping.go:68): the answer to a
\* keepalive request does not end the connection.
PingRespKeepsConn ==
    [][\A a \in Attempts :
         /\ conns[a].recv = "run" /\ conns[a].wire # <<>> /\ Head(conns[a].wire) = "PINGRESP"
         /\ conns'[a].wire = Tail(conns[a].wire)
         => conns'[a].exited = conns[a].exited]_vars
=============================================================================
