-------------------------- MODULE ConnectionProofs --------------------------
(***************************************************************************)
(* Theorems about the connections of a client, for any number of runs of   *)
(* connect(), any capacity of the channels and any number of calls.        *)
(***************************************************************************)
EXTENDS Connection, TLAPS

\* connect() is about to return, or has.
Past == {"defer", "done"}

\* logic() is serving the connection.
Serving == {"logic", "deliver", "ack"}

HasDisconnect(queue) == \E i \in DOMAIN queue : queue[i] = "DISCONNECT"

\* What a run and its connection are, whatever the others do; `off' says
\* whether the client is closing.
RunOK(c, off) ==
    \* stopSig is there before any goroutine that waits for it
    /\ c.pc \in {"hello", "flush", "connack", "report", "after"} \cup Serving => c.stopSet
    /\ c.recv # "none" \/ c.send # "none" => c.stopSet
    \* handleNetRecv() does not return without stopping the connection
    /\ c.recv = "done" => c.exited
    \* handleSend() runs beside logic(), and longer only if it was told to stop;
    \* by then the socket is closed
    /\ c.pc \in {"none", "dial", "store", "context", "hello", "flush", "connack"} => c.send = "none"
    /\ c.send # "none" /\ c.pc \notin Serving => c.sock = "closed"
    /\ c.send = "run" /\ c.pc \notin Serving => c.exited \/ off
    \* a DISCONNECT comes from a call that has set parentExit, and ends the run
    /\ HasDisconnect(c.logicSendC) => c.parentExit
    /\ c.discSent => c.parentExit /\ c.pc \in {"report", "after"} \cup Serving \cup Past

\* A run exists only after those before it have given up.
Chain ==
    \A a, b \in Attempts : a < b /\ conns[b].pc # "none" => conns[a].pc \in Past

\* A run that gives up has a successor or a reason.
PastIsRetried ==
    autoReconnect =>
        \A a \in Attempts \ {MaxAttempts} :
            conns[a].pc \in Past => closing \/ conns[a].parentExit \/ conns[a + 1].pc # "none"

\* The call that is about to send a DISCONNECT has said so.
CallFlagged == call.pc = "send" => conns[call.conn].parentExit

IInv ==
    /\ TypeOK
    /\ \A a \in Attempts : RunOK(conns[a], closing)
    /\ Chain
    /\ PastIsRetried
    /\ CallFlagged
    /\ DisconnectIsFinal

-----------------------------------------------------------------------------
(* One run at a time *)

\* What TypeOK says of the client
ClientType ==
    /\ connectedServers \in Attempts \cup {0}
    /\ closing \in BOOLEAN /\ panicked \in BOOLEAN
    /\ msgCh \in 0 .. MsgCap /\ recvCh \in 0 .. RecvCap /\ data \in 0 .. MaxData
    /\ handlers \subseteq {"handleMsg", "handleTopicMsg"}
    /\ call \in [pc : CallPCs, count : 0 .. MaxCalls, conn : Attempts \cup {0}, sawStop : BOOLEAN,
                 destroy : BOOLEAN, result : BOOLEAN]
    /\ call.pc \in {"flag", "send", "select", "wait"} => call.conn \in Attempts

\* Run a may be followed by d: it does not start by itself, does not resume,
\* and gives up only with a reason (the last run of the bound needs none);
\* parentExit stays; only a connection that
\* is served sends a DISCONNECT.
Follows(a, c, d) ==
    /\ d.pc # "none" => c.pc # "none" \/ a = 1
    /\ c.pc # "none" => d.pc # "none"
    /\ c.pc \in Past => d.pc \in Past
    /\ d.pc \in Past => c.pc \in Past \/ d.parentExit \/ closing \/ ~autoReconnect \/ a = MaxAttempts
    /\ c.parentExit => d.parentExit
    /\ d.discSent => c.discSent \/ c.pc \in Serving

Good(a, d) ==
    /\ d \in Conn
    /\ Len(d.logicSendC) <= QueueCap /\ Len(d.netRecvC) <= QueueCap
    /\ RunOK(d, closing)
    /\ Follows(a, conns[a], d)

LEMMA AttemptsType == Attempts \subseteq Nat /\ 1 \in Attempts /\ MaxAttempts \in Attempts
BY BoundsAssumption DEF Attempts

\* A step of one run to a state that is good keeps the invariant.
LEMMA OneRunAndCall ==
    ASSUME IInv, NEW a \in Attempts, NEW d, Good(a, d), Update(a, d),
           UNCHANGED closing, ClientType', CallFlagged'
    PROVE  IInv'
<1>1. conns \in [Attempts -> Conn] /\ conns' = [conns EXCEPT ![a] = d] /\ d \in Conn
  BY DEF IInv, TypeOK, Update, Good
<1>2. conns' \in [Attempts -> Conn] /\ \A x \in Attempts : conns'[x] = IF x = a THEN d ELSE conns[x]
  BY <1>1
<1>3. TypeOK'
  <2>1. \A x \in Attempts : Len(conns'[x].logicSendC) <= QueueCap /\ Len(conns'[x].netRecvC) <= QueueCap
    BY <1>2 DEF IInv, TypeOK, Good
  <2> QED BY <1>2, <2>1 DEF TypeOK, ClientType
<1>4. \A x \in Attempts : RunOK(conns'[x], closing')
  BY <1>2 DEF IInv, Good
<1>5. Chain'
  <2> SUFFICES ASSUME NEW x \in Attempts, NEW y \in Attempts, x < y, conns'[y].pc # "none"
               PROVE  conns'[x].pc \in Past
    BY DEF Chain
  <2>1. conns[y].pc # "none"
    BY <1>2, AttemptsType DEF Good, Follows, Attempts
  <2>2. conns[x].pc \in Past
    BY <2>1 DEF IInv, Chain
  <2> QED BY <1>2, <2>2 DEF Good, Follows
<1>6. PastIsRetried'
  <2> SUFFICES ASSUME autoReconnect, NEW x \in Attempts \ {MaxAttempts}, conns'[x].pc \in Past
               PROVE  closing \/ conns'[x].parentExit \/ conns'[x + 1].pc # "none"
    BY DEF PastIsRetried
  <2>1. x + 1 \in Attempts
    BY BoundsAssumption DEF Attempts
  <2>2. CASE conns[x].pc \in Past
    BY <1>2, <2>1, <2>2 DEF IInv, PastIsRetried, Good, Follows
  <2>3. CASE conns[x].pc \notin Past
    BY <1>2, <2>3 DEF Good, Follows
  <2> QED BY <2>2, <2>3
<1>7. DisconnectIsFinal'
  <2> SUFFICES ASSUME NEW x \in Attempts, NEW y \in Attempts, conns'[x].discSent, y > x
               PROVE  conns'[y].pc = "none"
    BY DEF DisconnectIsFinal
  <2>1. conns[y].pc = "none"
    <3>1. CASE conns[x].discSent
      BY <3>1 DEF IInv, DisconnectIsFinal
    <3>2. CASE ~conns[x].discSent
      <4>1. conns[x].pc \in Serving
        BY <1>2, <3>2 DEF Good, Follows
      <4>2. conns[x].pc \notin Past
        BY <4>1 DEF Serving, Past
      <4> QED BY <4>2, AttemptsType DEF IInv, Chain
    <3> QED BY <3>1, <3>2
  <2> QED BY <1>2, <2>1, AttemptsType DEF Good, Follows, Attempts
<1> QED BY <1>3, <1>4, <1>5, <1>6, <1>7 DEF IInv

LEMMA OneRun ==
    ASSUME IInv, NEW a \in Attempts, NEW d, Good(a, d), Update(a, d),
           UNCHANGED <<closing, call>>, ClientType'
    PROVE  IInv'
<1>1. \A x \in Attempts : conns'[x] = IF x = a THEN d ELSE conns[x]
  BY DEF IInv, TypeOK, Update
<1>2. call.pc = "send" => call.conn \in Attempts
  BY DEF IInv, TypeOK
<1>3. CallFlagged'
  BY <1>1, <1>2 DEF IInv, CallFlagged, Good, Follows
<1> QED BY <1>3, OneRunAndCall

\* What a step leaves alone
SameStop(c, d) == d.stopSet = c.stopSet /\ d.exited = c.exited /\ d.parentExit = c.parentExit
SameSend(c, d) == d.send = c.send /\ d.logicSendC = c.logicSendC /\ d.discSent = c.discSent
SameRecv(c, d) == d.recv = c.recv /\ d.netRecvC = c.netRecvC

\* The client's own variables keep their types in a step of a run.
LEMMA ClientTypeKept ==
    ASSUME IInv, UNCHANGED <<closing, handlers, call, panicked>>,
           connectedServers' \in Attempts \cup {0}, msgCh' \in 0 .. MsgCap,
           recvCh' \in 0 .. RecvCap, data' \in 0 .. MaxData
    PROVE  ClientType'
BY DEF IInv, TypeOK, ClientType

\* What the invariant says of one run
LEMMA RunFacts ==
    ASSUME IInv, NEW a \in Attempts
    PROVE  /\ conns[a] \in Conn /\ RunOK(conns[a], closing)
           /\ Len(conns[a].logicSendC) <= QueueCap /\ Len(conns[a].netRecvC) <= QueueCap
           /\ closing \in BOOLEAN /\ connectedServers \in Attempts \cup {0}
           /\ msgCh \in 0 .. MsgCap /\ recvCh \in 0 .. RecvCap /\ data \in 0 .. MaxData
BY DEF IInv, TypeOK

LEMMA NotifyNetType ==
    ASSUME msgCh \in 0 .. MsgCap, NotifyNet
    PROVE  msgCh' \in 0 .. MsgCap
BY BoundsAssumption DEF NotifyNet

LEMMA RetryOrReturnType == RetryOrReturn \in {"delay", "defer"} /\ (RetryOrReturn = "defer" => closing \/ ~autoReconnect)
BY DEF RetryOrReturn

LEMMA TailQueue ==
    ASSUME NEW S, NEW q \in Seq(S), q # <<>>
    PROVE  /\ Tail(q) \in Seq(S) /\ Len(Tail(q)) = Len(q) - 1
           /\ HasDisconnect(Tail(q)) => HasDisconnect(q)
<1>1. Tail(q) \in Seq(S) /\ Len(Tail(q)) = Len(q) - 1 /\ \A i \in 1 .. Len(q) - 1 : Tail(q)[i] = q[i + 1]
  OBVIOUS
<1>2. DOMAIN Tail(q) = 1 .. Len(q) - 1 /\ DOMAIN q = 1 .. Len(q) /\ Len(q) \in Nat
  BY <1>1
<1>3. ASSUME NEW i \in DOMAIN Tail(q), Tail(q)[i] = "DISCONNECT"
      PROVE  i + 1 \in DOMAIN q /\ q[i + 1] = "DISCONNECT"
  BY <1>1, <1>2, <1>3
<1> QED BY <1>1, <1>3 DEF HasDisconnect

LEMMA AppendQueue ==
    ASSUME NEW S, NEW q \in Seq(S), NEW e \in S
    PROVE  /\ Append(q, e) \in Seq(S) /\ Len(Append(q, e)) = Len(q) + 1
           /\ HasDisconnect(Append(q, e)) => HasDisconnect(q) \/ e = "DISCONNECT"
<1>1. Append(q, e) \in Seq(S) /\ Len(Append(q, e)) = Len(q) + 1
  OBVIOUS
<1>2. ASSUME NEW i \in DOMAIN Append(q, e), Append(q, e)[i] = "DISCONNECT", e # "DISCONNECT"
      PROVE  i \in DOMAIN q /\ q[i] = "DISCONNECT"
  BY <1>2
<1> QED BY <1>1, <1>2 DEF HasDisconnect

\* connect(), up to the connection that is served.
LEMMA ConnectKeeps ==
    ASSUME IInv, NEW a \in Attempts, \/ Dial(a) \/ StoreConn(a) \/ SetContext(a)
           \/ SendConnect(a) \/ SendConnectReport(a)
    PROVE  IInv'
<1> DEFINE c == conns[a]
<1>1. /\ c \in Conn /\ RunOK(c, closing) /\ Len(c.logicSendC) <= QueueCap /\ Len(c.netRecvC) <= QueueCap
      /\ closing \in BOOLEAN /\ connectedServers \in Attempts \cup {0}
      /\ msgCh \in 0 .. MsgCap /\ recvCh \in 0 .. RecvCap /\ data \in 0 .. MaxData
  BY RunFacts
<1>2. CASE Dial(a)
  <2>1. CASE Update(a, [c EXCEPT !.pc = RetryOrReturn])
    <3> DEFINE d == [c EXCEPT !.pc = RetryOrReturn]
    <3>1. c.pc = "dial"
      BY <1>2, <2>1 DEF Dial
    <3>2. Update(a, d) /\ UNCHANGED <<closing, call>> /\ ClientType'
      BY <1>2, <2>1, <1>1, ClientTypeKept DEF Dial, clientVars
    <3>3. RetryOrReturn \in {"delay", "defer"} /\ (RetryOrReturn = "defer" => closing \/ ~autoReconnect)
      BY RetryOrReturnType
    <3>4. d \in Conn
      BY <3>3, <1>1, ZenonT(30) DEF Conn, PCs
    <3>5. /\ d.pc = RetryOrReturn /\ d.sock = c.sock /\ SameStop(c, d) /\ SameSend(c, d)
          /\ SameRecv(c, d)
      BY <1>1 DEF Conn, SameRecv, SameSend, SameStop
    <3> HIDE DEF d
    <3>6. Good(a, d)
      BY <1>1, <3>1, <3>3, <3>4, <3>5
      DEF Good, RunOK, Follows, Past, Serving, SameRecv, SameSend, SameStop
    <3> QED BY <3>2, <3>6, OneRun
  <2>2. CASE Update(a, [c EXCEPT !.sock = "open", !.pc = IF closing THEN "defer" ELSE "store"])
    <3> DEFINE d == [c EXCEPT !.sock = "open", !.pc = IF closing THEN "defer" ELSE "store"]
    <3>1. c.pc = "dial"
      BY <1>2, <2>2 DEF Dial
    <3>2. Update(a, d) /\ UNCHANGED <<closing, call>> /\ ClientType'
      BY <1>2, <2>2, <1>1, ClientTypeKept DEF Dial, clientVars
    <3>3. d \in Conn
      BY <1>1, ZenonT(60) DEF Conn, PCs
    <3>4. /\ d.pc = (IF closing THEN "defer" ELSE "store") /\ d.sock = "open"
          /\ SameStop(c, d) /\ SameSend(c, d) /\ SameRecv(c, d)
      BY <1>1 DEF Conn, SameRecv, SameSend, SameStop
    <3> HIDE DEF d
    <3>5. Good(a, d)
      BY <1>1, <3>1, <3>3, <3>4
      DEF Good, RunOK, Follows, Past, Serving, SameRecv, SameSend, SameStop
    <3> QED BY <3>2, <3>5, OneRun
  <2> QED
    BY <1>2, <2>1, <2>2 DEF Dial
<1>3. CASE StoreConn(a)
  <2> DEFINE d == [c EXCEPT !.pc = "context"]
  <2>1. c.pc = "store"
    BY <1>3 DEF StoreConn
  <2>2. Update(a, d) /\ UNCHANGED <<closing, call>> /\ ClientType'
    BY <1>3, <1>1, ClientTypeKept DEF StoreConn, clientVars
  <2>3. d \in Conn
    BY <1>1, ZenonT(30) DEF Conn, PCs
  <2>4. /\ d.pc = "context" /\ d.sock = c.sock /\ SameStop(c, d) /\ SameSend(c, d)
        /\ SameRecv(c, d)
    BY <1>1 DEF Conn, SameRecv, SameSend, SameStop
  <2> HIDE DEF d
  <2>5. Good(a, d)
    BY <1>1, <2>1, <2>3, <2>4
    DEF Good, RunOK, Follows, Past, Serving, SameRecv, SameSend, SameStop
  <2> QED BY <2>2, <2>5, OneRun
<1>4. CASE SetContext(a)
  <2> DEFINE d == [c EXCEPT !.stopSet = TRUE, !.recv = Started("run"), !.pc = "hello"]
  <2>1. c.pc = "context"
    BY <1>4 DEF SetContext
  <2>2. Update(a, d) /\ UNCHANGED <<closing, call>> /\ ClientType'
    BY <1>4, <1>1, ClientTypeKept DEF SetContext, clientVars
  <2>3. Started("run") \in {"none", "run"}
    BY DEF Started
  <2>4. d \in Conn
    BY <2>3, <1>1, ZenonT(30) DEF Conn, PCs
  <2>5. /\ d.pc = "hello" /\ d.sock = c.sock /\ d.stopSet = TRUE /\ d.exited = c.exited
        /\ d.parentExit = c.parentExit /\ SameSend(c, d) /\ d.recv = Started("run")
        /\ d.netRecvC = c.netRecvC
    BY <1>1 DEF Conn, SameSend
  <2> HIDE DEF d
  <2>6. Good(a, d)
    BY <1>1, <2>1, <2>3, <2>4, <2>5 DEF Good, RunOK, Follows, Past, Serving, SameSend
  <2> QED BY <2>2, <2>6, OneRun
<1>5. CASE SendConnect(a)
  <2>1. CASE Update(a, [c EXCEPT !.server = "hello", !.pc = "connack"])
    <3> DEFINE d == [c EXCEPT !.server = "hello", !.pc = "connack"]
    <3>1. c.pc = "hello"
      BY <1>5, <2>1 DEF SendConnect
    <3>2. Update(a, d) /\ UNCHANGED <<closing, call>> /\ ClientType'
      BY <1>5, <2>1, <1>1, ClientTypeKept DEF SendConnect, clientVars
    <3>3. d \in Conn
      BY <1>1, ZenonT(30) DEF Conn, PCs
    <3>4. /\ d.pc = "connack" /\ d.sock = c.sock /\ SameStop(c, d) /\ SameSend(c, d)
          /\ SameRecv(c, d)
      BY <1>1 DEF Conn, SameRecv, SameSend, SameStop
    <3> HIDE DEF d
    <3>5. Good(a, d)
      BY <1>1, <3>1, <3>3, <3>4
      DEF Good, RunOK, Follows, Past, Serving, SameRecv, SameSend, SameStop
    <3> QED BY <3>2, <3>5, OneRun
  <2>2. CASE Update(a, [c EXCEPT !.pc = RetryOrReturn])
    <3> DEFINE d == [c EXCEPT !.pc = RetryOrReturn]
    <3>1. c.pc = "hello"
      BY <1>5, <2>2 DEF SendConnect
    <3>2. Update(a, d) /\ UNCHANGED <<closing, call>> /\ ClientType'
      BY <1>5, <2>2, <1>1, ClientTypeKept DEF SendConnect, clientVars
    <3>3. RetryOrReturn \in {"delay", "defer"} /\ (RetryOrReturn = "defer" => closing \/ ~autoReconnect)
      BY RetryOrReturnType
    <3>4. d \in Conn
      BY <3>3, <1>1, ZenonT(30) DEF Conn, PCs
    <3>5. /\ d.pc = RetryOrReturn /\ d.sock = c.sock /\ SameStop(c, d) /\ SameSend(c, d)
          /\ SameRecv(c, d)
      BY <1>1 DEF Conn, SameRecv, SameSend, SameStop
    <3> HIDE DEF d
    <3>6. Good(a, d)
      BY <1>1, <3>1, <3>3, <3>4, <3>5
      DEF Good, RunOK, Follows, Past, Serving, SameRecv, SameSend, SameStop
    <3> QED BY <3>2, <3>6, OneRun
  <2>3. CASE c.sock = "peer" /\ Update(a, [c EXCEPT !.pc = "flush"])
    <3> DEFINE d == [c EXCEPT !.pc = "flush"]
    <3>1. c.pc = "hello"
      BY <1>5, <2>3 DEF SendConnect
    <3>2. Update(a, d) /\ UNCHANGED <<closing, call>> /\ ClientType'
      BY <1>5, <2>3, <1>1, ClientTypeKept DEF SendConnect, clientVars
    <3>3. d \in Conn
      BY <1>1, ZenonT(30) DEF Conn, PCs
    <3>4. /\ d.pc = "flush" /\ d.sock = c.sock /\ SameStop(c, d) /\ SameSend(c, d)
          /\ SameRecv(c, d)
      BY <1>1 DEF Conn, SameRecv, SameSend, SameStop
    <3> HIDE DEF d
    <3>5. Good(a, d)
      BY <1>1, <3>1, <3>3, <3>4
      DEF Good, RunOK, Follows, Past, Serving, SameRecv, SameSend, SameStop
    <3> QED BY <3>2, <3>5, OneRun
  <2> QED
    BY <1>5, <2>1, <2>2, <2>3 DEF SendConnect
<1>6. CASE SendConnectReport(a)
  <2> DEFINE d == [c EXCEPT !.pc = RetryOrReturn]
  <2>1. c.pc = "flush"
    BY <1>6 DEF SendConnectReport
  <2>2. Update(a, d) /\ UNCHANGED <<closing, call>> /\ ClientType'
    BY <1>6, <1>1, ClientTypeKept, NotifyNetType DEF SendConnectReport, clientVars
  <2>3. RetryOrReturn \in {"delay", "defer"} /\ (RetryOrReturn = "defer" => closing \/ ~autoReconnect)
    BY RetryOrReturnType
  <2>4. d \in Conn
    BY <2>3, <1>1, ZenonT(30) DEF Conn, PCs
  <2>5. /\ d.pc = RetryOrReturn /\ d.sock = c.sock /\ SameStop(c, d) /\ SameSend(c, d)
        /\ SameRecv(c, d)
    BY <1>1 DEF Conn, SameRecv, SameSend, SameStop
  <2> HIDE DEF d
  <2>6. Good(a, d)
    BY <1>1, <2>1, <2>3, <2>4, <2>5
    DEF Good, RunOK, Follows, Past, Serving, SameRecv, SameSend, SameStop
  <2> QED BY <2>2, <2>6, OneRun
<1> QED
  BY <1>2, <1>3, <1>4, <1>5, <1>6

\* connect(), when the server has answered the CONNECT or the connection has ended.
LEMMA AcceptKeeps ==
    ASSUME IInv, NEW a \in Attempts, ConnAccepted(a) \/ ConnRefused(a) \/ ConnStopped(a)
    PROVE  IInv'
<1> DEFINE c == conns[a]
<1>1. /\ c \in Conn /\ RunOK(c, closing) /\ Len(c.logicSendC) <= QueueCap /\ Len(c.netRecvC) <= QueueCap
      /\ closing \in BOOLEAN /\ connectedServers \in Attempts \cup {0}
      /\ msgCh \in 0 .. MsgCap /\ recvCh \in 0 .. RecvCap /\ data \in 0 .. MaxData
  BY RunFacts
<1>2. CASE ConnAccepted(a)
  <2> DEFINE q == Tail(c.netRecvC)
  <2> DEFINE r == Started("run")
  <2> DEFINE t == IF keepalive THEN Started("tick") ELSE "none"
  <2> DEFINE d == [c EXCEPT !.netRecvC = q, !.pc = "logic", !.send = r, !.alive = t]
  <2>1. c.pc = "connack" /\ c.netRecvC # <<>>
    BY <1>2 DEF ConnAccepted
  <2>2. Update(a, d) /\ UNCHANGED <<closing, call>> /\ ClientType'
    BY <1>2, <1>1, ClientTypeKept DEF ConnAccepted, clientVars
  <2>3. q \in Seq(Answers \cup {"DATA"}) /\ Len(q) <= QueueCap
    BY <2>1, <1>1, TailQueue, BoundsAssumption DEF Conn
  <2>4. r \in {"none", "run"}
    BY DEF Started
  <2>5. t \in {"none", "tick"}
    BY DEF Started
  <2> HIDE DEF q, r, t
  <2>6. d \in Conn
    BY <2>3, <2>4, <2>5, <1>1 DEF Conn, PCs
  <2>7. /\ d.pc = "logic" /\ d.sock = c.sock /\ SameStop(c, d) /\ d.send = r
        /\ d.logicSendC = c.logicSendC /\ d.discSent = c.discSent /\ d.recv = c.recv
        /\ d.netRecvC = q
    BY <1>1 DEF Conn, SameStop
  <2> HIDE DEF d
  <2>8. Good(a, d)
    BY <1>1, <2>1, <2>3, <2>4, <2>5, <2>6, <2>7
    DEF Good, RunOK, Follows, Past, Serving, SameStop
  <2> QED BY <2>2, <2>8, OneRun
<1>3. CASE ConnRefused(a)
  <2>1. CASE c.netRecvC # <<>> /\ Update(a, [c EXCEPT !.netRecvC = Tail(@), !.sendClosed = TRUE, !.pc = RetryOrReturn])
    <3> DEFINE q == Tail(c.netRecvC)
    <3> DEFINE d == [c EXCEPT !.netRecvC = q, !.sendClosed = TRUE, !.pc = RetryOrReturn]
    <3>1. c.pc = "connack" /\ c.netRecvC # <<>>
      BY <1>3, <2>1 DEF ConnRefused
    <3>2. Update(a, d) /\ UNCHANGED <<closing, call>> /\ ClientType'
      BY <1>3, <2>1, <1>1, ClientTypeKept DEF ConnRefused, clientVars
    <3>3. RetryOrReturn \in {"delay", "defer"} /\ (RetryOrReturn = "defer" => closing \/ ~autoReconnect)
      BY RetryOrReturnType
    <3>4. q \in Seq(Answers \cup {"DATA"}) /\ Len(q) <= QueueCap
      BY <3>1, <1>1, TailQueue, BoundsAssumption DEF Conn
    <3> HIDE DEF q
    <3>5. d \in Conn
      BY <3>3, <3>4, <1>1 DEF Conn, PCs
    <3>6. /\ d.pc = RetryOrReturn /\ d.sock = c.sock /\ SameStop(c, d) /\ SameSend(c, d)
          /\ d.recv = c.recv /\ d.netRecvC = q
      BY <1>1 DEF Conn, SameSend, SameStop
    <3> HIDE DEF d
    <3>7. Good(a, d)
      BY <1>1, <3>1, <3>3, <3>4, <3>5, <3>6
      DEF Good, RunOK, Follows, Past, Serving, SameSend, SameStop
    <3> QED BY <3>2, <3>7, OneRun
  <2>2. CASE Update(a, [c EXCEPT !.sendClosed = TRUE, !.pc = RetryOrReturn])
    <3> DEFINE d == [c EXCEPT !.sendClosed = TRUE, !.pc = RetryOrReturn]
    <3>1. c.pc = "connack"
      BY <1>3, <2>2 DEF ConnRefused
    <3>2. Update(a, d) /\ UNCHANGED <<closing, call>> /\ ClientType'
      BY <1>3, <2>2, <1>1, ClientTypeKept DEF ConnRefused, clientVars
    <3>3. RetryOrReturn \in {"delay", "defer"} /\ (RetryOrReturn = "defer" => closing \/ ~autoReconnect)
      BY RetryOrReturnType
    <3>4. d \in Conn
      BY <3>3, <1>1, ZenonT(30) DEF Conn, PCs
    <3>5. /\ d.pc = RetryOrReturn /\ d.sock = c.sock /\ SameStop(c, d) /\ SameSend(c, d)
          /\ SameRecv(c, d)
      BY <1>1 DEF Conn, SameRecv, SameSend, SameStop
    <3> HIDE DEF d
    <3>6. Good(a, d)
      BY <1>1, <3>1, <3>3, <3>4, <3>5
      DEF Good, RunOK, Follows, Past, Serving, SameRecv, SameSend, SameStop
    <3> QED BY <3>2, <3>6, OneRun
  <2> QED
    BY <1>3, <2>1, <2>2 DEF ConnRefused
<1>4. CASE ConnStopped(a)
  <2> DEFINE d == [c EXCEPT !.pc = RetryOrReturn]
  <2>1. c.pc = "connack"
    BY <1>4 DEF ConnStopped
  <2>2. Update(a, d) /\ UNCHANGED <<closing, call>> /\ ClientType'
    BY <1>4, <1>1, ClientTypeKept DEF ConnStopped, clientVars
  <2>3. RetryOrReturn \in {"delay", "defer"} /\ (RetryOrReturn = "defer" => closing \/ ~autoReconnect)
    BY RetryOrReturnType
  <2>4. d \in Conn
    BY <2>3, <1>1, ZenonT(30) DEF Conn, PCs
  <2>5. /\ d.pc = RetryOrReturn /\ d.sock = c.sock /\ SameStop(c, d) /\ SameSend(c, d)
        /\ SameRecv(c, d)
    BY <1>1 DEF Conn, SameRecv, SameSend, SameStop
  <2> HIDE DEF d
  <2>6. Good(a, d)
    BY <1>1, <2>1, <2>3, <2>4, <2>5
    DEF Good, RunOK, Follows, Past, Serving, SameRecv, SameSend, SameStop
  <2> QED BY <2>2, <2>6, OneRun
<1> QED
  BY <1>2, <1>3, <1>4

\* logic(), to its return.
LEMMA LogicKeeps ==
    ASSUME IInv, NEW a \in Attempts, LogicData(a) \/ LogicDeliver(a) \/ LogicAck(a) \/ LogicReturn(a) \/ LogicReport(a)
    PROVE  IInv'
<1> DEFINE c == conns[a]
<1>1. /\ c \in Conn /\ RunOK(c, closing) /\ Len(c.logicSendC) <= QueueCap /\ Len(c.netRecvC) <= QueueCap
      /\ closing \in BOOLEAN /\ connectedServers \in Attempts \cup {0}
      /\ msgCh \in 0 .. MsgCap /\ recvCh \in 0 .. RecvCap /\ data \in 0 .. MaxData
  BY RunFacts
<1>2. CASE LogicData(a)
  <2> DEFINE q == Tail(c.netRecvC)
  <2> DEFINE d == [c EXCEPT !.netRecvC = q, !.pc = "deliver"]
  <2>1. c.pc = "logic" /\ c.netRecvC # <<>>
    BY <1>2 DEF LogicData
  <2>2. Update(a, d) /\ UNCHANGED <<closing, call>> /\ ClientType'
    BY <1>2, <1>1, ClientTypeKept DEF LogicData, clientVars
  <2>3. q \in Seq(Answers \cup {"DATA"}) /\ Len(q) <= QueueCap
    BY <2>1, <1>1, TailQueue, BoundsAssumption DEF Conn
  <2> HIDE DEF q
  <2>4. d \in Conn
    BY <2>3, <1>1, ZenonT(30) DEF Conn, PCs
  <2>5. /\ d.pc = "deliver" /\ d.sock = c.sock /\ SameStop(c, d) /\ SameSend(c, d)
        /\ d.recv = c.recv /\ d.netRecvC = q
    BY <1>1 DEF Conn, SameSend, SameStop
  <2> HIDE DEF d
  <2>6. Good(a, d)
    BY <1>1, <2>1, <2>3, <2>4, <2>5 DEF Good, RunOK, Follows, Past, Serving, SameSend, SameStop
  <2> QED BY <2>2, <2>6, OneRun
<1>3. CASE LogicDeliver(a)
  <2> DEFINE d == [c EXCEPT !.pc = "ack"]
  <2>1. c.pc = "deliver"
    BY <1>3 DEF LogicDeliver, RecvCap
  <2>2. Update(a, d) /\ UNCHANGED <<closing, call>> /\ ClientType'
    BY <1>3, <1>1, ClientTypeKept DEF LogicDeliver, clientVars, RecvCap
  <2>3. d \in Conn
    BY <1>1, ZenonT(30) DEF Conn, PCs
  <2>4. /\ d.pc = "ack" /\ d.sock = c.sock /\ SameStop(c, d) /\ SameSend(c, d)
        /\ SameRecv(c, d)
    BY <1>1 DEF Conn, SameRecv, SameSend, SameStop
  <2> HIDE DEF d
  <2>5. Good(a, d)
    BY <1>1, <2>1, <2>3, <2>4
    DEF Good, RunOK, Follows, Past, Serving, SameRecv, SameSend, SameStop
  <2> QED BY <2>2, <2>5, OneRun
<1>4. CASE LogicAck(a)
  <2>1. CASE Len(c.logicSendC) < QueueCap /\ Update(a, [[c EXCEPT !.pc = "logic"] EXCEPT !.logicSendC = Append(@, "PUBACK")])
    <3> DEFINE q == Append(c.logicSendC, "PUBACK")
    <3> DEFINE d == [[c EXCEPT !.pc = "logic"] EXCEPT !.logicSendC = q]
    <3>1. c.pc = "ack" /\ Len(c.logicSendC) < QueueCap
      BY <1>4, <2>1 DEF LogicAck
    <3>2. Update(a, d) /\ UNCHANGED <<closing, call>> /\ ClientType'
      BY <1>4, <2>1, <1>1, ClientTypeKept DEF LogicAck, clientVars
    <3>3. q \in Seq({"PINGREQ", "PUBACK", "DISCONNECT"}) /\ Len(q) <= QueueCap /\ (HasDisconnect(q) => HasDisconnect(c.logicSendC))
      BY <3>1, <1>1, AppendQueue, BoundsAssumption DEF Conn
    <3> HIDE DEF q
    <3>4. d \in Conn
      BY <3>3, <1>1, ZenonT(30) DEF Conn, PCs
    <3>5. /\ d.pc = "logic" /\ d.sock = c.sock /\ SameStop(c, d) /\ d.send = c.send
          /\ d.logicSendC = q /\ d.discSent = c.discSent /\ SameRecv(c, d)
      BY <1>1 DEF Conn, SameRecv, SameStop
    <3> HIDE DEF d
    <3>6. Good(a, d)
      BY <1>1, <3>1, <3>3, <3>4, <3>5
      DEF Good, RunOK, Follows, Past, Serving, SameRecv, SameStop
    <3> QED BY <3>2, <3>6, OneRun
  <2>2. CASE Stopped(a) /\ Update(a, [c EXCEPT !.pc = "logic"])
    <3> DEFINE d == [c EXCEPT !.pc = "logic"]
    <3>1. c.pc = "ack"
      BY <1>4, <2>2 DEF LogicAck
    <3>2. Update(a, d) /\ UNCHANGED <<closing, call>> /\ ClientType'
      BY <1>4, <2>2, <1>1, ClientTypeKept DEF LogicAck, clientVars
    <3>3. d \in Conn
      BY <1>1, ZenonT(30) DEF Conn, PCs
    <3>4. /\ d.pc = "logic" /\ d.sock = c.sock /\ SameStop(c, d) /\ SameSend(c, d)
          /\ SameRecv(c, d)
      BY <1>1 DEF Conn, SameRecv, SameSend, SameStop
    <3> HIDE DEF d
    <3>5. Good(a, d)
      BY <1>1, <3>1, <3>3, <3>4
      DEF Good, RunOK, Follows, Past, Serving, SameRecv, SameSend, SameStop
    <3> QED BY <3>2, <3>5, OneRun
  <2> QED
    BY <1>4, <2>1, <2>2 DEF LogicAck, SendOrStop
<1>5. CASE LogicReturn(a)
  <2> DEFINE d == [c EXCEPT !.sock = "closed", !.wire = <<>>, !.pc = "report"]
  <2>1. c.pc = "logic" /\ (c.exited \/ closing)
    BY <1>5, <1>1 DEF LogicReturn, Stopped, RecvClosed, RunOK
  <2>2. Update(a, d) /\ UNCHANGED <<closing, call>> /\ ClientType'
    BY <1>5, <1>1, ClientTypeKept DEF LogicReturn, clientVars, Stopped, RecvClosed, RunOK
  <2>3. <<>> \in Seq(Answers \cup {"DATA", "PINGRESP"})
    OBVIOUS
  <2>4. d \in Conn
    BY <2>3, <1>1, ZenonT(30) DEF Conn, PCs
  <2>5. /\ d.pc = "report" /\ d.sock = "closed" /\ SameStop(c, d) /\ SameSend(c, d)
        /\ SameRecv(c, d)
    BY <1>1 DEF Conn, SameRecv, SameSend, SameStop
  <2> HIDE DEF d
  <2>6. Good(a, d)
    BY <1>1, <2>1, <2>3, <2>4, <2>5
    DEF Good, RunOK, Follows, Past, Serving, SameRecv, SameSend, SameStop
  <2> QED BY <2>2, <2>6, OneRun
<1>6. CASE LogicReport(a)
  <2> DEFINE d == [c EXCEPT !.pc = "after"]
  <2>1. c.pc = "report"
    BY <1>6 DEF LogicReport
  <2>2. Update(a, d) /\ UNCHANGED <<closing, call>> /\ ClientType'
    BY <1>6, <1>1, ClientTypeKept, NotifyNetType DEF LogicReport, clientVars
  <2>3. d \in Conn
    BY <1>1, ZenonT(30) DEF Conn, PCs
  <2>4. /\ d.pc = "after" /\ d.sock = c.sock /\ SameStop(c, d) /\ SameSend(c, d)
        /\ SameRecv(c, d)
    BY <1>1 DEF Conn, SameRecv, SameSend, SameStop
  <2> HIDE DEF d
  <2>5. Good(a, d)
    BY <1>1, <2>1, <2>3, <2>4
    DEF Good, RunOK, Follows, Past, Serving, SameRecv, SameSend, SameStop
  <2> QED BY <2>2, <2>5, OneRun
<1> QED
  BY <1>2, <1>3, <1>4, <1>5, <1>6

\* connect(), after logic() and to its deferred functions.
LEMMA ReturnKeeps ==
    ASSUME IInv, NEW a \in Attempts, AfterLogic(a) \/ DelayStopped(a) \/ Deferred(a)
    PROVE  IInv'
<1> DEFINE c == conns[a]
<1>1. /\ c \in Conn /\ RunOK(c, closing) /\ Len(c.logicSendC) <= QueueCap /\ Len(c.netRecvC) <= QueueCap
      /\ closing \in BOOLEAN /\ connectedServers \in Attempts \cup {0}
      /\ msgCh \in 0 .. MsgCap /\ recvCh \in 0 .. RecvCap /\ data \in 0 .. MaxData
  BY RunFacts
<1>2. CASE AfterLogic(a)
  <2> DEFINE d == [c EXCEPT !.pc = IF closing \/ c.parentExit THEN "defer" ELSE "delay"]
  <2>1. c.pc = "after"
    BY <1>2 DEF AfterLogic
  <2>2. Update(a, d) /\ UNCHANGED <<closing, call>> /\ ClientType'
    BY <1>2, <1>1, ClientTypeKept DEF AfterLogic, clientVars
  <2>3. d \in Conn
    BY <1>1, ZenonT(30) DEF Conn, PCs
  <2>4. /\ d.pc = (IF closing \/ c.parentExit THEN "defer" ELSE "delay")
        /\ d.sock = c.sock /\ SameStop(c, d) /\ SameSend(c, d) /\ SameRecv(c, d)
    BY <1>1 DEF Conn, SameRecv, SameSend, SameStop
  <2> HIDE DEF d
  <2>5. Good(a, d)
    BY <1>1, <2>1, <2>3, <2>4
    DEF Good, RunOK, Follows, Past, Serving, SameRecv, SameSend, SameStop
  <2> QED BY <2>2, <2>5, OneRun
<1>3. CASE DelayStopped(a)
  <2> DEFINE d == [c EXCEPT !.pc = "defer"]
  <2>1. c.pc = "delay" /\ closing
    BY <1>3 DEF DelayStopped
  <2>2. Update(a, d) /\ UNCHANGED <<closing, call>> /\ ClientType'
    BY <1>3, <1>1, ClientTypeKept DEF DelayStopped, clientVars
  <2>3. d \in Conn
    BY <1>1, ZenonT(30) DEF Conn, PCs
  <2>4. /\ d.pc = "defer" /\ d.sock = c.sock /\ SameStop(c, d) /\ SameSend(c, d)
        /\ SameRecv(c, d)
    BY <1>1 DEF Conn, SameRecv, SameSend, SameStop
  <2> HIDE DEF d
  <2>5. Good(a, d)
    BY <1>1, <2>1, <2>3, <2>4
    DEF Good, RunOK, Follows, Past, Serving, SameRecv, SameSend, SameStop
  <2> QED BY <2>2, <2>5, OneRun
<1>4. CASE Deferred(a)
  <2> DEFINE s == IF c.sock = "none" THEN c.sock ELSE "closed"
  <2> DEFINE d == [c EXCEPT !.sock = s, !.wire = <<>>, !.pc = "done"]
  <2>1. c.pc = "defer"
    BY <1>4 DEF Deferred
  <2>2. Update(a, d) /\ UNCHANGED <<closing, call>> /\ ClientType'
    BY <1>4, <1>1, ClientTypeKept DEF Deferred, clientVars
  <2>3. <<>> \in Seq(Answers \cup {"DATA", "PINGRESP"})
    OBVIOUS
  <2>4. s \in {"none", "closed"} /\ (c.sock = "closed" => s = "closed")
    OBVIOUS
  <2> HIDE DEF s
  <2>5. d \in Conn
    BY <2>3, <2>4, <1>1 DEF Conn, PCs
  <2>6. /\ d.pc = "done" /\ d.sock = s /\ SameStop(c, d) /\ SameSend(c, d)
        /\ SameRecv(c, d)
    BY <1>1 DEF Conn, SameRecv, SameSend, SameStop
  <2> HIDE DEF d
  <2>7. Good(a, d)
    BY <1>1, <2>1, <2>3, <2>4, <2>5, <2>6
    DEF Good, RunOK, Follows, Past, Serving, SameRecv, SameSend, SameStop
  <2> QED BY <2>2, <2>7, OneRun
<1> QED
  BY <1>2, <1>3, <1>4

\* handleNetRecv()
LEMMA HandleNetRecvKeeps ==
    ASSUME IInv, NEW a \in Attempts, HandleNetRecv(a)
    PROVE  IInv'
<1> DEFINE c == conns[a]
<1>1. /\ c \in Conn /\ RunOK(c, closing) /\ Len(c.logicSendC) <= QueueCap /\ Len(c.netRecvC) <= QueueCap
      /\ closing \in BOOLEAN /\ connectedServers \in Attempts \cup {0}
      /\ msgCh \in 0 .. MsgCap /\ recvCh \in 0 .. RecvCap /\ data \in 0 .. MaxData
  BY RunFacts
<1>2. CASE RecvPacket(a)
  <2>1. CASE c.keepaliveC < 1 /\ Update(a, [[c EXCEPT !.wire = Tail(@)] EXCEPT !.keepaliveC = @ + 1])
    <3> DEFINE d == [[c EXCEPT !.wire = Tail(@)] EXCEPT !.keepaliveC = @ + 1]
    <3>1. c.wire # <<>> /\ c.keepaliveC < 1
      BY <1>2, <2>1 DEF RecvPacket
    <3>2. Update(a, d) /\ UNCHANGED <<closing, call>> /\ ClientType'
      BY <1>2, <2>1, <1>1, ClientTypeKept DEF RecvPacket, clientVars
    <3>3. Tail(c.wire) \in Seq(Answers \cup {"DATA", "PINGRESP"})
      BY <3>1, <1>1, TailQueue DEF Conn
    <3>4. c.keepaliveC + 1 \in 0 .. 1
      BY <3>1, <1>1 DEF Conn
    <3>5. d \in Conn
      BY <3>3, <3>4, <1>1 DEF Conn, PCs
    <3>6. /\ d.pc = c.pc /\ d.sock = c.sock /\ SameStop(c, d) /\ SameSend(c, d)
          /\ SameRecv(c, d)
      BY <1>1 DEF Conn, SameRecv, SameSend, SameStop
    <3> HIDE DEF d
    <3>7. Good(a, d)
      BY <1>1, <3>1, <3>3, <3>4, <3>5, <3>6
      DEF Good, RunOK, Follows, Past, Serving, SameRecv, SameSend, SameStop
    <3> QED BY <3>2, <3>7, OneRun
  <2>2. CASE /\ Head(c.wire) # "PINGRESP" /\ Len(c.netRecvC) < QueueCap
            /\ Update(a, [[c EXCEPT !.wire = Tail(@)] EXCEPT !.netRecvC = Append(@, Head(c.wire))])
    <3> DEFINE q == Append(c.netRecvC, Head(c.wire))
    <3> DEFINE d == [[c EXCEPT !.wire = Tail(@)] EXCEPT !.netRecvC = q]
    <3>1. c.wire # <<>> /\ Head(c.wire) # "PINGRESP" /\ Len(c.netRecvC) < QueueCap
      BY <1>2, <2>2 DEF RecvPacket
    <3>2. Update(a, d) /\ UNCHANGED <<closing, call>> /\ ClientType'
      BY <1>2, <2>2, <1>1, ClientTypeKept DEF RecvPacket, clientVars
    <3>3. Tail(c.wire) \in Seq(Answers \cup {"DATA", "PINGRESP"})
      BY <3>1, <1>1, TailQueue DEF Conn
    <3>4. Head(c.wire) \in Answers \cup {"DATA"}
      BY <3>1, <1>1 DEF Conn
    <3>5. q \in Seq(Answers \cup {"DATA"}) /\ Len(q) <= QueueCap
      BY <3>1, <3>4, <1>1, AppendQueue, BoundsAssumption DEF Conn
    <3> HIDE DEF q
    <3>6. d \in Conn
      BY <3>3, <3>4, <3>5, <1>1 DEF Conn, PCs
    <3>7. /\ d.pc = c.pc /\ d.sock = c.sock /\ SameStop(c, d) /\ SameSend(c, d)
          /\ d.recv = c.recv /\ d.netRecvC = q
      BY <1>1 DEF Conn, SameSend, SameStop
    <3> HIDE DEF d
    <3>8. Good(a, d)
      BY <1>1, <3>1, <3>3, <3>4, <3>5, <3>6, <3>7
      DEF Good, RunOK, Follows, Past, Serving, SameSend, SameStop
    <3> QED BY <3>2, <3>8, OneRun
  <2>3. CASE Update(a, [c EXCEPT !.wire = Tail(@)])
    <3> DEFINE d == [c EXCEPT !.wire = Tail(@)]
    <3>1. c.wire # <<>>
      BY <1>2, <2>3 DEF RecvPacket
    <3>2. Update(a, d) /\ UNCHANGED <<closing, call>> /\ ClientType'
      BY <1>2, <2>3, <1>1, ClientTypeKept DEF RecvPacket, clientVars
    <3>3. Tail(c.wire) \in Seq(Answers \cup {"DATA", "PINGRESP"})
      BY <3>1, <1>1, TailQueue DEF Conn
    <3>4. d \in Conn
      BY <3>3, <1>1, ZenonT(30) DEF Conn, PCs
    <3>5. /\ d.pc = c.pc /\ d.sock = c.sock /\ SameStop(c, d) /\ SameSend(c, d)
          /\ SameRecv(c, d)
      BY <1>1 DEF Conn, SameRecv, SameSend, SameStop
    <3> HIDE DEF d
    <3>6. Good(a, d)
      BY <1>1, <3>1, <3>3, <3>4, <3>5
      DEF Good, RunOK, Follows, Past, Serving, SameRecv, SameSend, SameStop
    <3> QED BY <3>2, <3>6, OneRun
  <2> QED
    BY <1>2, <2>1, <2>2, <2>3 DEF RecvPacket
<1>3. CASE RecvMismatch(a)
  <2> DEFINE d == [c EXCEPT !.wire = Tail(@), !.exited = TRUE, !.recv = "done"]
  <2>1. c.recv = "run" /\ c.wire # <<>>
    BY <1>3 DEF RecvMismatch
  <2>2. Update(a, d) /\ UNCHANGED <<closing, call>> /\ ClientType'
    BY <1>3, <1>1, ClientTypeKept DEF RecvMismatch, clientVars
  <2>3. Tail(c.wire) \in Seq(Answers \cup {"DATA", "PINGRESP"})
    BY <2>1, <1>1, TailQueue DEF Conn
  <2>4. d \in Conn
    BY <2>3, <1>1, ZenonT(30) DEF Conn, PCs
  <2>5. /\ d.pc = c.pc /\ d.sock = c.sock /\ d.stopSet = c.stopSet /\ d.exited = TRUE
        /\ d.parentExit = c.parentExit /\ SameSend(c, d) /\ d.recv = "done"
        /\ d.netRecvC = c.netRecvC
    BY <1>1 DEF Conn, SameSend
  <2> HIDE DEF d
  <2>6. Good(a, d)
    BY <1>1, <2>1, <2>3, <2>4, <2>5 DEF Good, RunOK, Follows, Past, Serving, SameSend
  <2> QED BY <2>2, <2>6, OneRun
<1>4. CASE RecvError(a)
  <2> DEFINE d == [c EXCEPT !.recv = "report"]
  <2>1. c.recv = "run"
    BY <1>4 DEF RecvError
  <2>2. Update(a, d) /\ UNCHANGED <<closing, call>> /\ ClientType'
    BY <1>4, <1>1, ClientTypeKept DEF RecvError, clientVars
  <2>3. d \in Conn
    BY <1>1, ZenonT(30) DEF Conn, PCs
  <2>4. /\ d.pc = c.pc /\ d.sock = c.sock /\ SameStop(c, d) /\ SameSend(c, d)
        /\ d.recv = "report" /\ d.netRecvC = c.netRecvC
    BY <1>1 DEF Conn, SameSend, SameStop
  <2> HIDE DEF d
  <2>5. Good(a, d)
    BY <1>1, <2>1, <2>3, <2>4 DEF Good, RunOK, Follows, Past, Serving, SameSend, SameStop
  <2> QED BY <2>2, <2>5, OneRun
<1>5. CASE RecvReport(a)
  <2> DEFINE d == [c EXCEPT !.exited = TRUE, !.recv = "done"]
  <2>1. c.recv = "report"
    BY <1>5 DEF RecvReport
  <2>2. Update(a, d) /\ UNCHANGED <<closing, call>> /\ ClientType'
    BY <1>5, <1>1, ClientTypeKept, NotifyNetType DEF RecvReport, clientVars
  <2>3. d \in Conn
    BY <1>1, ZenonT(30) DEF Conn, PCs
  <2>4. /\ d.pc = c.pc /\ d.sock = c.sock /\ d.stopSet = c.stopSet /\ d.exited = TRUE
        /\ d.parentExit = c.parentExit /\ SameSend(c, d) /\ d.recv = "done"
        /\ d.netRecvC = c.netRecvC
    BY <1>1 DEF Conn, SameSend
  <2> HIDE DEF d
  <2>5. Good(a, d)
    BY <1>1, <2>1, <2>3, <2>4 DEF Good, RunOK, Follows, Past, Serving, SameSend
  <2> QED BY <2>2, <2>5, OneRun
<1> QED
  BY <1>2, <1>3, <1>4, <1>5 DEF HandleNetRecv

\* handleSend()
LEMMA HandleSendKeeps ==
    ASSUME IInv, NEW a \in Attempts, HandleSend(a) \/ SendError(a)
    PROVE  IInv'
<1> DEFINE c == conns[a]
<1>1. /\ c \in Conn /\ RunOK(c, closing) /\ Len(c.logicSendC) <= QueueCap /\ Len(c.netRecvC) <= QueueCap
      /\ closing \in BOOLEAN /\ connectedServers \in Attempts \cup {0}
      /\ msgCh \in 0 .. MsgCap /\ recvCh \in 0 .. RecvCap /\ data \in 0 .. MaxData
  BY RunFacts
<1>2. CASE SendStop(a)
  <2> DEFINE d == [c EXCEPT !.send = "done"]
  <2>1. c.send = "run"
    BY <1>2 DEF SendStop
  <2>2. Update(a, d) /\ UNCHANGED <<closing, call>> /\ ClientType'
    BY <1>2, <1>1, ClientTypeKept DEF SendStop, clientVars
  <2>3. d \in Conn
    BY <1>1, ZenonT(30) DEF Conn, PCs
  <2>4. /\ d.pc = c.pc /\ d.sock = c.sock /\ SameStop(c, d) /\ d.send = "done"
        /\ d.logicSendC = c.logicSendC /\ d.discSent = c.discSent /\ SameRecv(c, d)
    BY <1>1 DEF Conn, SameRecv, SameStop
  <2> HIDE DEF d
  <2>5. Good(a, d)
    BY <1>1, <2>1, <2>3, <2>4 DEF Good, RunOK, Follows, Past, Serving, SameRecv, SameStop
  <2> QED BY <2>2, <2>5, OneRun
<1>3. CASE SendLogic(a)
  <2> DEFINE q == Tail(c.logicSendC)
  <2> DEFINE w == IF Head(c.logicSendC) = "PINGREQ" /\ c.sock = "open" THEN Append(c.wire, "PINGRESP") ELSE c.wire
  <2> DEFINE d == [c EXCEPT !.logicSendC = q, !.wire = w]
  <2>1. c.logicSendC # <<>>
    BY <1>3 DEF SendLogic
  <2>2. Update(a, d) /\ UNCHANGED <<closing, call>> /\ ClientType'
    BY <1>3, <1>1, ClientTypeKept DEF SendLogic, clientVars
  <2>3. q \in Seq({"PINGREQ", "PUBACK", "DISCONNECT"}) /\ Len(q) <= QueueCap /\ (HasDisconnect(q) => HasDisconnect(c.logicSendC))
    BY <2>1, <1>1, TailQueue, BoundsAssumption DEF Conn
  <2>4. w \in Seq(Answers \cup {"DATA", "PINGRESP"})
    BY <1>1, AppendQueue DEF Conn
  <2> HIDE DEF q, w
  <2>5. d \in Conn
    BY <2>3, <2>4, <1>1 DEF Conn, PCs
  <2>6. /\ d.pc = c.pc /\ d.sock = c.sock /\ SameStop(c, d) /\ d.send = c.send
        /\ d.logicSendC = q /\ d.discSent = c.discSent /\ SameRecv(c, d)
    BY <1>1 DEF Conn, SameRecv, SameStop
  <2> HIDE DEF d
  <2>7. Good(a, d)
    BY <1>1, <2>1, <2>3, <2>4, <2>5, <2>6
    DEF Good, RunOK, Follows, Past, Serving, SameRecv, SameStop
  <2> QED BY <2>2, <2>7, OneRun
<1>4. CASE SendDisconnect(a)
  <2>1. CASE c.sock # "closed"
             /\ Bye(a, [[c EXCEPT !.logicSendC = Tail(@)] EXCEPT !.discSent = (c.sock = "open")])
    <3> DEFINE q == Tail(c.logicSendC)
    <3> DEFINE b == c.sock = "open"
    <3> DEFINE d == [c EXCEPT !.logicSendC = q, !.discSent = b,
                              !.sock = "closed", !.wire = <<>>, !.exited = TRUE, !.send = "done"]
    <3>1. /\ c.send = "run" /\ c.logicSendC # <<>> /\ Head(c.logicSendC) = "DISCONNECT"
      BY <1>4 DEF SendDisconnect
    <3>2. Update(a, d) /\ UNCHANGED <<closing, call>> /\ ClientType'
      BY <1>4, <2>1, <1>1, ClientTypeKept DEF SendDisconnect, Bye, clientVars
    <3>3. <<>> \in Seq(Answers \cup {"DATA", "PINGRESP"})
      OBVIOUS
    <3>4. HasDisconnect(c.logicSendC)
      BY <3>1, <1>1 DEF HasDisconnect, Conn
    <3>5. q \in Seq({"PINGREQ", "PUBACK", "DISCONNECT"}) /\ Len(q) <= QueueCap /\ (HasDisconnect(q) => HasDisconnect(c.logicSendC))
      BY <3>1, <1>1, TailQueue, BoundsAssumption DEF Conn
    <3>6. b \in BOOLEAN /\ (b => c.sock = "open")
      OBVIOUS
    <3> HIDE DEF q, b
    <3>7. d \in Conn
      BY <3>3, <3>4, <3>5, <3>6, <1>1 DEF Conn, PCs
    <3>8. /\ d.pc = c.pc /\ d.sock = "closed" /\ d.stopSet = c.stopSet /\ d.exited = TRUE
          /\ d.parentExit = c.parentExit /\ d.send = "done" /\ d.logicSendC = q
          /\ d.discSent = b /\ SameRecv(c, d)
      BY <1>1 DEF Conn, SameRecv
    <3> HIDE DEF d
    <3>9. Good(a, d)
      BY <1>1, <3>1, <3>3, <3>4, <3>5, <3>6, <3>7, <3>8
      DEF Good, RunOK, Follows, Past, Serving, SameRecv
    <3> QED BY <3>2, <3>9, OneRun
  <2>2. CASE c.sock # "open" /\ Update(a, [[c EXCEPT !.logicSendC = Tail(@)] EXCEPT !.send = "bye"])
    <3> DEFINE q == Tail(c.logicSendC)
    <3> DEFINE d == [c EXCEPT !.logicSendC = q, !.send = "bye"]
    <3>1. c.send = "run" /\ c.logicSendC # <<>>
      BY <1>4 DEF SendDisconnect
    <3>2. Update(a, d) /\ UNCHANGED <<closing, call>> /\ ClientType'
      BY <1>4, <2>2, <1>1, ClientTypeKept DEF SendDisconnect, clientVars
    <3>3. q \in Seq({"PINGREQ", "PUBACK", "DISCONNECT"}) /\ Len(q) <= QueueCap /\ (HasDisconnect(q) => HasDisconnect(c.logicSendC))
      BY <3>1, <1>1, TailQueue, BoundsAssumption DEF Conn
    <3> HIDE DEF q
    <3>4. d \in Conn
      BY <3>3, <1>1, ZenonT(30) DEF Conn, PCs
    <3>5. /\ d.pc = c.pc /\ d.sock = c.sock /\ SameStop(c, d) /\ d.send = "bye"
          /\ d.logicSendC = q /\ d.discSent = c.discSent /\ SameRecv(c, d)
      BY <1>1 DEF Conn, SameRecv, SameStop
    <3> HIDE DEF d
    <3>6. Good(a, d)
      BY <1>1, <3>1, <3>3, <3>4, <3>5
      DEF Good, RunOK, Follows, Past, Serving, SameRecv, SameStop
    <3> QED BY <3>2, <3>6, OneRun
  <2> QED
    BY <1>4, <2>1, <2>2 DEF SendDisconnect
<1>5. CASE SendError(a)
  <2>1. CASE Update(a, [c EXCEPT !.send = "done"])
    <3> DEFINE d == [c EXCEPT !.send = "done"]
    <3>1. c.send = "run"
      BY <1>5 DEF SendError
    <3>2. Update(a, d) /\ UNCHANGED <<closing, call>> /\ ClientType'
      BY <1>5, <2>1, <1>1, ClientTypeKept DEF SendError, clientVars
    <3>3. d \in Conn
      BY <1>1, ZenonT(30) DEF Conn, PCs
    <3>4. /\ d.pc = c.pc /\ d.sock = c.sock /\ SameStop(c, d) /\ d.send = "done"
          /\ d.logicSendC = c.logicSendC /\ d.discSent = c.discSent /\ SameRecv(c, d)
      BY <1>1 DEF Conn, SameRecv, SameStop
    <3> HIDE DEF d
    <3>5. Good(a, d)
      BY <1>1, <3>1, <3>3, <3>4 DEF Good, RunOK, Follows, Past, Serving, SameRecv, SameStop
    <3> QED BY <3>2, <3>5, OneRun
  <2>2. CASE Update(a, [c EXCEPT !.send = "report"])
    <3> DEFINE d == [c EXCEPT !.send = "report"]
    <3>1. c.send = "run"
      BY <1>5 DEF SendError
    <3>2. Update(a, d) /\ UNCHANGED <<closing, call>> /\ ClientType'
      BY <1>5, <2>2, <1>1, ClientTypeKept DEF SendError, clientVars
    <3>3. d \in Conn
      BY <1>1, ZenonT(30) DEF Conn, PCs
    <3>4. /\ d.pc = c.pc /\ d.sock = c.sock /\ SameStop(c, d) /\ d.send = "report"
          /\ d.logicSendC = c.logicSendC /\ d.discSent = c.discSent /\ SameRecv(c, d)
      BY <1>1 DEF Conn, SameRecv, SameStop
    <3> HIDE DEF d
    <3>5. Good(a, d)
      BY <1>1, <3>1, <3>3, <3>4 DEF Good, RunOK, Follows, Past, Serving, SameRecv, SameStop
    <3> QED BY <3>2, <3>5, OneRun
  <2> QED
    BY <1>5, <2>1, <2>2 DEF SendError
<1>6. CASE SendReport(a)
  <2> DEFINE d == [c EXCEPT !.send = "done"]
  <2>1. c.send = "report"
    BY <1>6 DEF SendReport
  <2>2. Update(a, d) /\ UNCHANGED <<closing, call>> /\ ClientType'
    BY <1>6, <1>1, ClientTypeKept, NotifyNetType DEF SendReport, clientVars
  <2>3. d \in Conn
    BY <1>1, ZenonT(30) DEF Conn, PCs
  <2>4. /\ d.pc = c.pc /\ d.sock = c.sock /\ SameStop(c, d) /\ d.send = "done"
        /\ d.logicSendC = c.logicSendC /\ d.discSent = c.discSent /\ SameRecv(c, d)
    BY <1>1 DEF Conn, SameRecv, SameStop
  <2> HIDE DEF d
  <2>5. Good(a, d)
    BY <1>1, <2>1, <2>3, <2>4 DEF Good, RunOK, Follows, Past, Serving, SameRecv, SameStop
  <2> QED BY <2>2, <2>5, OneRun
<1>7. CASE SendBye(a)
  <2> DEFINE d == [c EXCEPT !.sock = "closed", !.wire = <<>>, !.exited = TRUE, !.send = "done"]
  <2>1. c.send = "bye"
    BY <1>7 DEF SendBye
  <2>2. Update(a, d) /\ UNCHANGED <<closing, call>> /\ ClientType'
    BY <1>7, <1>1, ClientTypeKept, NotifyNetType DEF SendBye, Bye, clientVars
  <2>3. <<>> \in Seq(Answers \cup {"DATA", "PINGRESP"})
    OBVIOUS
  <2>4. d \in Conn
    BY <2>3, <1>1, ZenonT(30) DEF Conn, PCs
  <2>5. /\ d.pc = c.pc /\ d.sock = "closed" /\ d.stopSet = c.stopSet /\ d.exited = TRUE
        /\ d.parentExit = c.parentExit /\ d.send = "done" /\ d.logicSendC = c.logicSendC
        /\ d.discSent = c.discSent /\ SameRecv(c, d)
    BY <1>1 DEF Conn, SameRecv
  <2> HIDE DEF d
  <2>6. Good(a, d)
    BY <1>1, <2>1, <2>4, <2>5 DEF Good, RunOK, Follows, Past, Serving, SameRecv
  <2> QED BY <2>2, <2>6, OneRun
<1> QED
  BY <1>2, <1>3, <1>4, <1>5, <1>6, <1>7 DEF HandleSend

\* keepalive()
LEMMA KeepaliveKeeps ==
    ASSUME IInv, NEW a \in Attempts, Keepalive(a)
    PROVE  IInv'
<1> DEFINE c == conns[a]
<1>1. /\ c \in Conn /\ RunOK(c, closing) /\ Len(c.logicSendC) <= QueueCap /\ Len(c.netRecvC) <= QueueCap
      /\ closing \in BOOLEAN /\ connectedServers \in Attempts \cup {0}
      /\ msgCh \in 0 .. MsgCap /\ recvCh \in 0 .. RecvCap /\ data \in 0 .. MaxData
  BY RunFacts
<1>2. CASE AliveTick(a)
  <2>1. CASE Len(c.logicSendC) < QueueCap /\ Update(a, [[c EXCEPT !.alive = "wait"] EXCEPT !.logicSendC = Append(@, "PINGREQ")])
    <3> DEFINE q == Append(c.logicSendC, "PINGREQ")
    <3> DEFINE d == [[c EXCEPT !.alive = "wait"] EXCEPT !.logicSendC = q]
    <3>1. c.alive = "tick" /\ Len(c.logicSendC) < QueueCap
      BY <1>2, <2>1 DEF AliveTick
    <3>2. Update(a, d) /\ UNCHANGED <<closing, call>> /\ ClientType'
      BY <1>2, <2>1, <1>1, ClientTypeKept DEF AliveTick, clientVars
    <3>3. q \in Seq({"PINGREQ", "PUBACK", "DISCONNECT"}) /\ Len(q) <= QueueCap /\ (HasDisconnect(q) => HasDisconnect(c.logicSendC))
      BY <3>1, <1>1, AppendQueue, BoundsAssumption DEF Conn
    <3> HIDE DEF q
    <3>4. d \in Conn
      BY <3>3, <1>1, ZenonT(30) DEF Conn, PCs
    <3>5. /\ d.pc = c.pc /\ d.sock = c.sock /\ SameStop(c, d) /\ d.send = c.send
          /\ d.logicSendC = q /\ d.discSent = c.discSent /\ SameRecv(c, d)
      BY <1>1 DEF Conn, SameRecv, SameStop
    <3> HIDE DEF d
    <3>6. Good(a, d)
      BY <1>1, <3>1, <3>3, <3>4, <3>5
      DEF Good, RunOK, Follows, Past, Serving, SameRecv, SameStop
    <3> QED BY <3>2, <3>6, OneRun
  <2>2. CASE Stopped(a) /\ Update(a, [c EXCEPT !.alive = "wait"])
    <3> DEFINE d == [c EXCEPT !.alive = "wait"]
    <3>1. c.alive = "tick"
      BY <1>2, <2>2 DEF AliveTick
    <3>2. Update(a, d) /\ UNCHANGED <<closing, call>> /\ ClientType'
      BY <1>2, <2>2, <1>1, ClientTypeKept DEF AliveTick, clientVars
    <3>3. d \in Conn
      BY <1>1, ZenonT(30) DEF Conn, PCs
    <3>4. /\ d.pc = c.pc /\ d.sock = c.sock /\ SameStop(c, d) /\ SameSend(c, d)
          /\ SameRecv(c, d)
      BY <1>1 DEF Conn, SameRecv, SameSend, SameStop
    <3> HIDE DEF d
    <3>5. Good(a, d)
      BY <1>1, <3>1, <3>3, <3>4
      DEF Good, RunOK, Follows, Past, Serving, SameRecv, SameSend, SameStop
    <3> QED BY <3>2, <3>5, OneRun
  <2> QED
    BY <1>2, <2>1, <2>2 DEF AliveTick, SendOrStop
<1>3. CASE AliveAnswer(a)
  <2>1. CASE c.keepaliveC > 0 /\ Update(a, [c EXCEPT !.keepaliveC = @ - 1, !.alive = "tick"])
    <3> DEFINE d == [c EXCEPT !.keepaliveC = @ - 1, !.alive = "tick"]
    <3>1. c.keepaliveC > 0
      BY <1>3, <2>1 DEF AliveAnswer
    <3>2. Update(a, d) /\ UNCHANGED <<closing, call>> /\ ClientType'
      BY <1>3, <2>1, <1>1, ClientTypeKept DEF AliveAnswer, clientVars
    <3>3. c.keepaliveC - 1 \in 0 .. 1
      BY <3>1, <1>1 DEF Conn
    <3>4. d \in Conn
      BY <3>3, <1>1, ZenonT(30) DEF Conn, PCs
    <3>5. /\ d.pc = c.pc /\ d.sock = c.sock /\ SameStop(c, d) /\ SameSend(c, d)
          /\ SameRecv(c, d)
      BY <1>1 DEF Conn, SameRecv, SameSend, SameStop
    <3> HIDE DEF d
    <3>6. Good(a, d)
      BY <1>1, <3>1, <3>3, <3>4, <3>5
      DEF Good, RunOK, Follows, Past, Serving, SameRecv, SameSend, SameStop
    <3> QED BY <3>2, <3>6, OneRun
  <2>2. CASE Update(a, [c EXCEPT !.alive = "done"])
    <3> DEFINE d == [c EXCEPT !.alive = "done"]
    <3>1. c.alive = "wait"
      BY <1>3, <2>2 DEF AliveAnswer
    <3>2. Update(a, d) /\ UNCHANGED <<closing, call>> /\ ClientType'
      BY <1>3, <2>2, <1>1, ClientTypeKept DEF AliveAnswer, clientVars
    <3>3. d \in Conn
      BY <1>1, ZenonT(30) DEF Conn, PCs
    <3>4. /\ d.pc = c.pc /\ d.sock = c.sock /\ SameStop(c, d) /\ SameSend(c, d)
          /\ SameRecv(c, d)
      BY <1>1 DEF Conn, SameRecv, SameSend, SameStop
    <3> HIDE DEF d
    <3>5. Good(a, d)
      BY <1>1, <3>1, <3>3, <3>4
      DEF Good, RunOK, Follows, Past, Serving, SameRecv, SameSend, SameStop
    <3> QED BY <3>2, <3>5, OneRun
  <2> QED
    BY <1>3, <2>1, <2>2 DEF AliveAnswer
<1>4. CASE AliveTimeout(a)
  <2> DEFINE d == [c EXCEPT !.exited = TRUE, !.alive = "done"]
  <2>1. c.alive = "wait"
    BY <1>4 DEF AliveTimeout
  <2>2. Update(a, d) /\ UNCHANGED <<closing, call>> /\ ClientType'
    BY <1>4, <1>1, ClientTypeKept DEF AliveTimeout, clientVars
  <2>3. d \in Conn
    BY <1>1, ZenonT(30) DEF Conn, PCs
  <2>4. /\ d.pc = c.pc /\ d.sock = c.sock /\ d.stopSet = c.stopSet /\ d.exited = TRUE
        /\ d.parentExit = c.parentExit /\ SameSend(c, d) /\ SameRecv(c, d)
    BY <1>1 DEF Conn, SameRecv, SameSend
  <2> HIDE DEF d
  <2>5. Good(a, d)
    BY <1>1, <2>1, <2>3, <2>4 DEF Good, RunOK, Follows, Past, Serving, SameRecv, SameSend
  <2> QED BY <2>2, <2>5, OneRun
<1>5. CASE AliveStop(a)
  <2> DEFINE d == [c EXCEPT !.alive = "done"]
  <2>1. c.alive \in {"tick", "wait"}
    BY <1>5 DEF AliveStop
  <2>2. Update(a, d) /\ UNCHANGED <<closing, call>> /\ ClientType'
    BY <1>5, <1>1, ClientTypeKept DEF AliveStop, clientVars
  <2>3. d \in Conn
    BY <1>1, ZenonT(30) DEF Conn, PCs
  <2>4. /\ d.pc = c.pc /\ d.sock = c.sock /\ SameStop(c, d) /\ SameSend(c, d)
        /\ SameRecv(c, d)
    BY <1>1 DEF Conn, SameRecv, SameSend, SameStop
  <2> HIDE DEF d
  <2>5. Good(a, d)
    BY <1>1, <2>1, <2>3, <2>4
    DEF Good, RunOK, Follows, Past, Serving, SameRecv, SameSend, SameStop
  <2> QED BY <2>2, <2>5, OneRun
<1> QED
  BY <1>2, <1>3, <1>4, <1>5 DEF Keepalive

\* The server
LEMMA ServerKeeps ==
    ASSUME IInv, NEW a \in Attempts, NEW answer \in Answers, ServerAnswer(a, answer) \/ ServerData(a) \/ ServerClose(a)
    PROVE  IInv'
<1> DEFINE c == conns[a]
<1>1. /\ c \in Conn /\ RunOK(c, closing) /\ Len(c.logicSendC) <= QueueCap /\ Len(c.netRecvC) <= QueueCap
      /\ closing \in BOOLEAN /\ connectedServers \in Attempts \cup {0}
      /\ msgCh \in 0 .. MsgCap /\ recvCh \in 0 .. RecvCap /\ data \in 0 .. MaxData
  BY RunFacts
<1>2. CASE ServerAnswer(a, answer)
  <2> DEFINE d == [c EXCEPT !.wire = Append(@, answer),
                            !.server = IF answer = "CONNACK" THEN "up" ELSE "leaving"]
  <2>1. c.server = "hello"
    BY <1>2 DEF ServerAnswer
  <2>2. Update(a, d) /\ UNCHANGED <<closing, call>> /\ ClientType'
    BY <1>2, <1>1, ClientTypeKept DEF ServerAnswer, clientVars
  <2>3. Append(c.wire, answer) \in Seq(Answers \cup {"DATA", "PINGRESP"})
    BY <1>1, AppendQueue DEF Conn
  <2>4. d \in Conn
    BY <2>3, <1>1, ZenonT(60) DEF Conn, PCs
  <2>5. /\ d.pc = c.pc /\ d.sock = c.sock /\ SameStop(c, d) /\ SameSend(c, d)
        /\ SameRecv(c, d)
    BY <1>1 DEF Conn, SameRecv, SameSend, SameStop
  <2> HIDE DEF d
  <2>6. Good(a, d)
    BY <1>1, <2>1, <2>3, <2>4, <2>5
    DEF Good, RunOK, Follows, Past, Serving, SameRecv, SameSend, SameStop
  <2> QED BY <2>2, <2>6, OneRun
<1>3. CASE ServerData(a)
  <2> DEFINE d == [c EXCEPT !.wire = Append(@, "DATA")]
  <2>1. c.server = "up"
    BY <1>3 DEF ServerData
  <2>2. Update(a, d) /\ UNCHANGED <<closing, call>> /\ ClientType'
    BY <1>3, <1>1, ClientTypeKept, BoundsAssumption DEF ServerData, clientVars
  <2>3. Append(c.wire, "DATA") \in Seq(Answers \cup {"DATA", "PINGRESP"})
    BY <1>1, AppendQueue DEF Conn
  <2>4. d \in Conn
    BY <2>3, <1>1, ZenonT(30) DEF Conn, PCs
  <2>5. /\ d.pc = c.pc /\ d.sock = c.sock /\ SameStop(c, d) /\ SameSend(c, d)
        /\ SameRecv(c, d)
    BY <1>1 DEF Conn, SameRecv, SameSend, SameStop
  <2> HIDE DEF d
  <2>6. Good(a, d)
    BY <1>1, <2>1, <2>3, <2>4, <2>5
    DEF Good, RunOK, Follows, Past, Serving, SameRecv, SameSend, SameStop
  <2> QED BY <2>2, <2>6, OneRun
<1>4. CASE ServerClose(a)
  <2> DEFINE d == [c EXCEPT !.sock = "peer"]
  <2>1. c.sock = "open"
    BY <1>4 DEF ServerClose
  <2>2. Update(a, d) /\ UNCHANGED <<closing, call>> /\ ClientType'
    BY <1>4, <1>1, ClientTypeKept DEF ServerClose, clientVars
  <2>3. d \in Conn
    BY <1>1, ZenonT(30) DEF Conn, PCs
  <2>4. /\ d.pc = c.pc /\ d.sock = "peer" /\ SameStop(c, d) /\ SameSend(c, d)
        /\ SameRecv(c, d)
    BY <1>1 DEF Conn, SameRecv, SameSend, SameStop
  <2> HIDE DEF d
  <2>5. Good(a, d)
    BY <1>1, <2>1, <2>3, <2>4
    DEF Good, RunOK, Follows, Past, Serving, SameRecv, SameSend, SameStop
  <2> QED BY <2>2, <2>5, OneRun
<1> QED
  BY <1>2, <1>3, <1>4

-----------------------------------------------------------------------------
(* Two runs at a time: a run starts its successor and gives up. *)

LEMMA SuccessorKeeps ==
    ASSUME IInv, NEW a \in Attempts, a + 1 \in Attempts, conns[a].pc \in {"connack", "delay"},
           NEW d \in Conn, NEW e \in Conn,
           d.pc = "defer", SameStop(conns[a], d), SameSend(conns[a], d), d.recv = conns[a].recv,
           Len(d.netRecvC) <= QueueCap, d.sock = conns[a].sock,
           e.pc = Started("dial"), SameStop(conns[a + 1], e), SameSend(conns[a + 1], e),
           SameRecv(conns[a + 1], e), e.sock = conns[a + 1].sock,
           conns' = [conns EXCEPT ![a] = d, ![a + 1] = e], UNCHANGED clientVars
    PROVE  IInv'
<1> DEFINE b == a + 1
<1>1. /\ conns \in [Attempts -> Conn] /\ b \in Attempts /\ a # b /\ a \in Nat /\ closing \in BOOLEAN
      /\ RunOK(conns[a], closing) /\ RunOK(conns[b], closing)
  BY AttemptsType DEF IInv, TypeOK
<1>2. conns[b].pc = "none"
  BY <1>1 DEF IInv, Chain, Past
<1>3. /\ conns' \in [Attempts -> Conn]
      /\ \A x \in Attempts : conns'[x] = IF x = b THEN e ELSE IF x = a THEN d ELSE conns[x]
  BY <1>1
<1>4. e.pc \in {"none", "dial"} /\ (e.pc = "none" => closing)
  BY DEF Started
<1>5. ~conns[a].discSent /\ ~conns[b].discSent
  BY <1>1, <1>2 DEF RunOK, Serving, Past
<1>6. TypeOK'
  <2>1. \A x \in Attempts : Len(conns'[x].logicSendC) <= QueueCap /\ Len(conns'[x].netRecvC) <= QueueCap
    BY <1>1, <1>3 DEF IInv, TypeOK, SameSend, SameRecv
  <2>2. UNCHANGED <<connectedServers, closing, msgCh, recvCh, handlers, data, call, panicked>>
    BY DEF clientVars
  <2> QED BY <1>3, <2>1, <2>2 DEF IInv, TypeOK
<1>7. \A x \in Attempts : RunOK(conns'[x], closing')
  <2>1. RunOK(d, closing)
    BY <1>1 DEF RunOK, SameStop, SameSend, Serving, Past
  <2>2. RunOK(e, closing)
    BY <1>1, <1>2, <1>4 DEF RunOK, SameStop, SameSend, SameRecv, Serving, Past
  <2>3. closing' = closing
    BY DEF clientVars
  <2> QED BY <1>3, <2>1, <2>2, <2>3 DEF IInv
<1>8. Chain'
  <2> SUFFICES ASSUME NEW x \in Attempts, NEW y \in Attempts, x < y, conns'[y].pc # "none"
               PROVE  conns'[x].pc \in Past
    BY DEF Chain
  <2>1. conns[y].pc # "none" => y <= a
    BY <1>1, AttemptsType DEF IInv, Chain, Past
  <2>2. y <= b
    BY <1>1, <1>3, <2>1, AttemptsType
  <2>3. CASE x = a
    BY <1>1, <1>3, <2>3 DEF Past
  <2>4. CASE x # a
    <3>1. x < a
      BY <1>1, <2>2, <2>4, AttemptsType
    <3>2. conns[x].pc \in Past
      BY <1>1, <3>1 DEF IInv, Chain
    <3> QED BY <1>1, <1>3, <3>1, <3>2, AttemptsType
  <2> QED BY <2>3, <2>4
<1>9. PastIsRetried'
  <2> SUFFICES ASSUME autoReconnect, NEW x \in Attempts \ {MaxAttempts}, conns'[x].pc \in Past
               PROVE  closing' \/ conns'[x].parentExit \/ conns'[x + 1].pc # "none"
    BY DEF PastIsRetried
  <2>1. x + 1 \in Attempts /\ x \in Nat /\ closing' = closing
    BY BoundsAssumption DEF Attempts, clientVars
  <2>2. CASE x = a
    BY <1>1, <1>3, <1>4, <2>1, <2>2
  <2>3. CASE x = b
    BY <1>3, <1>4, <2>3 DEF Past
  <2>4. CASE x # a /\ x # b
    <3>1. closing \/ conns[x].parentExit \/ conns[x + 1].pc # "none"
      BY <1>3, <2>4 DEF IInv, PastIsRetried
    <3>2. x + 1 # b
      BY <1>1, <2>1, <2>4
    <3> QED BY <1>3, <2>1, <2>4, <3>1, <3>2
  <2> QED BY <2>2, <2>3, <2>4
<1>10. CallFlagged'
  <2>1. call' = call /\ (call.pc = "send" => call.conn \in Attempts)
    BY DEF IInv, TypeOK, clientVars
  <2> QED BY <1>1, <1>3, <2>1 DEF IInv, CallFlagged, SameStop
<1>11. DisconnectIsFinal'
  <2> SUFFICES ASSUME NEW x \in Attempts, NEW y \in Attempts, conns'[x].discSent, y > x
               PROVE  conns'[y].pc = "none"
    BY DEF DisconnectIsFinal
  <2>1. x # a /\ x # b
    BY <1>1, <1>3, <1>5 DEF SameSend
  <2>2. conns[y].pc = "none"
    BY <1>3, <2>1 DEF IInv, DisconnectIsFinal
  <2>3. y # a
    BY <2>2
  <2>4. ~(x < a)
    BY <2>1, <1>3 DEF IInv, DisconnectIsFinal
  <2>5. y # b
    BY <1>1, <2>1, <2>4, AttemptsType
  <2> QED BY <1>3, <2>2, <2>3, <2>5
<1> QED BY <1>6, <1>7, <1>8, <1>9, <1>10, <1>11 DEF IInv

\* connect() calls itself, with the lower version or after the delay.
LEMMA RetryKeeps ==
    ASSUME IInv, NEW a \in Attempts, ConnCompromise(a) \/ (Reconnect(a) /\ a < MaxAttempts)
    PROVE  IInv'
<1> DEFINE c == conns[a]
<1> DEFINE n == conns[a + 1]
<1>1. a < MaxAttempts /\ a + 1 \in Attempts /\ a + 1 # a
  BY BoundsAssumption DEF ConnCompromise, Attempts
<1>2. /\ c \in Conn /\ n \in Conn /\ conns \in [Attempts -> Conn]
      /\ Len(c.netRecvC) <= QueueCap /\ closing \in BOOLEAN
  BY <1>1 DEF IInv, TypeOK
<1> DEFINE p == Started("dial")
<1>3. p \in {"none", "dial"}
  BY DEF Started
<1>4. CASE ConnCompromise(a)
  <2> DEFINE q == Tail(c.netRecvC)
  <2> DEFINE v == c.version - 1
  <2> DEFINE d == [c EXCEPT !.netRecvC = q, !.sendClosed = TRUE, !.pc = "defer"]
  <2> DEFINE e == [n EXCEPT !.pc = p, !.version = v]
  <2>1. c.pc = "connack" /\ c.netRecvC # <<>>
    BY <1>4 DEF ConnCompromise
  <2>2. q \in Seq(Answers \cup {"DATA"}) /\ Len(q) <= QueueCap
    BY <1>2, <2>1, TailQueue, BoundsAssumption DEF Conn
  <2>3. v \in {V311, V5}
    BY <1>2, <1>4 DEF ConnCompromise, Conn, V311, V5
  <2>4. conns' = [conns EXCEPT ![a] = d, ![a + 1] = e] /\ UNCHANGED clientVars
    BY <1>4 DEF ConnCompromise
  <2> HIDE DEF q, v, p
  <2>5. d \in Conn /\ e \in Conn
    BY <1>2, <1>3, <2>2, <2>3, ZenonT(60) DEF Conn, PCs
  <2>6. /\ d.pc = "defer" /\ SameStop(c, d) /\ SameSend(c, d) /\ d.recv = c.recv
        /\ d.netRecvC = q /\ d.sock = c.sock
    BY <1>2 DEF Conn, SameStop, SameSend
  <2>7. e.pc = p /\ SameStop(n, e) /\ SameSend(n, e) /\ SameRecv(n, e) /\ e.sock = n.sock
    BY <1>2 DEF Conn, SameStop, SameSend, SameRecv
  <2> HIDE DEF d, e
  <2> QED BY <1>1, <2>1, <2>2, <2>4, <2>5, <2>6, <2>7, SuccessorKeeps DEF p
<1>5. CASE Reconnect(a)
  <2> DEFINE v == c.version
  <2> DEFINE d == [c EXCEPT !.pc = "defer"]
  <2> DEFINE e == [n EXCEPT !.pc = p, !.version = v]
  <2>1. c.pc = "delay"
    BY <1>5 DEF Reconnect
  <2>2. conns' = [conns EXCEPT ![a] = d, ![a + 1] = e] /\ UNCHANGED clientVars
    BY <1>1, <1>5 DEF Reconnect
  <2>3. v \in {V311, V5}
    BY <1>2 DEF Conn
  <2> HIDE DEF v, p
  <2>4. d \in Conn /\ e \in Conn
    BY <1>2, <1>3, <2>3, ZenonT(60) DEF Conn, PCs
  <2>5. /\ d.pc = "defer" /\ SameStop(c, d) /\ SameSend(c, d) /\ d.recv = c.recv
        /\ d.netRecvC = c.netRecvC /\ d.sock = c.sock
    BY <1>2 DEF Conn, SameStop, SameSend
  <2>6. e.pc = p /\ SameStop(n, e) /\ SameSend(n, e) /\ SameRecv(n, e) /\ e.sock = n.sock
    BY <1>2 DEF Conn, SameStop, SameSend, SameRecv
  <2> HIDE DEF d, e
  <2> QED BY <1>1, <1>2, <2>1, <2>2, <2>4, <2>5, <2>6, SuccessorKeeps DEF p
<1> QED BY <1>4, <1>5

\* The last run that the bound allows gives up without a successor.
LEMMA LastRunKeeps ==
    ASSUME IInv, NEW a \in Attempts, Reconnect(a), a = MaxAttempts
    PROVE  IInv'
<1> DEFINE c == conns[a]
<1> DEFINE d == [c EXCEPT !.pc = "defer"]
<1>1. /\ c \in Conn /\ RunOK(c, closing) /\ Len(c.logicSendC) <= QueueCap /\ Len(c.netRecvC) <= QueueCap
      /\ closing \in BOOLEAN /\ connectedServers \in Attempts \cup {0}
      /\ msgCh \in 0 .. MsgCap /\ recvCh \in 0 .. RecvCap /\ data \in 0 .. MaxData
  BY RunFacts
<1>2. c.pc = "delay" /\ Update(a, d) /\ UNCHANGED clientVars
  BY BoundsAssumption DEF Reconnect
<1>3. UNCHANGED <<closing, call>> /\ ClientType'
  BY <1>1, <1>2, ClientTypeKept DEF clientVars
<1>4. d \in Conn
  BY <1>1, ZenonT(30) DEF Conn, PCs
<1>5. /\ d.pc = "defer" /\ d.sock = c.sock /\ SameStop(c, d) /\ SameSend(c, d) /\ SameRecv(c, d)
  BY <1>1 DEF Conn, SameRecv, SameSend, SameStop
<1> HIDE DEF d
<1>6. Good(a, d)
  BY <1>1, <1>2, <1>4, <1>5
  DEF Good, RunOK, Follows, Past, Serving, SameRecv, SameSend, SameStop
<1> QED BY <1>2, <1>3, <1>6, OneRun

-----------------------------------------------------------------------------
(* The client, and its calls *)

\* ConnectServer starts the first run.
LEMMA ConnectServerKeeps ==
    ASSUME IInv, ConnectServer
    PROVE  IInv'
<1> DEFINE c == conns[1]
<1> DEFINE d == [c EXCEPT !.pc = "dial"]
<1>1. /\ c \in Conn /\ RunOK(c, closing) /\ Len(c.logicSendC) <= QueueCap /\ Len(c.netRecvC) <= QueueCap
      /\ closing \in BOOLEAN /\ connectedServers \in Attempts \cup {0}
      /\ msgCh \in 0 .. MsgCap /\ recvCh \in 0 .. RecvCap /\ data \in 0 .. MaxData
  BY RunFacts, AttemptsType
<1>2. c.pc = "none"
  BY DEF ConnectServer
<1>3. Update(1, d) /\ UNCHANGED <<closing, call>> /\ ClientType'
  BY <1>1, ClientTypeKept DEF ConnectServer, clientVars
<1>4. d \in Conn
  BY <1>1, ZenonT(30) DEF Conn, PCs
<1>5. d.pc = "dial" /\ d.sock = c.sock /\ SameStop(c, d) /\ SameSend(c, d) /\ SameRecv(c, d)
  BY <1>1 DEF Conn, SameStop, SameSend, SameRecv
<1> HIDE DEF d
<1>6. Good(1, d)
  BY <1>1, <1>2, <1>4, <1>5
  DEF Good, RunOK, Follows, Past, Serving, SameStop, SameSend, SameRecv
<1> QED BY <1>3, <1>6, AttemptsType, OneRun

\* A step that leaves the connections alone; the client may start to close.
LEMMA ClientStep ==
    ASSUME IInv, UNCHANGED conns, ClientType', closing => closing',
           call'.pc = "send" => call.pc = "send" /\ call'.conn = call.conn
    PROVE  IInv'
<1>1. TypeOK'
  BY DEF IInv, TypeOK, ClientType
<1>2. \A a \in Attempts : RunOK(conns'[a], closing')
  BY DEF IInv, RunOK
<1>3. Chain' /\ DisconnectIsFinal'
  BY DEF IInv, Chain, DisconnectIsFinal
<1>4. PastIsRetried'
  BY DEF IInv, PastIsRetried
<1>5. CallFlagged'
  BY DEF IInv, CallFlagged
<1> QED BY <1>1, <1>2, <1>3, <1>4, <1>5 DEF IInv

\* The type of call
Calls == [pc : CallPCs, count : 0 .. MaxCalls, conn : Attempts \cup {0}, sawStop : BOOLEAN,
          destroy : BOOLEAN, result : BOOLEAN]

LEMMA ClientTypeNow ==
    ASSUME IInv
    PROVE  ClientType /\ call \in Calls
BY DEF IInv, TypeOK, ClientType, Calls

LEMMA HandlersKeep ==
    ASSUME IInv, Handlers
    PROVE  IInv'
<1>1. ClientType' /\ UNCHANGED <<conns, closing, call>>
  <2>1. CASE HandleMsg
    BY <2>1, ClientTypeNow, BoundsAssumption DEF HandleMsg, ClientType
  <2>2. CASE HandleTopicMsg
    BY <2>2, ClientTypeNow DEF HandleTopicMsg, ClientType, RecvCap
  <2>3. CASE \E h \in handlers : HandlerStop(h)
    BY <2>3, ClientTypeNow DEF HandlerStop, ClientType
  <2> QED BY <2>1, <2>2, <2>3 DEF Handlers
<1> QED BY <1>1, ClientStep

\* A call moves: its new state is of the type, and works on a run.
LEMMA CallStep ==
    ASSUME IInv, UNCHANGED <<conns, connectedServers, msgCh, recvCh, handlers, data>>,
           closing' \in BOOLEAN, panicked' \in BOOLEAN, closing => closing',
           call' \in Calls, call'.pc \in {"flag", "select", "wait"} => call'.conn \in Attempts,
           call'.pc = "send" => call.pc = "send" /\ call'.conn = call.conn
    PROVE  IInv'
<1>1. ClientType'
  BY ClientTypeNow DEF ClientType, Calls
<1> QED BY <1>1, ClientStep

LEMMA LoadKeeps ==
    ASSUME IInv, NEW destroy \in BOOLEAN, DisconnectLoad(destroy)
    PROVE  IInv'
<1> DEFINE n == call.count + 1
<1> DEFINE p == IF connectedServers # 0 THEN "flag" ELSE IF destroy THEN "cancel" ELSE "returned"
<1> DEFINE r == IF connectedServers # 0 THEN call.result ELSE FALSE
<1> DEFINE d == [call EXCEPT !.count = n, !.destroy = destroy, !.conn = connectedServers, !.pc = p, !.result = r]
<1>1. call \in Calls /\ connectedServers \in Attempts \cup {0} /\ closing \in BOOLEAN /\ panicked \in BOOLEAN
      /\ data \in Nat
  BY ClientTypeNow, BoundsAssumption DEF ClientType
<1>2. n \in 0 .. MaxCalls
  BY <1>1, BoundsAssumption DEF DisconnectLoad, Calls
<1>3. p \in {"flag", "cancel", "returned"} /\ (p = "flag" => connectedServers \in Attempts) /\ r \in BOOLEAN
  BY <1>1 DEF Calls
<1>4. call' = d
  BY <1>1 DEF DisconnectLoad, Calls
<1> HIDE DEF n, p, r
<1>5. d \in Calls /\ d.pc = p /\ d.conn = connectedServers
  BY <1>1, <1>2, <1>3 DEF Calls, CallPCs
<1> HIDE DEF d
<1> QED BY <1>1, <1>3, <1>4, <1>5, CallStep DEF DisconnectLoad

\* atomic.StoreUint32(&conn.parentExit, 1)
LEMMA FlagKeeps ==
    ASSUME IInv, DisconnectFlag
    PROVE  IInv'
<1> DEFINE a == call.conn
<1> DEFINE c == conns[a]
<1> DEFINE d == [c EXCEPT !.parentExit = TRUE]
<1>1. call \in Calls /\ a \in Attempts /\ call.pc = "flag"
  BY ClientTypeNow DEF DisconnectFlag, IInv, TypeOK
<1>2. /\ c \in Conn /\ RunOK(c, closing) /\ Len(c.logicSendC) <= QueueCap /\ Len(c.netRecvC) <= QueueCap
      /\ conns \in [Attempts -> Conn]
  BY <1>1 DEF IInv, TypeOK
<1>3. call' \in Calls /\ call'.conn = a /\ call'.pc = "send"
  BY <1>1 DEF DisconnectFlag, Calls, CallPCs
<1>4. Update(a, d) /\ UNCHANGED closing
  BY DEF DisconnectFlag
<1>5. ClientType'
  BY <1>1, <1>3, ClientTypeNow DEF DisconnectFlag, ClientType, Calls
<1>6. d \in Conn
  BY <1>2 DEF Conn
<1>7. /\ d.pc = c.pc /\ d.sock = c.sock /\ SameSend(c, d) /\ SameRecv(c, d)
      /\ d.stopSet = c.stopSet /\ d.exited = c.exited /\ d.parentExit = TRUE
  BY <1>2 DEF Conn, SameSend, SameRecv
<1> HIDE DEF d
<1>8. Good(a, d)
  BY <1>2, <1>6, <1>7 DEF Good, RunOK, Follows, Past, Serving, SameSend, SameRecv
<1>9. CallFlagged'
  BY <1>1, <1>2, <1>3, <1>4, <1>7 DEF CallFlagged, Update
<1> QED BY <1>1, <1>4, <1>5, <1>8, <1>9, OneRunAndCall

\* conn.send(packet)
LEMMA SendKeeps ==
    ASSUME IInv, DisconnectSend
    PROVE  IInv'
<1> DEFINE a == call.conn
<1> DEFINE c == conns[a]
<1>1. call \in Calls /\ a \in Attempts /\ call.pc = "send" /\ closing \in BOOLEAN /\ panicked \in BOOLEAN
  BY ClientTypeNow DEF DisconnectSend, IInv, TypeOK
<1>2. /\ c \in Conn /\ RunOK(c, closing) /\ Len(c.logicSendC) <= QueueCap /\ Len(c.netRecvC) <= QueueCap
      /\ conns \in [Attempts -> Conn] /\ c.parentExit
  BY <1>1 DEF IInv, TypeOK, CallFlagged
<1>3. CASE /\ Len(c.logicSendC) < QueueCap
           /\ Update(a, [c EXCEPT !.logicSendC = Append(@, "DISCONNECT")])
           /\ call' = [call EXCEPT !.pc = "select"] /\ UNCHANGED panicked
  <2> DEFINE q == Append(c.logicSendC, "DISCONNECT")
  <2> DEFINE d == [c EXCEPT !.logicSendC = q]
  <2>1. Update(a, d) /\ UNCHANGED closing
    BY <1>3 DEF DisconnectSend
  <2>2. call' \in Calls /\ call'.conn = a /\ call'.pc = "select"
    BY <1>1, <1>3 DEF Calls, CallPCs
  <2>3. ClientType' /\ CallFlagged'
    BY <1>1, <1>3, <2>2, ClientTypeNow DEF DisconnectSend, ClientType, CallFlagged, Calls
  <2>4. q \in Seq({"PINGREQ", "PUBACK", "DISCONNECT"}) /\ Len(q) <= QueueCap
    BY <1>2, <1>3, AppendQueue, BoundsAssumption DEF Conn
  <2> HIDE DEF q
  <2>5. d \in Conn
    BY <1>2, <2>4 DEF Conn
  <2>6. /\ d.pc = c.pc /\ d.sock = c.sock /\ SameStop(c, d) /\ SameRecv(c, d)
        /\ d.send = c.send /\ d.logicSendC = q /\ d.discSent = c.discSent
    BY <1>2 DEF Conn, SameStop, SameRecv
  <2> HIDE DEF d
  <2>7. Good(a, d)
    BY <1>2, <2>4, <2>5, <2>6 DEF Good, RunOK, Follows, Past, Serving, SameStop, SameRecv
  <2> QED BY <1>1, <2>1, <2>3, <2>7, OneRunAndCall
<1>4. CASE panicked' = TRUE /\ call' = [call EXCEPT !.pc = "panic"] /\ UNCHANGED conns
  <2>1. call' \in Calls /\ call'.pc = "panic"
    BY <1>1, <1>4 DEF Calls, CallPCs
  <2> QED BY <1>1, <1>4, <2>1, CallStep DEF DisconnectSend
<1>5. CASE call' = [call EXCEPT !.pc = "select"] /\ UNCHANGED <<conns, panicked>>
  <2>1. call' \in Calls /\ call'.pc = "select" /\ call'.conn = a
    BY <1>1, <1>5 DEF Calls, CallPCs
  <2> QED BY <1>1, <1>5, <2>1, CallStep DEF DisconnectSend
<1> QED BY <1>3, <1>4, <1>5 DEF DisconnectSend

\* Disconnect waits and returns; Destroy cancels the client's context.
LEMMA CallKeeps ==
    ASSUME IInv, DisconnectSelect \/ DisconnectWait \/ DestroyCancel \/ DestroyForce
    PROVE  IInv'
<1>1. /\ call \in Calls /\ closing \in BOOLEAN /\ panicked \in BOOLEAN /\ data \in Nat
      /\ call.pc \in {"flag", "send", "select", "wait"} => call.conn \in Attempts
      /\ conns \in [Attempts -> Conn]
  BY ClientTypeNow, BoundsAssumption DEF ClientType, IInv, TypeOK
<1>2. CASE DisconnectSelect
  <2>1. conns[call.conn].stopSet \in BOOLEAN
    BY <1>1, <1>2 DEF DisconnectSelect, Conn
  <2>2. call' \in Calls /\ call'.pc = "wait" /\ call'.conn = call.conn /\ call.conn \in Attempts
    BY <1>1, <1>2, <2>1 DEF DisconnectSelect, Calls, CallPCs
  <2> QED BY <1>1, <1>2, <2>2, CallStep DEF DisconnectSelect
<1>3. CASE DisconnectWait
  <2>1. call' \in Calls /\ call'.pc \in {"cancel", "returned"}
    BY <1>1, <1>3 DEF DisconnectWait, CallReturns, Calls, CallPCs
  <2> QED BY <1>1, <1>3, <2>1, CallStep DEF DisconnectWait
<1>4. CASE DestroyCancel
  <2>1. call' \in Calls /\ call'.pc = "destroyed"
    BY <1>1, <1>4 DEF DestroyCancel, Destroyed, Calls, CallPCs
  <2> QED BY <1>1, <1>4, <2>1, CallStep DEF DestroyCancel
<1>5. CASE DestroyForce
  <2>1. call.count + 1 \in 0 .. MaxCalls
    BY <1>1, <1>5, BoundsAssumption DEF DestroyForce, Calls
  <2>2. CASE call.pc \in {"idle", "returned"}
    <3>1. call' \in Calls /\ call'.pc = "destroyed"
      BY <1>5, <2>1, <2>2 DEF DestroyForce, Destroyed, Calls, CallPCs
    <3> QED BY <1>1, <1>5, <3>1, CallStep DEF DestroyForce
  <2>3. CASE call.pc \notin {"idle", "returned"}
    <3>1. call' \in Calls /\ call'.pc = call.pc /\ call'.conn = call.conn
      BY <1>1, <1>5, <2>1, <2>3 DEF DestroyForce, Calls
    <3> QED BY <1>1, <1>5, <3>1, CallStep DEF DestroyForce
  <2> QED BY <2>2, <2>3
<1> QED BY <1>2, <1>3, <1>4, <1>5

-----------------------------------------------------------------------------
(* The invariant *)

LEMMA InitIInv ==
    ASSUME Init
    PROVE  IInv
<1> DEFINE c == NewConn(FirstVersion)
<1>1. \A a \in Attempts : conns[a] = c
  BY DEF Init
<1>2. c \in Conn
  BY BoundsAssumption DEF NewConn, Conn, PCs
<1>3. /\ c.pc = "none" /\ c.recv = "none" /\ c.send = "none" /\ ~c.discSent
      /\ c.logicSendC = <<>> /\ c.netRecvC = <<>>
  BY DEF NewConn
<1>4. conns \in [Attempts -> Conn]
  BY <1>2 DEF Init
<1> HIDE DEF c
<1>5. TypeOK
  <2>1. call \in Calls /\ call.pc = "idle"
    BY BoundsAssumption DEF Init, Calls, CallPCs
  <2>2. \A a \in Attempts : Len(conns[a].logicSendC) <= QueueCap /\ Len(conns[a].netRecvC) <= QueueCap
    BY <1>1, <1>3, BoundsAssumption
  <2>3. msgCh \in 0 .. MsgCap /\ recvCh \in 0 .. RecvCap /\ data \in 0 .. MaxData
    BY BoundsAssumption DEF Init, RecvCap
  <2> QED BY <1>4, <2>1, <2>2, <2>3 DEF TypeOK, Init, Calls
<1>6. \A a \in Attempts : RunOK(conns[a], closing)
  BY <1>1, <1>3 DEF RunOK, HasDisconnect, Serving, Past
<1>7. Chain /\ PastIsRetried /\ DisconnectIsFinal
  BY <1>1, <1>3 DEF Chain, PastIsRetried, DisconnectIsFinal, Past
<1>8. CallFlagged
  BY DEF Init, CallFlagged
<1> QED BY <1>5, <1>6, <1>7, <1>8 DEF IInv

LEMMA NextIInv ==
    ASSUME IInv, [Next]_vars
    PROVE  IInv'
<1>1. CASE UNCHANGED vars
  <2>1. UNCHANGED conns /\ closing' = closing /\ call' = call /\ ClientType'
    BY <1>1, ClientTypeNow DEF vars, ClientType
  <2> QED BY <2>1, ClientStep
<1>2. CASE ConnectServer
  BY <1>2, ConnectServerKeeps
<1>3. ASSUME NEW a \in Attempts,
             \/ Connect(a) \/ Reconnect(a) \/ HandleNetRecv(a) \/ HandleSend(a) \/ SendError(a)
             \/ Keepalive(a) \/ ServerData(a) \/ ServerClose(a)
             \/ \E answer \in Answers : ServerAnswer(a, answer)
      PROVE  IInv'
  <2>1. CASE Connect(a) \/ Reconnect(a)
    <3>1. a < MaxAttempts \/ a = MaxAttempts
      BY BoundsAssumption DEF Attempts
    <3> QED
      BY <2>1, <3>1, ConnectKeeps, AcceptKeeps, LogicKeeps, ReturnKeeps, RetryKeeps, LastRunKeeps DEF Connect
  <2>2. CASE HandleNetRecv(a)
    BY <2>2, HandleNetRecvKeeps
  <2>3. CASE HandleSend(a) \/ SendError(a)
    BY <2>3, HandleSendKeeps
  <2>4. CASE Keepalive(a)
    BY <2>4, KeepaliveKeeps
  <2>5. CASE ServerData(a) \/ ServerClose(a)
    <3>1. "CONNACK" \in Answers
      BY DEF Answers
    <3> QED BY <2>5, <3>1, ServerKeeps
  <2>6. CASE \E answer \in Answers : ServerAnswer(a, answer)
    BY <2>6, ServerKeeps
  <2> QED BY <1>3, <2>1, <2>2, <2>3, <2>4, <2>5, <2>6
<1>4. CASE Handlers
  BY <1>4, HandlersKeep
<1>5. CASE \E destroy \in BOOLEAN : DisconnectLoad(destroy)
  BY <1>5, LoadKeeps
<1>6. CASE Disconnect
  BY <1>6, FlagKeeps, SendKeeps, CallKeeps DEF Disconnect
<1>7. CASE DestroyCancel \/ DestroyForce
  BY <1>7, CallKeeps
<1> QED BY <1>1, <1>2, <1>3, <1>4, <1>5, <1>6, <1>7 DEF Next

\* Everything the runs of connect() and the client's calls can reach satisfies
\* the invariant.
THEOREM Invariance == Spec => []IInv
<1>1. Init => IInv
  BY InitIInv
<1>2. IInv /\ [Next]_vars => IInv'
  BY NextIInv
<1> QED BY <1>1, <1>2, PTL DEF Spec

\* The variables keep their types; logicSendC, netRecvC, msgCh and recvCh never
\* hold more than their capacity; Disconnect works on a connection that exists.
THEOREM TypeCorrect == Spec => []TypeOK
<1>1. IInv => TypeOK
  BY DEF IInv
<1> QED BY <1>1, Invariance, PTL

\* No connection follows one that was ended with a DISCONNECT
\* (connect(), client_conn_options.go:213-215).
THEOREM NoneAfterDisconnect == Spec => []DisconnectIsFinal
<1>1. IInv => DisconnectIsFinal
  BY DEF IInv
<1> QED BY <1>1, Invariance, PTL

\* At most one connection to the server is served by logic().
THEOREM ServedOneByOne == Spec => []OneInUse
<1>1. ASSUME IInv
      PROVE  OneInUse
  <2> SUFFICES ASSUME NEW a \in Attempts, NEW b \in Attempts, InUse(a), InUse(b), a # b
               PROVE  FALSE
    BY DEF OneInUse
  <2>1. /\ conns[a].pc \notin Past /\ conns[a].pc # "none"
        /\ conns[b].pc \notin Past /\ conns[b].pc # "none"
    BY DEF InUse, Past
  <2>2. a < b \/ b < a
    BY AttemptsType
  <2> QED BY <1>1, <2>1, <2>2 DEF IInv, Chain
<1> QED BY <1>1, Invariance, PTL

\* When connect() has started another run, the handleSend() of an earlier
\* connection has returned or been told to.
THEOREM SendersStop == Spec => []OldSenderStopped
<1>1. ASSUME IInv
      PROVE  OldSenderStopped
  <2> SUFFICES ASSUME NEW a \in Attempts, NEW b \in Attempts,
                      a < b, conns[b].pc # "none", conns[a].send = "run"
               PROVE  Stopped(a)
    BY DEF OldSenderStopped
  <2>1. conns[a].pc \in Past
    BY <1>1 DEF IInv, Chain
  <2>2. RunOK(conns[a], closing)
    BY <1>1 DEF IInv
  <2> QED BY <2>1, <2>2 DEF RunOK, Stopped, Past, Serving
<1> QED BY <1>1, Invariance, PTL

\* With automatic reconnection a run of connect() that has returned has a
\* successor, unless the client is closing or the connection was to end.
THEOREM FailureIsRetried == Spec => []EndedIsRetried
<1>1. ASSUME IInv
      PROVE  EndedIsRetried
  BY <1>1 DEF IInv, PastIsRetried, EndedIsRetried, Past
<1> QED BY <1>1, Invariance, PTL
=============================================================================
