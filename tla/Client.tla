------------------------------- MODULE Client -------------------------------
(***************************************************************************)
(* The configuration of a client and what its connections make of it:      *)
(* NewClient and Connect (client_async.go), ConnectServer, the CONNECT     *)
(* packet, the version fall-back and the back-off of connect()             *)
(* (client_conn_options.go).  Connection has the goroutines of a           *)
(* connection, Disconnect and Destroy; here a client has several servers,  *)
(* and a connection is dialled, refused, accepted and lost.                *)
(*                                                                         *)
(* Calls of ConnectServer for different servers run concurrently, with     *)
(* each other and with the connections: every option is a step.            *)
(***************************************************************************)
EXTENDS Options

CONSTANTS
    Servers,
    Names,        \* client identifiers and handlers; "" and "nil" for none
    Given,        \* the packets of the WithConnPacket options, by address
    Setups,       \* the options given to NewClient and to ConnectServer:
                  \* records [new |-> options, server |-> [Servers -> options]]
    MaxRetries    \* bound: reconnections to a server

Addresses == 0 .. Len(Given)

Packet == [ClientID : Names, Keepalive : Nat, Props : BOOLEAN]

Option ==
    [set : {"backoff"}, first : Nat, max : Nat, factor : Nat]
    \cup [set : {"keepalive"}, seconds : Nat]
    \cup [set : {"clientID"}, id : Names]
    \cup [set : {"connPacket"}, at : 1 .. Len(Given)]
    \cup [set : {"version"}, version : Nat, compromise : BOOLEAN]
    \cup [set : {"autoReconnect"}, on : BOOLEAN]
    \cup [set : {"server"}, server : Servers]
    \cup [set : {"pubHandler"}, handler : Names]
    \cup [set : {"bufSize"}]

ASSUME NamesAssumption == "" \in Names /\ "nil" \in Names

ASSUME SetupsAssumption ==
    /\ MaxRetries \in Nat
    /\ Given \in Seq(Packet)
    /\ Setups \subseteq [new : Seq(Option), server : [Servers -> Seq(Option)]]

VARIABLES
    setup,    \* the member of Setups of this behaviour
    heap,     \* the CONNECT packets that options point to
    client,   \* the fields of AsyncClient
    new,      \* NewClient: its state and the options it has applied
    conn      \* the last call for a server and the run of connect() it led to

vars == <<setup, heap, client, new, conn>>

NoConn ==
    [pc      |-> "none",
     applied |-> 0,                      \* options applied by ConnectServer
     options |-> defaultConnectOptions,  \* the receiver of connect()
     version |-> 0, delay |-> 0,         \* its parameters
     retries |-> 0,                      \* history: how often the delay has passed,
     fellBack |-> FALSE,                 \* and that the version was lowered
     hello   |-> [ClientID |-> "", Keepalive |-> 0, ProtoVersion |-> 0]]

Init ==
    /\ setup \in Setups
    /\ heap = [a \in 0 .. Len(Given) |-> IF a = 0 THEN BlankPacket ELSE Given[a]]
    /\ client = [own |-> defaultClient, options |-> defaultConnectOptions]
    /\ new = [pc |-> "apply", applied |-> 0, reads |-> 0]
    /\ conn = [s \in Servers |-> NoConn]

Become(s, c) == conn' = [conn EXCEPT ![s] = c]

-----------------------------------------------------------------------------
(* NewClient, ConnectServer, Connect *)

\* One option of NewClient works on the client's own connectOptions.
NewClientOption ==
    /\ new.pc = "apply" /\ new.applied < Len(setup.new)
    /\ LET t == apply(setup.new[new.applied + 1], Target(client.own, client.options, heap)) IN
       /\ client' = [own |-> t.client, options |-> t.options]
       /\ heap' = t.heap
       /\ new' = [new EXCEPT !.applied = @ + 1, !.pc = IF t.failed THEN "failed" ELSE @]
    /\ UNCHANGED <<setup, conn>>

\* handleTopicMsg starts and waits on the channel that recvCh is now.
NewClientDone ==
    /\ new.pc = "apply" /\ new.applied = Len(setup.new)
    /\ new' = [new EXCEPT !.pc = "done", !.reads = client.own.recvCh]
    /\ UNCHANGED <<setup, heap, client, conn>>

\* connectOptions.clone: the packet is shared.
clone(options) == options

\* One call for a server, and none for the servers of WithServer
ConnectServer(s) ==
    /\ new.pc = "done" /\ conn[s].pc = "none" /\ s \notin client.own.servers
    /\ Become(s, [NoConn EXCEPT !.pc = "apply", !.options = clone(client.options)])
    /\ UNCHANGED <<setup, heap, client, new>>

\* setOption(c, &options): what it does to the client and to the shared packet
\* stays if a later option fails.
ConnectServerOption(s) ==
    /\ conn[s].pc = "apply" /\ conn[s].applied < Len(setup.server[s])
    /\ LET t == apply(setup.server[s][conn[s].applied + 1], Target(client.own, conn[s].options, heap)) IN
       /\ client' = [client EXCEPT !.own = t.client]
       /\ heap' = t.heap
       /\ Become(s, [conn[s] EXCEPT !.options = t.options, !.applied = @ + 1,
                                    !.pc = IF t.failed THEN "failed" ELSE @])
    /\ UNCHANGED <<setup, new>>

\* options.connect(c, server, options.protoVersion, options.firstDelay)
StartConnect(c) ==
    [c EXCEPT !.pc = "dial", !.version = c.options.protoVersion, !.delay = c.options.firstDelay]

ConnectServerDone(s) ==
    /\ conn[s].pc = "apply" /\ conn[s].applied = Len(setup.server[s])
    /\ Become(s, StartConnect(conn[s]))
    /\ UNCHANGED <<setup, heap, client, new>>

\* Connect: the servers of WithServer, with the client's options
Connect ==
    /\ new.pc = "done" /\ client.own.servers # {}
    /\ \A s \in client.own.servers : conn[s].pc = "none"
    /\ conn' = [s \in Servers |->
                  IF s \in client.own.servers
                  THEN StartConnect([NoConn EXCEPT !.options = clone(client.options)])
                  ELSE conn[s]]
    /\ UNCHANGED <<setup, heap, client, new>>

-----------------------------------------------------------------------------
(* connect() *)

\* if c.autoReconnect && !parent.isClosing() { goto reconnect }; return
RetryOrReturn(c) == [c EXCEPT !.pc = IF c.options.autoReconnect THEN "reconnect" ELSE "returned"]

connVars == <<setup, heap, client, new>>

Dial(s) ==
    /\ conn[s].pc = "dial"
    /\ \/ Become(s, [conn[s] EXCEPT !.pc = "hello"])
       \/ Become(s, RetryOrReturn(conn[s]))
    /\ UNCHANGED connVars

\* ConnPacket.clone, which ends the process if the packet has properties:
\* ConnProps.clone unlocks a mutex that nobody has locked.
CanClone(pkt) == ~pkt.Props

\* connPkt := c.connPacket.clone(), sendRaw(connPkt)
SendConnect(s) ==
    /\ conn[s].pc = "hello"
    /\ LET pkt == heap[conn[s].options.connPacket] IN
       /\ CanClone(pkt)
       /\ \/ Become(s, [conn[s] EXCEPT !.pc = "wait",
                                       !.hello = [ClientID     |-> pkt.ClientID,
                                                  Keepalive    |-> pkt.Keepalive,
                                                  ProtoVersion |-> conn[s].version]])
          \/ Become(s, RetryOrReturn(conn[s]))
    /\ UNCHANGED connVars

\* The fatal error takes every goroutine with it.
SendConnectCrash(s) ==
    /\ conn[s].pc = "hello"
    /\ ~CanClone(heap[conn[s].options.connPacket])
    /\ conn' = [x \in Servers |-> NoConn]
    /\ new' = [new EXCEPT !.pc = "crashed"]
    /\ UNCHANGED <<setup, heap, client>>

\* CONNACK with CodeSuccess: logic() starts keepalive()
Accepted(s) ==
    /\ conn[s].pc = "wait"
    /\ Become(s, [conn[s] EXCEPT !.pc = "up"])
    /\ UNCHANGED connVars

\* Mutant: the fall-back without an end
CanFallBackAgain(c) == c.options.protoCompromise

\* version > V311 && c.protoCompromise
CanFallBack(c) == c.version > V311 /\ c.options.protoCompromise

\* CONNACK with CodeUnsupportedProtoVersion: the next run of connect() starts
\* at once with the version below and the same delay.
Unsupported(s) ==
    /\ conn[s].pc = "wait"
    /\ IF CanFallBack(conn[s])
       THEN Become(s, [conn[s] EXCEPT !.pc = "dial", !.version = @ - 1, !.fellBack = TRUE])
       ELSE Become(s, RetryOrReturn(conn[s]))
    /\ UNCHANGED connVars

\* Any other CONNACK, another packet, a connection that ended
Refused(s) ==
    /\ conn[s].pc = "wait"
    /\ Become(s, RetryOrReturn(conn[s]))
    /\ UNCHANGED connVars

\* The end of logic() leads to the delay, whatever autoReconnect says.
LogicEnds(s) ==
    /\ conn[s].pc = "up"
    /\ Become(s, [conn[s] EXCEPT !.pc = "reconnect"])
    /\ UNCHANGED connVars

\* Mutant: the limit is applied to the delay before it grows.
NextDelayLate(c) ==
    IF c.delay > c.options.maxDelay THEN c.options.maxDelay
    ELSE (c.delay * c.options.backOffFactor) \div One

NextDelay(c) ==
    LET grown == (c.delay * c.options.backOffFactor) \div One IN
    IF grown > c.options.maxDelay THEN c.options.maxDelay ELSE grown

\* Mutant: the next run of connect() starts with the version of the options.
ReconnectAnew(s) ==
    /\ conn[s].pc = "reconnect" /\ conn[s].retries < MaxRetries
    /\ Become(s, [conn[s] EXCEPT !.pc = "dial", !.version = conn[s].options.protoVersion,
                                 !.delay = NextDelay(conn[s]), !.retries = @ + 1])
    /\ UNCHANGED connVars

\* The timer fires: the next run of connect(), with the version of this one
Reconnect(s) ==
    /\ conn[s].pc = "reconnect" /\ conn[s].retries < MaxRetries
    /\ Become(s, [conn[s] EXCEPT !.pc = "dial", !.delay = NextDelay(conn[s]), !.retries = @ + 1])
    /\ UNCHANGED connVars

-----------------------------------------------------------------------------

Next ==
    \/ NewClientOption \/ NewClientDone \/ Connect
    \/ \E s \in Servers :
          \/ ConnectServer(s) \/ ConnectServerOption(s) \/ ConnectServerDone(s)
          \/ Dial(s) \/ SendConnect(s) \/ SendConnectCrash(s)
          \/ Accepted(s) \/ Unsupported(s) \/ Refused(s) \/ LogicEnds(s) \/ Reconnect(s)

Spec == Init /\ [][Next]_vars

-----------------------------------------------------------------------------
(* Properties *)

PCs == {"none", "apply", "failed", "dial", "hello", "wait", "up", "reconnect", "returned"}

ConnectOptions ==
    [protoVersion : {V311, V5}, protoCompromise : BOOLEAN,
     firstDelay : Nat, maxDelay : Nat, backOffFactor : Nat, autoReconnect : BOOLEAN,
     keepalive : Nat, connPacket : Addresses]

Conn ==
    [pc : PCs, applied : Nat, options : ConnectOptions, version : {0, V311, V5}, delay : Nat,
     retries : 0 .. MaxRetries, fellBack : BOOLEAN,
     hello : [ClientID : Names, Keepalive : Nat, ProtoVersion : {0, V311, V5}]]

ClientFields == [servers : SUBSET Servers, pubHandler : Names, recvCh : Nat]

\* Every pointer of connectOptions is to a packet, and a connection speaks a
\* version that exists.
TypeOK ==
    /\ setup \in Setups
    /\ heap \in [Addresses -> Packet]
    /\ client \in [own : ClientFields, options : ConnectOptions]
    /\ new \in [pc : {"apply", "done", "failed", "crashed"}, applied : Nat, reads : Nat]
    /\ conn \in [Servers -> Conn]

Connecting(s) == conn[s].pc \in {"dial", "hello", "wait", "up", "reconnect", "returned"}

\* The delay is between the two of the strategy.
DelayInBounds ==
    \A s \in Servers :
        Connecting(s) => /\ conn[s].options.firstDelay <= conn[s].delay
                         /\ conn[s].delay <= conn[s].options.maxDelay

\* b multiplied by itself n times
Power(b, n) == LET power[i \in 0 .. n] == IF i = 0 THEN 1 ELSE b * power[i - 1] IN power[n]

\* The delays of WithBackoffStrategy ("FirstDelay = 1s and Factor = 2 then the
\* SecondDelay is 2s, the ThirdDelay is 4s"): after n retries, falls back to an
\* older version between them or not, the delay is first * factor^n or the
\* upper bound, never below the first delay; a factor with a fraction rounds
\* down.
BackoffIsGeometric ==
    /\ DelayInBounds
    /\ \A s \in Servers :
          LET c == conn[s]
              o == c.options
              exact == (o.firstDelay * Power(o.backOffFactor, c.retries)) \div Power(One, c.retries)
          IN Connecting(s) =>
                /\ c.delay <= exact
                /\ o.backOffFactor % One = 0 => c.delay = (IF exact > o.maxDelay THEN o.maxDelay ELSE exact)

OptionsOf(s) == {setup.server[s][i] : i \in DOMAIN setup.server[s]}

GivesPacket(o, at) == o.set = "connPacket" /\ o.at = at

\* The packet at this address was given in the call for s and nowhere else,
\* and s was given no other.
IsOwnPacket(s, at) ==
    /\ \E o \in OptionsOf(s) : GivesPacket(o, at)
    /\ \A o \in OptionsOf(s) : o.set = "connPacket" => o.at = at
    /\ \A other \in Servers \ {s} : \A o \in OptionsOf(other) : ~GivesPacket(o, at)
    /\ \A i \in DOMAIN setup.new : ~GivesPacket(setup.new[i], at)

OwnIDs(s, at) == {Given[at].ClientID} \cup {o.id : o \in {p \in OptionsOf(s) : p.set = "clientID"}}

\* The packet of WithConnPacket is the server's own, and ConnectServer with it
\* isolates the connection from the options of other calls: the CONNECT of a
\* server whose call was given a packet of its own has the client identifier of
\* that packet or of its own options, however the calls and connections
\* interleave.  (Connect() applies no options: conn[s].applied stays 0.)
OwnPacketIsolated ==
    \A s \in Servers, at \in 1 .. Len(Given) :
        IsOwnPacket(s, at) /\ conn[s].applied > 0 /\ conn[s].pc \in {"wait", "up"}
        => conn[s].hello.ClientID \in OwnIDs(s, at)

\* No call of ConnectServer sets a keepalive, itself or with its packet.
KeepaliveIsClients ==
    \A s \in Servers : \A o \in OptionsOf(s) :
        /\ o.set # "keepalive"
        /\ o.set = "connPacket" => heap[o.at].Keepalive = 0

\* keepalive() sends PINGREQ by the client's options and the server waits by
\* the keepalive of the CONNECT it was sent: as long as only NewClient is given
\* a keepalive, the client's interval is not the longer one, whichever packet
\* is sent.
KeepaliveInTime ==
    KeepaliveIsClients =>
        \A s \in Servers : conn[s].pc = "up" =>
            conn[s].hello.Keepalive = 0 \/ client.options.keepalive <= conn[s].hello.Keepalive

\* A connection speaks the version that was asked for, or, if WithVersion
\* allowed a compromise, the one below.
CompromiseWhenAllowed ==
    \A s \in Servers :
        Connecting(s) =>
            \/ conn[s].version = conn[s].options.protoVersion
            \/ conn[s].options.protoCompromise /\ conn[s].version = V311

\* After a fall-back every CONNECT announces the lower version: it survives
\* connections that are refused, accepted and lost and the reconnections that
\* follow, although the options of connect(), which it is called on again,
\* still ask for the higher one (client_conn_options.go:172, 231).
FallBackIsKept ==
    \A s \in Servers :
        conn[s].fellBack /\ conn[s].pc \in {"wait", "up"} => conn[s].hello.ProtoVersion = V311

\* A version is lowered only if that was allowed, and a lowered one is what
\* every later CONNECT announces.
VersionAsAgreed == CompromiseWhenAllowed /\ FallBackIsKept

-----------------------------------------------------------------------------
(* Not true of the code; see README.md. *)

\* "ConnectServer connect to server with connection specific options"
\* (client_conn_options.go:28): with one WithClientID, that is the identifier sent.
HelloIsOwn ==
    \A s \in Servers : \A o \in OptionsOf(s) :
        /\ conn[s].pc = "up" /\ o.set = "clientID"
        /\ \A p \in OptionsOf(s) : p.set \in {"clientID", "connPacket"} => p = o
        => conn[s].hello.ClientID = o.id

\* The same of WithKeepalive: PINGREQ is sent in time for the server.
OwnKeepaliveInTime ==
    \A s \in Servers :
        conn[s].pc = "up" => conn[s].hello.Keepalive = 0 \/ client.options.keepalive <= conn[s].hello.Keepalive

\* "firstDelay is the time to wait before retrying after the first failure"
\* (client_options.go:201): also the first one after a connection that worked.
FirstDelayAfterSuccess ==
    [][\A s \in Servers : conn[s].pc = "up" /\ conn'[s].pc = "reconnect"
                          => conn'[s].delay = conn'[s].options.firstDelay]_vars

\* "global option can not be applied to ConnectServer" (client_options.go:44):
\* the channel that the client's goroutine waits on stays the client's.
ChannelIsRead == new.pc = "done" => client.own.recvCh = new.reads

\* "ConnectServer ... only return errors happened when applying options"
\* (client_conn_options.go:29): a packet with properties is sent like any other.
CloneSucceeds == new.pc # "crashed"
=============================================================================
