------------------------------ MODULE Options -------------------------------
(***************************************************************************)
(* The options of a client (client_options.go) and the connectOptions they *)
(* set (client_conn_options.go).  An option is a function of the client    *)
(* and of connectOptions; here it is a record that `apply' interprets.     *)
(*                                                                         *)
(* connectOptions holds its CONNECT packet by pointer, and a copy of the   *)
(* options shares it: connPacket is an address in a heap of packets.       *)
(* ClientID stands for every field of the packet that options set and      *)
(* connect() only sends (CleanSession, Username, Password, the will); Props *)
(* says whether it has properties.                                         *)
(* Delays are in milliseconds, keepalive in seconds, factors in halves.    *)
(***************************************************************************)
EXTENDS Naturals, Sequences

V311 == 4
V5   == 5

Millisecond == 1

\* float64 factors, counted in halves
One        == 2
OneAndHalf == 3

\* &ConnPacket{}, at address 0 of the heap
BlankPacket == [ClientID |-> "", Keepalive |-> 0, Props |-> FALSE]

defaultConnectOptions ==
    [protoVersion    |-> V311,
     protoCompromise |-> FALSE,
     firstDelay      |-> 5000,
     maxDelay        |-> 120000,
     backOffFactor   |-> OneAndHalf,
     autoReconnect   |-> FALSE,
     keepalive       |-> 120,
     connPacket      |-> 0]

\* The fields of the client that options set; channels are numbered as they are made.
defaultClient ==
    [servers |-> {}, pubHandler |-> "nil", recvCh |-> 0]

\* What an option works on: the client, connectOptions and the heap; and
\* whether it returned an error.
Target(client, options, heap) ==
    [client |-> client, options |-> options, heap |-> heap, failed |-> FALSE]

AtLeast(a, b) == IF a < b THEN b ELSE a

WithBackoffStrategy(o, t) ==
    LET first == AtLeast(o.first, Millisecond) IN
    [t EXCEPT !.options.firstDelay    = first,
              !.options.maxDelay      = AtLeast(o.max, first),
              !.options.backOffFactor = AtLeast(o.factor, One)]

WithKeepalive(o, t) ==
    IF o.seconds = 0 THEN [t EXCEPT !.failed = TRUE]
    ELSE [t EXCEPT !.heap[t.options.connPacket].Keepalive = o.seconds,
                   !.options.keepalive = o.seconds]

\* Also WithIdentity, WithCleanSession and WithWill.
WithClientID(o, t) == [t EXCEPT !.heap[t.options.connPacket].ClientID = o.id]

\* Mutant: *options.connPacket = pkt
WithConnPacketCopied(o, t) ==
    [t EXCEPT !.heap[t.options.connPacket] = t.heap[o.at],
              !.options.keepalive = IF t.heap[o.at].Keepalive > 0 THEN t.heap[o.at].Keepalive ELSE @]

\* Mutant: the interval of keepalive() is forgotten.
WithConnPacketQuiet(o, t) == [t EXCEPT !.options.connPacket = o.at]

\* The packet belongs to the Option: its address is the option's.
WithConnPacket(o, t) ==
    [t EXCEPT !.options.connPacket = o.at,
              !.options.keepalive  = IF t.heap[o.at].Keepalive > 0 THEN t.heap[o.at].Keepalive ELSE @]

WithVersion(o, t) ==
    IF o.version \in {V311, V5}
    THEN [t EXCEPT !.options.protoVersion = o.version, !.options.protoCompromise = o.compromise]
    ELSE [t EXCEPT !.failed = TRUE]

WithAutoReconnect(o, t) == [t EXCEPT !.options.autoReconnect = o.on]

WithServer(o, t) == [t EXCEPT !.client.servers = @ \cup {o.server}]

\* Like the other handlers of the client, it keeps its first value.
WithPubHandleFunc(o, t) == [t EXCEPT !.client.pubHandler = IF @ = "nil" THEN o.handler ELSE @]

\* New channels, whoever waits on the old ones; the sizes matter to Connection.
WithBufSize(o, t) == [t EXCEPT !.client.recvCh = @ + 1]

\* setOption(c, &options)
apply(o, t) ==
    CASE o.set = "backoff"       -> WithBackoffStrategy(o, t)
      [] o.set = "keepalive"     -> WithKeepalive(o, t)
      [] o.set = "clientID"      -> WithClientID(o, t)
      [] o.set = "connPacket"    -> WithConnPacket(o, t)
      [] o.set = "version"       -> WithVersion(o, t)
      [] o.set = "autoReconnect" -> WithAutoReconnect(o, t)
      [] o.set = "server"        -> WithServer(o, t)
      [] o.set = "pubHandler"    -> WithPubHandleFunc(o, t)
      [] o.set = "bufSize"       -> WithBufSize(o, t)
=============================================================================
