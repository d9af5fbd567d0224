------------------------------- MODULE Broker -------------------------------
(***************************************************************************)
(* The MQTT server at the other end of one connection, and the two byte    *)
(* streams between it and the client.  It is not part of the repository:   *)
(* this is the well-behaved server that the handlers of client_conn.go are *)
(* written against.  It answers every packet, keeps the session of a       *)
(* client that reconnects (ConnPacket's CleanSession is false unless set)  *)
(* and then repeats what the client has not acknowledged.                  *)
(***************************************************************************)
EXTENDS Naturals, Sequences, FiniteSets

CONSTANTS
    Pub0, Pub1, Pub2,   \* PUBLISH packets the client sends, by QoS level
    Subs, Unsubs,       \* SUBSCRIBE and UNSUBSCRIBE packets it sends
    In0, In1, In2,      \* messages the server delivers to it, by QoS level
    None,               \* no packet
    NumIDs              \* packet identifiers 1 .. NumIDs, of either direction

Reqs       == Pub0 \cup Pub1 \cup Pub2 \cup Subs \cup Unsubs
Deliveries == In0 \cup In1 \cup In2
IDs        == 1 .. NumIDs

ASSUME PacketsAssumption ==
    /\ NumIDs \in Nat
    /\ None \notin Reqs \cup Deliveries
    /\ Reqs \cap Deliveries = {}
    /\ Pub0 \cap (Pub1 \cup Pub2 \cup Subs \cup Unsubs) = {}
    /\ Pub1 \cap (Pub2 \cup Subs \cup Unsubs) = {}
    /\ Pub2 \cap (Subs \cup Unsubs) = {} /\ Subs \cap Unsubs = {}
    /\ In0 \cap (In1 \cup In2) = {} /\ In1 \cap In2 = {}

VARIABLES
    toServer,  \* packets written to the socket and not yet read by the server
    toClient,  \* packets the server sent and logic() has not yet taken: the
               \* socket and the channel netRecvC, two queues in a row
    got,       \* got[r]: how often the server took request r
    bRecv,     \* identifiers of QoS 2 publishes received and not yet released
    bpc,       \* bpc[d]: "unused", "new", "sent", "rel" (released) or "done"
    bid,       \* bid[d]: the identifier the server sent d with
    bResend    \* deliveries to be repeated on the new connection

brokerVars == <<got, bRecv, bpc, bid, bResend>>

Pkt(type, i, obj) == [type |-> type, id |-> i, obj |-> obj]

Types   == {"PUBLISH", "SUBSCRIBE", "UNSUBSCRIBE", "SUBACK", "UNSUBACK",
            "PUBACK", "PUBREC", "PUBREL", "PUBCOMP"}
Packets == [type : Types, id : IDs \cup {0}, obj : Reqs \cup Deliveries \cup {None}]

\* The server will deliver the messages of sc.
BrokerInit(sc) ==
    /\ toServer = <<>> /\ toClient = <<>>
    /\ got     = [r \in Reqs |-> 0]
    /\ bRecv   = {}
    /\ bpc     = [d \in Deliveries |-> IF d \in sc THEN "new" ELSE "unused"]
    /\ bid     = [d \in Deliveries |-> 0]
    /\ bResend = {}

\* The answer to a packet of the client, <<>> when there is none.
Answer(p) ==
    CASE p.type = "SUBSCRIBE"                  -> <<Pkt("SUBACK", p.id, None)>>
      [] p.type = "UNSUBSCRIBE"                -> <<Pkt("UNSUBACK", p.id, None)>>
      [] p.type = "PUBLISH" /\ p.obj \in Pub1  -> <<Pkt("PUBACK", p.id, None)>>
      [] p.type = "PUBLISH" /\ p.obj \in Pub2  -> <<Pkt("PUBREC", p.id, None)>>
      [] p.type = "PUBREC"                     -> <<Pkt("PUBREL", p.id, None)>>
      [] p.type = "PUBREL"                     -> <<Pkt("PUBCOMP", p.id, None)>>
      [] OTHER                                 -> <<>>

\* A QoS 2 publish is new unless its identifier is still held.
IsNew(p) == p.obj \in Reqs /\ ~(p.obj \in Pub2 /\ p.id \in bRecv)

\* The deliveries an acknowledgement is about, and where it takes them.
Acked(p) ==
    {d \in Deliveries : /\ bid[d] = p.id
                        /\ \/ p.type = "PUBACK"  /\ d \in In1 /\ bpc[d] = "sent"
                           \/ p.type = "PUBREC"  /\ d \in In2 /\ bpc[d] = "sent"
                           \/ p.type = "PUBCOMP" /\ d \in In2 /\ bpc[d] = "rel"}

\* The server takes the next packet of the stream and answers it.
BrokerRecv ==
    /\ toServer # <<>>
    /\ LET p == Head(toServer) IN
       /\ got' = IF IsNew(p) THEN [got EXCEPT ![p.obj] = @ + 1] ELSE got
       /\ bRecv' = IF p.obj \in Pub2 THEN bRecv \cup {p.id}
                   ELSE IF p.type = "PUBREL" THEN bRecv \ {p.id} ELSE bRecv
       /\ bpc' = [d \in Deliveries |->
                    IF d \notin Acked(p) THEN bpc[d]
                    ELSE IF p.type = "PUBREC" THEN "rel" ELSE "done"]
       /\ toClient' = toClient \o Answer(p)
    /\ toServer' = Tail(toServer)
    /\ UNCHANGED <<bid, bResend>>

\* The server delivers a message, under an identifier it does not use now.
BrokerPublish(d, i) ==
    /\ bpc[d] = "new"
    /\ IF d \in In0 THEN i = 0
       ELSE i \in IDs /\ \A e \in Deliveries : bpc[e] \in {"sent", "rel"} => bid[e] # i
    /\ bpc' = [bpc EXCEPT ![d] = IF d \in In0 THEN "done" ELSE "sent"]
    /\ bid' = [bid EXCEPT ![d] = i]
    /\ toClient' = Append(toClient, Pkt("PUBLISH", i, d))
    /\ UNCHANGED <<toServer, got, bRecv, bResend>>

\* The connection is new, the session is not: what was sent and is not
\* acknowledged will be sent again.
BrokerNewConnection ==
    /\ bResend' = {d \in Deliveries : bpc[d] \in {"sent", "rel"}}
    /\ UNCHANGED <<got, bRecv, bpc, bid>>

BrokerResend(d) ==
    /\ d \in bResend
    /\ bResend' = bResend \ {d}
    /\ toClient' = Append(toClient, IF bpc[d] = "sent" THEN Pkt("PUBLISH", bid[d], d)
                                                       ELSE Pkt("PUBREL", bid[d], None))
    /\ UNCHANGED <<toServer, got, bRecv, bpc, bid>>

\* How the stream breaks: nothing more reaches the server, and logic() sees
\* no more than the packets the receiving goroutine had already read.
StreamBroken ==
    /\ toServer' = <<>>
    /\ \E k \in 0 .. Len(toClient) : toClient' = SubSeq(toClient, 1, k)
=============================================================================
