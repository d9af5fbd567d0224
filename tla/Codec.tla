------------------------------- MODULE Codec -------------------------------
(***************************************************************************)
(* The packets of pkt_*.go on a connection: one side writes packets with   *)
(* WriteTo, the other reads them with Decode (decoder.go), and the         *)
(* connection may be cut in the middle of a packet.  Both sides use this   *)
(* library, as README.md offers under "As MQTT infrastructure".  The       *)
(* packets are bytes; names, payloads and property values are short byte   *)
(* sequences chosen by the configuration.                                  *)
(***************************************************************************)
EXTENDS Props

CONSTANTS
    Versions,     \* the protocol versions tried, a subset of {V311, V5}
    Packets,      \* the packets that may be written
    MaxWrites     \* bound: packets written in a behaviour

V311 == 4
V5   == 5

\* The properties that the packets have
PropertySets ==
    {p.props : p \in {q \in Packets : q.type \notin {"PINGREQ", "PINGRESP"}}}
    \cup {p.willProps : p \in {q \in Packets : q.type = "CONNECT"}}

maxUint16 == 65535
Uint16    == 0..maxUint16

\* The packets as their structs allow them, with a QoS of the protocol
Packet ==
    [type : {"CONNECT"}, cleanSession : BOOLEAN, isWill : BOOLEAN, willQos : 0..2,
     willRetain : BOOLEAN, username : Seq(Byte), password : Seq(Byte), clientID : Seq(Byte),
     keepalive : Uint16, willTopic : Seq(Byte), willMessage : Seq(Byte),
     willProps : PropertySets, props : PropertySets]
    \cup [type : {"CONNACK"}, present : BOOLEAN, code : Byte, props : PropertySets]
    \cup [type : {"PUBLISH"}, isDup : BOOLEAN, qos : 0..2, isRetain : BOOLEAN,
          topicName : Seq(Byte), packetID : Uint16, payload : Seq(Byte), props : PropertySets]
    \cup [type : {"PUBACK", "PUBREC", "PUBREL", "PUBCOMP"}, packetID : Uint16, code : Byte,
          props : PropertySets]
    \cup [type : {"SUBSCRIBE"}, packetID : Uint16, topics : Seq([name : Seq(Byte), qos : Byte]),
          props : PropertySets]
    \cup [type : {"SUBACK"}, packetID : Uint16, codes : Seq(Byte), props : PropertySets]
    \cup [type : {"UNSUBSCRIBE"}, packetID : Uint16, topicNames : Seq(Seq(Byte)), props : PropertySets]
    \cup [type : {"UNSUBACK"}, packetID : Uint16, props : PropertySets]
    \cup [type : {"PINGREQ", "PINGRESP"}]
    \cup [type : {"DISCONNECT", "AUTH"}, code : Byte, props : PropertySets]

\* SubscribeProps has two fields; SubID is a variable byte integer (one that
\* does not fit in four bytes is written as nothing, and is left out here).
SubscribePropsOf(props) ==
    /\ props = [k \in DOMAIN props |-> props[k]]
    /\ DOMAIN props \subseteq SubscribeProps.written
    /\ \A k \in DOMAIN props : props[k] \in Seq(Byte)
    /\ propKeySubID \in DOMAIN props =>
          props[propKeySubID] = varIntBytes(getRemainLength(props[propKeySubID]).length)

ASSUME PacketsAssumption ==
    /\ Versions \subseteq {V311, V5}
    /\ MaxWrites \in Nat
    /\ Packets \subseteq Packet
    /\ \A p \in Packets : p.type = "SUBSCRIBE" => SubscribePropsOf(p.props)

\* What encodeBytesWithLen puts behind a length of 16 bits, and does not check
strings(p) ==
    CASE p.type = "CONNECT" -> {p.clientID, p.willTopic, p.willMessage, p.username, p.password}
      [] p.type = "PUBLISH" -> {p.topicName}
      [] p.type = "SUBSCRIBE" -> {p.topics[i].name : i \in DOMAIN p.topics}
      [] p.type = "UNSUBSCRIBE" -> {p.topicNames[i] : i \in DOMAIN p.topicNames}
      [] OTHER -> {}

ASSUME StringsAssumption == \A p \in Packets : \A s \in strings(p) : Len(s) \in Uint16

VARIABLES
    version,      \* the protocol version of the connection
    sender,       \* "writing", "failed" once WriteTo returned an error, or "panicked"
    reader,       \* "reading", or "stopped" once Decode returned an error
    open,         \* the connection has not been cut
    wire,         \* the bytes written and not yet read
    unread,       \* the packets written and not yet read
    writes,       \* packets written so far
    last          \* the last result of Decode and the packet it should be

vars == <<version, sender, reader, open, wire, unread, writes, last>>

-----------------------------------------------------------------------------
(* Encoding *)

\* A mutant of putUint16: the low byte is not cut to eight bits.
putUint16Uncut(v) == <<v \div 256, v>>

putUint16(v) == <<v \div 256, v % 256>>

boolToByte(b) == IF b THEN 1 ELSE 0

\* BasePacket.writeV5: the property length and the properties go between the
\* variable header and the payload.
writeV5(varHeader, props, payload) ==
    varHeader \o varIntBytes(Len(props)) \o props \o payload

mqtt == <<77, 81, 84, 84>>

\* A mutant of connFlags: an empty client identifier keeps its session.
connFlagsAsSet(p) ==
      2 * boolToByte(p.cleanSession)
    + (IF p.isWill THEN 4 + 8 * p.willQos + 32 * boolToByte(p.willRetain) ELSE 0)
    + 64 * boolToByte(p.password # <<>>)
    + 128 * boolToByte(p.username # <<>>)

connFlags(p) ==
      2 * boolToByte(p.cleanSession \/ p.clientID = <<>>)
    + (IF p.isWill THEN 4 + 8 * p.willQos + 32 * boolToByte(p.willRetain) ELSE 0)
    + 64 * boolToByte(p.password # <<>>)
    + 128 * boolToByte(p.username # <<>>)

unlessEmpty(s) == IF s = <<>> THEN <<>> ELSE encodeBytesWithLen(s)

connPayload(v, p) ==
    LET willProps == propsBytes(WillProps, p.willProps)
        will == (IF v = V5 THEN varIntBytes(Len(willProps)) \o willProps ELSE <<>>)
                \o encodeBytesWithLen(p.willTopic) \o encodeBytesWithLen(p.willMessage)
    IN  encodeBytesWithLen(p.clientID) \o (IF p.isWill THEN will ELSE <<>>)
        \o unlessEmpty(p.username) \o unlessEmpty(p.password)

connWriteTo(v, p) ==
    LET varHeader == encodeBytesWithLen(mqtt) \o <<v, connFlags(p)>> \o putUint16(p.keepalive)
    IN  IF v = V311 THEN varHeader \o connPayload(v, p)
        ELSE writeV5(varHeader, propsBytes(ConnProps, p.props), connPayload(v, p))

connAckWriteTo(v, p) ==
    LET varHeader == <<boolToByte(p.present), p.code>>
    IN  IF v = V311 THEN varHeader
        ELSE writeV5(varHeader, propsBytes(ConnAckProps, p.props), <<>>)

\* The code of a DISCONNECT is never written.
disconnWriteTo(v, p) ==
    IF v = V311 THEN <<>> ELSE writeV5(<<>>, propsBytes(DisconnProps, p.props), <<>>)

publishPayload(p) ==
    encodeBytesWithLen(p.topicName)
    \o (IF p.qos > 0 THEN putUint16(p.packetID) ELSE <<>>) \o p.payload

\* With V5 the properties come first: the variable header is empty.
publishWriteTo(v, p) ==
    IF v = V311 THEN publishPayload(p)
    ELSE writeV5(<<>>, propsBytes(PublishProps, p.props), publishPayload(p))

\* PUBACK, PUBREC, PUBREL and PUBCOMP have four copies of the same method; none
\* of them writes the code.
pubAckWriteTo(v, p) ==
    IF v = V311 THEN putUint16(p.packetID)
    ELSE writeV5(putUint16(p.packetID), propsBytes(PubAckProps, p.props), <<>>)

pubRecvWriteTo(v, p) ==
    IF v = V311 THEN putUint16(p.packetID)
    ELSE writeV5(putUint16(p.packetID), propsBytes(PubRecvProps, p.props), <<>>)

pubRelWriteTo(v, p) ==
    IF v = V311 THEN putUint16(p.packetID)
    ELSE writeV5(putUint16(p.packetID), propsBytes(PubRelProps, p.props), <<>>)

pubCompWriteTo(v, p) ==
    IF v = V311 THEN putUint16(p.packetID)
    ELSE writeV5(putUint16(p.packetID), propsBytes(PubCompProps, p.props), <<>>)

subscribePayload(p) ==
    FlattenSeq([i \in DOMAIN p.topics |->
                   encodeBytesWithLen(p.topics[i].name) \o <<p.topics[i].qos>>])

subscribeWriteTo(v, p) ==
    IF v = V311 THEN putUint16(p.packetID) \o subscribePayload(p)
    ELSE writeV5(putUint16(p.packetID), subscribeProps(p.props), subscribePayload(p))

subAckWriteTo(v, p) ==
    IF v = V311 THEN putUint16(p.packetID) \o p.codes
    ELSE writeV5(putUint16(p.packetID), propsBytes(SubAckProps, p.props), p.codes)

unsubPayload(p) ==
    FlattenSeq([i \in DOMAIN p.topicNames |-> encodeBytesWithLen(p.topicNames[i])])

unsubWriteTo(v, p) ==
    IF v = V311 THEN putUint16(p.packetID) \o unsubPayload(p)
    ELSE writeV5(putUint16(p.packetID), propsBytes(UnsubProps, p.props), unsubPayload(p))

unsubAckWriteTo(v, p) ==
    IF v = V311 THEN putUint16(p.packetID)
    ELSE writeV5(putUint16(p.packetID), propsBytes(UnsubAckProps, p.props), <<>>)

\* Only MQTT 5 has AUTH, and it is written that way whatever the version.
authWriteTo(p) == writeV5(<<p.code>>, propsBytes(AuthProps, p.props), <<>>)

\* PINGREQ and PINGRESP are the two bytes of their header.
pingWriteTo == <<>>

body(v, p) ==
    CASE p.type = "CONNECT"     -> connWriteTo(v, p)
      [] p.type = "CONNACK"     -> connAckWriteTo(v, p)
      [] p.type = "PUBLISH"     -> publishWriteTo(v, p)
      [] p.type = "PUBACK"      -> pubAckWriteTo(v, p)
      [] p.type = "PUBREC"      -> pubRecvWriteTo(v, p)
      [] p.type = "PUBREL"      -> pubRelWriteTo(v, p)
      [] p.type = "PUBCOMP"     -> pubCompWriteTo(v, p)
      [] p.type = "SUBSCRIBE"   -> subscribeWriteTo(v, p)
      [] p.type = "SUBACK"      -> subAckWriteTo(v, p)
      [] p.type = "UNSUBSCRIBE" -> unsubWriteTo(v, p)
      [] p.type = "UNSUBACK"    -> unsubAckWriteTo(v, p)
      [] p.type = "DISCONNECT"  -> disconnWriteTo(v, p)
      [] p.type = "AUTH"        -> authWriteTo(p)
      [] OTHER                  -> pingWriteTo

CtrlType ==
    [CONNECT |-> 1, CONNACK |-> 2, PUBLISH |-> 3, PUBACK |-> 4, PUBREC |-> 5,
     PUBREL |-> 6, PUBCOMP |-> 7, SUBSCRIBE |-> 8, SUBACK |-> 9,
     UNSUBSCRIBE |-> 10, UNSUBACK |-> 11, PINGREQ |-> 12, PINGRESP |-> 13,
     DISCONNECT |-> 14, AUTH |-> 15]

flagBits(p) ==
    IF p.type = "PUBLISH"
    THEN 8 * boolToByte(p.isDup) + 2 * p.qos + boolToByte(p.isRetain)
    ELSE IF p.type \in {"PUBREL", "SUBSCRIBE", "UNSUBSCRIBE"} THEN 2 ELSE 0

\* ConnPacket.WriteTo and ConnAckPacket.WriteTo panic on a nil pointer among the
\* properties, before a byte is written.
panics(v, p) ==
    /\ v = V5
    /\ \/ p.type = "CONNECT" /\ nilPointer(ConnPointers, p.props)
       \/ p.type = "CONNACK" /\ nilPointer(ConnAckPointers, p.props)

bytes(v, p) == write(16 * CtrlType[p.type] + flagBits(p), body(v, p))

-----------------------------------------------------------------------------
(* Decoding *)

ok(p) == [ok |-> TRUE, pkt |-> p]
bad   == [ok |-> FALSE]

bit(b, weightOfBit) == (b \div weightOfBit) % 2 = 1

from(d, i) == SubSeq(d, i, Len(d))

\* getBinaryData and getStringData.
failedRead == [ok |-> FALSE, data |-> <<>>, next |-> <<>>]

getBinaryData(d) ==
    IF Len(d) < 2 THEN failedRead
    ELSE LET end == getUint16(d) + 2
         IN  IF end > Len(d) THEN failedRead
             ELSE [ok |-> TRUE, data |-> SubSeq(d, 3, end), next |-> from(d, end + 1)]

\* The fields of a CONNECT one after the other: one more field behind those
\* read so far, empty if it is not present.
oneMore(read, field) ==
    IF field.ok THEN [ok |-> TRUE, fields |-> Append(read.fields, field.data), next |-> field.next]
    ELSE [read EXCEPT !.ok = FALSE]

optional(present, read) ==
    IF ~read.ok THEN read
    ELSE IF present THEN oneMore(read, getBinaryData(read.next))
    ELSE [read EXCEPT !.fields = Append(@, <<>>)]

\* Client identifier, will topic and message, user name and password: the same
\* code in both versions.
connFields(flags, d) ==
    LET isWill == bit(flags, 4)
    IN  optional(bit(flags, 64), optional(bit(flags, 128), optional(isWill, optional(isWill,
            optional(TRUE, [ok |-> TRUE, fields |-> <<>>, next |-> d])))))

conn(flags, keepalive, props, read) ==
    IF ~read.ok THEN bad
    ELSE ok([type |-> "CONNECT", cleanSession |-> bit(flags, 2), isWill |-> bit(flags, 4),
             willQos |-> (flags \div 8) % 4, willRetain |-> bit(flags, 32),
             keepalive |-> keepalive, clientID |-> read.fields[1],
             willTopic |-> read.fields[2], willMessage |-> read.fields[3],
             username |-> read.fields[4], password |-> read.fields[5],
             willProps |-> noProps, props |-> props])

decodeV311Conn(protocol) ==
    LET n == protocol.next
    IN  IF ~protocol.ok \/ Len(n) < 4 THEN bad
        ELSE IF n[1] # V311 THEN bad
        ELSE conn(n[2], getUint16(from(n, 3)), noProps, connFields(n[2], from(n, 5)))

v5Conn(flags, keepalive, raw) ==
    IF raw.ok
    THEN conn(flags, keepalive, setProps(ConnProps, raw.props), connFields(flags, raw.next))
    ELSE bad

decodeV5Conn(protocol) ==
    LET n == protocol.next
    IN  IF ~protocol.ok \/ Len(n) < 5 THEN bad
        ELSE IF n[1] # V5 THEN bad
        ELSE v5Conn(n[2], getUint16(from(n, 3)), getRawProps(from(n, 5)))

\* A mutant of publishHeader: an identifier must be followed by a payload.
publishHeaderLonger(qos, topic) ==
    IF ~topic.ok \/ (qos > 0 /\ Len(topic.next) <= 2) THEN failedRead
    ELSE [ok |-> TRUE, data |-> topic.data,
          id   |-> IF qos > 0 THEN getUint16(topic.next) ELSE 0,
          next |-> IF qos > 0 THEN from(topic.next, 3) ELSE topic.next]

\* The topic, then the packet identifier if there is one.
publishHeader(qos, topic) ==
    IF ~topic.ok \/ (qos > 0 /\ Len(topic.next) < 2) THEN failedRead
    ELSE [ok |-> TRUE, data |-> topic.data,
          id   |-> IF qos > 0 THEN getUint16(topic.next) ELSE 0,
          next |-> IF qos > 0 THEN from(topic.next, 3) ELSE topic.next]

publish(header, read, payload, props) ==
    ok([type |-> "PUBLISH", isDup |-> bit(header, 8), qos |-> (header \div 2) % 4,
        isRetain |-> bit(header, 1), topicName |-> read.data, packetID |-> read.id,
        payload |-> payload, props |-> props])

decodeV311Publish(header, read) ==
    IF read.ok THEN publish(header, read, read.next, noProps) ELSE bad

decodeV5Publish(header, read, raw) ==
    IF read.ok /\ raw.ok
    THEN publish(header, read, raw.next, setProps(PublishProps, raw.props))
    ELSE bad

\* Topic filters until the bytes run out, each followed by extra bytes (the
\* QoS of a SUBSCRIBE).
nameInFront(name, tail, behind) ==
    [ok |-> behind.ok, items |-> <<[name |-> name, tail |-> tail]>> \o behind.items]

readNames(d, extra) ==
    LET names[i \in 1..(Len(d) + 1)] ==
            LET name == getBinaryData(from(d, i))
                end  == i + 1 + Len(name.data) + extra
            IN  IF i > Len(d) THEN [ok |-> TRUE, items |-> <<>>]
                ELSE IF ~name.ok \/ end > Len(d) THEN [ok |-> FALSE, items |-> <<>>]
                ELSE nameInFront(name.data, SubSeq(d, end - extra + 1, end), names[end + 1])
    IN  names[1]

subscribe(id, read, props) ==
    IF ~read.ok THEN bad
    ELSE ok([type |-> "SUBSCRIBE", packetID |-> id, props |-> props,
             topics |-> [i \in DOMAIN read.items |->
                            [name |-> read.items[i].name, qos |-> read.items[i].tail[1]]]])

unsubscribe(id, read, props) ==
    IF ~read.ok THEN bad
    ELSE ok([type |-> "UNSUBSCRIBE", packetID |-> id, props |-> props,
             topicNames |-> [i \in DOMAIN read.items |-> read.items[i].name]])

typeOf(header) == CHOOSE t \in DOMAIN CtrlType : CtrlType[t] = header \div 16

decodeV311Packet(type, header, d) ==
    LET id   == getUint16(d)
        rest == from(d, 3)
    IN  CASE type = "CONNECT" -> decodeV311Conn(getBinaryData(d))
          [] type = "CONNACK" ->
                ok([type |-> type, present |-> bit(d[1], 1), code |-> d[2], props |-> noProps])
          [] type = "PUBLISH" ->
                decodeV311Publish(header, publishHeader((header \div 2) % 4, getBinaryData(d)))
          [] type \in {"PUBACK", "PUBREC", "PUBREL", "PUBCOMP"} ->
                ok([type |-> type, packetID |-> id, code |-> 0, props |-> noProps])
          [] type = "SUBSCRIBE"   -> subscribe(id, readNames(rest, 1), noProps)
          [] type = "SUBACK" ->
                ok([type |-> type, packetID |-> id, codes |-> rest, props |-> noProps])
          [] type = "UNSUBSCRIBE" -> unsubscribe(id, readNames(rest, 0), noProps)
          [] type = "UNSUBACK" -> ok([type |-> type, packetID |-> id, props |-> noProps])
          [] OTHER -> bad

\* A packet and the properties that setProps sets in it.
withProps(pkt, keys, raw) ==
    IF raw.ok THEN ok([pkt EXCEPT !.props = setProps(keys, raw.props)]) ELSE bad

\* The acknowledgements read a code that nothing writes.
decodeV5PubAck(type, keys, d) ==
    IF Len(d) < 3 THEN bad
    ELSE withProps([type |-> type, packetID |-> getUint16(d), code |-> d[3], props |-> noProps],
                   keys, getRawProps(from(d, 4)))

decodeV5Sub(type, id, raw) ==
    CASE ~raw.ok -> bad
      [] raw.ok /\ type = "SUBSCRIBE"   ->
            subscribe(id, readNames(raw.next, 1), setProps(SubscribeProps, raw.props))
      [] raw.ok /\ type = "SUBACK"      ->
            withProps([type |-> type, packetID |-> id, codes |-> raw.next, props |-> noProps],
                      SubAckProps, raw)
      [] raw.ok /\ type = "UNSUBSCRIBE" ->
            unsubscribe(id, readNames(raw.next, 0), setProps(UnsubProps, raw.props))
      [] raw.ok /\ type = "UNSUBACK"    ->
            withProps([type |-> type, packetID |-> id, props |-> noProps], UnsubAckProps, raw)

\* DISCONNECT and AUTH: a code and the properties.
decodeV5Code(type, keys, d) ==
    withProps([type |-> type, code |-> d[1], props |-> noProps], keys, getRawProps(from(d, 2)))

decodeV5ConnAck(d) ==
    withProps([type |-> "CONNACK", present |-> bit(d[1], 1), code |-> d[2], props |-> noProps],
              ConnAckProps, getRawProps(from(d, 3)))

decodeV5Packet(type, header, d) ==
    LET read == publishHeader((header \div 2) % 4, getBinaryData(d))
    IN  CASE type = "CONNECT" -> decodeV5Conn(getBinaryData(d))
          [] type = "CONNACK" -> decodeV5ConnAck(d)
          [] type = "PUBLISH" -> decodeV5Publish(header, read, getRawProps(read.next))
          [] type = "PUBACK"  -> decodeV5PubAck(type, PubAckProps, d)
          [] type = "PUBREC"  -> decodeV5PubAck(type, PubRecvProps, d)
          [] type = "PUBREL"  -> decodeV5PubAck(type, PubRelProps, d)
          [] type = "PUBCOMP" -> decodeV5PubAck(type, PubCompProps, d)
          [] type \in {"SUBSCRIBE", "SUBACK", "UNSUBSCRIBE", "UNSUBACK"} ->
                decodeV5Sub(type, getUint16(d), getRawProps(from(d, 3)))
          [] type = "DISCONNECT" -> decodeV5Code(type, DisconnProps, d)
          [] type = "AUTH"       -> decodeV5Code(type, AuthProps, d)
          [] OTHER -> bad

\* A packet without a body, by its type alone: this is also what is left of a
\* packet whose length could not be read.
decodeEmpty(v, header) ==
    LET type == typeOf(header)
    IN  CASE type \in {"PINGREQ", "PINGRESP"}    -> ok([type |-> type])
          [] type = "DISCONNECT" /\ v = V311 -> ok([type |-> type, code |-> 0, props |-> noProps])
          [] OTHER -> bad

decoded(v, w) ==
    IF w = <<>> THEN bad
    ELSE IF remaining(w) = 0 THEN decodeEmpty(v, w[1])
    ELSE IF remaining(w) < 2 \/ ~wholeFrame(w) THEN bad
    ELSE IF v = V311 THEN decodeV311Packet(typeOf(w[1]), w[1], frameBody(w))
    ELSE decodeV5Packet(typeOf(w[1]), w[1], frameBody(w))

-----------------------------------------------------------------------------
(* The connection *)

nothing == [ok |-> FALSE, of |-> [type |-> "none"]]

Init ==
    /\ version \in Versions
    /\ sender = "writing"
    /\ reader = "reading"
    /\ open = TRUE
    /\ wire = <<>>
    /\ unread = <<>>
    /\ writes = 0
    /\ last = nothing

\* handleSend: a packet that cannot be encoded ends the goroutine, with the
\* first byte of it in the buffer.
WriteTo(p) ==
    /\ sender = "writing"
    /\ open
    /\ writes < MaxWrites
    /\ p.type = "AUTH" => version = V5
    /\ writes' = writes + 1
    /\ \/ /\ panics(version, p)
          /\ sender' = "panicked"
          /\ UNCHANGED <<wire, unread>>
       \/ /\ ~panics(version, p)
          /\ wire' = wire \o bytes(version, p)
          /\ IF tooLarge(body(version, p))
             THEN sender' = "failed" /\ UNCHANGED unread
             ELSE unread' = Append(unread, p) /\ UNCHANGED sender
    /\ UNCHANGED <<version, reader, open, last>>

\* The connection is lost: the reader gets the bytes up to k and then an error.
Cut(k) ==
    /\ open
    /\ open' = FALSE
    /\ wire' = SubSeq(wire, 1, k)
    /\ UNCHANGED <<version, sender, reader, unread, writes, last>>

\* Decode does not block on what is on the wire.
ready ==
    /\ wire # <<>>
    /\ lastByte(Tail(wire)) <= Len(Tail(wire))
    /\ remaining(wire) < 2 \/ wholeFrame(wire)

\* What the reader does with a result that should be the packet of: it gives up
\* at the first error.
received(result, of) ==
    \/ /\ result.ok
       /\ last' = [ok |-> TRUE, pkt |-> result.pkt, of |-> of]
       /\ wire' = frameRest(wire)
       /\ unread' = IF unread = <<>> THEN <<>> ELSE Tail(unread)
       /\ UNCHANGED reader
    \/ /\ ~result.ok
       /\ last' = [ok |-> FALSE, of |-> of]
       /\ reader' = "stopped"
       /\ UNCHANGED <<wire, unread>>

Decode ==
    /\ reader = "reading"
    /\ ready \/ ~open
    /\ received(decoded(version, wire),
                IF unread = <<>> THEN [type |-> "none"] ELSE Head(unread))
    /\ UNCHANGED <<version, sender, open, writes>>

Next ==
    \/ \E p \in Packets : WriteTo(p)
    \/ \E k \in 0..Len(wire) : Cut(k)
    \/ Decode

Spec == Init /\ [][Next]_vars

-----------------------------------------------------------------------------
(* Properties *)

TypeOK ==
    /\ version \in Versions
    /\ sender \in {"writing", "failed", "panicked"}
    /\ reader \in {"reading", "stopped"}
    /\ open \in BOOLEAN
    /\ wire \in Seq(Byte)
    /\ unread \in Seq(Packets)
    /\ writes \in 0..MaxWrites
    /\ last.ok \in BOOLEAN

\* What a packet of MQTT 3.1.1 must be to its reader: the packet that was
\* written, less what the format has no room for.
received311(p) ==
    CASE p.type = "CONNECT" ->
            LET q == [p EXCEPT !.cleanSession = @ \/ p.clientID = <<>>,
                               !.props = noProps, !.willProps = noProps]
            IN  IF p.isWill THEN q
                ELSE [q EXCEPT !.willQos = 0, !.willRetain = FALSE,
                               !.willTopic = <<>>, !.willMessage = <<>>]
      [] p.type = "PUBLISH" ->
            [p EXCEPT !.packetID = IF p.qos = 0 THEN 0 ELSE @, !.props = noProps]
      [] p.type \in {"PUBACK", "PUBREC", "PUBREL", "PUBCOMP", "DISCONNECT"} ->
            [p EXCEPT !.code = 0, !.props = noProps]
      [] p.type \in {"PINGREQ", "PINGRESP"} -> p
      [] OTHER -> [p EXCEPT !.props = noProps]

\* With MQTT 3.1.1, a packet that Decode returns is the one that was written,
\* wherever the connection was cut: a packet is never made up from part of one.
RoundTrip ==
    version = V311 /\ last.ok =>
        last.of.type # "none" /\ last.pkt = received311(last.of)

\* With MQTT 3.1.1, Decode fails only after the connection is lost or the
\* writer gave up: every packet that WriteTo produces can be read.
ReadsWhatIsWritten ==
    version = V311 /\ open /\ sender = "writing" => reader = "reading"

\* While the reader reads, the bytes that are left are those of the packets
\* not yet read (and the first byte of one that was too large): however a body
\* was understood, Decode took exactly its bytes.
InSync ==
    open /\ reader = "reading" =>
        LET frames == FlattenSeq([i \in DOMAIN unread |-> bytes(version, unread[i])])
        IN  /\ IsPrefix(frames, wire)
            /\ Len(wire) - Len(frames) = (IF sender = "failed" THEN 1 ELSE 0)

\* The packets on which the two halves of the MQTT 5 codec agree.
agreedV5(p) ==
    \/ p.type \in {"CONNACK", "SUBACK", "UNSUBSCRIBE", "UNSUBACK", "PINGREQ", "PINGRESP", "AUTH"}
    \/ p.type = "CONNECT" /\ ~p.isWill
    \/ p.type \in {"PUBACK", "PUBREC", "PUBREL", "PUBCOMP"} /\ p.code = 0
    \/ /\ p.type = "SUBSCRIBE"
       /\ propKeyUserProps \in DOMAIN p.props =>
              propLen(<<propKeyUserProps>> \o p.props[propKeyUserProps])
                  = Len(p.props[propKeyUserProps])

\* With MQTT 5, those packets are read as they were written, without their
\* properties, except those of a SUBSCRIBE, which survive.
RoundTripV5 ==
    version = V5 /\ open /\ agreedV5(last.of) =>
        /\ last.ok
        /\ last.pkt = IF last.of.type = "SUBSCRIBE" THEN last.of ELSE received311(last.of)

\* README.md offers MQTT 5: a message published over MQTT 5 can be read.
PublishV5 ==
    version = V5 /\ open /\ last.of.type = "PUBLISH" =>
        /\ last.ok
        /\ last.pkt.topicName = last.of.topicName
        /\ last.pkt.payload = last.of.payload

\* The properties of MQTT 5 reach the reader.
PropsV5 ==
    version = V5 /\ open /\ last.ok /\ agreedV5(last.of) /\ last.of.type \notin {"PINGREQ", "PINGRESP"} =>
        last.pkt.props = last.of.props
=============================================================================
