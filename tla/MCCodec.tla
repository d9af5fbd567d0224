------------------------------ MODULE MCCodec ------------------------------
(***************************************************************************)
(* The runs of Codec: packets of every type, with empty and non-empty      *)
(* fields, every combination of the optional fields of CONNECT, a body of  *)
(* more than 127 bytes (two bytes of length) and one that is too large.    *)
(***************************************************************************)
EXTENDS Codec

a == <<97>>
bb == <<98, 0>>
long == [i \in 1..130 |-> 0]
huge == [i \in 1..150 |-> 0]
string == encodeBytesWithLen(a)
pair == encodeBytesWithLen(a) \o encodeBytesWithLen(bb)

connProps == (17 :> <<0, 0, 0, 1>>) @@ (23 :> <<1>>) @@ (25 :> <<0>>)
connAckProps == (37 :> <<1>>) @@ (40 :> <<1>>) @@ (41 :> <<1>>) @@ (42 :> <<1>>)

Connects ==
    [type : {"CONNECT"}, cleanSession : {FALSE}, isWill : {FALSE}, willQos : {1},
     willRetain : {TRUE}, username : {<<>>, a}, password : {<<>>, bb}, clientID : {<<>>, a},
     keepalive : {300}, willTopic : {a}, willMessage : {<<>>}, willProps : {3 :> string},
     props : {connProps}]

Wills ==
    [type : {"CONNECT"}, cleanSession : {TRUE}, isWill : {TRUE}, willQos : {2},
     willRetain : BOOLEAN, username : {a}, password : {<<>>}, clientID : {a},
     keepalive : {300}, willTopic : {a}, willMessage : {bb}, willProps : {3 :> string},
     props : {noProps}]

\* A Props with a nil pointer.
Incomplete ==
    [type : {"CONNECT"}, cleanSession : {TRUE}, isWill : {FALSE}, willQos : {0},
     willRetain : {FALSE}, username : {<<>>}, password : {<<>>}, clientID : {a},
     keepalive : {0}, willTopic : {<<>>}, willMessage : {<<>>}, willProps : {noProps},
     props : {17 :> <<0, 0, 0, 1>>}]

Publishes ==
    [type : {"PUBLISH"}, isDup : {TRUE}, qos : 0..2, isRetain : {FALSE}, topicName : {a},
     packetID : {258}, payload : {<<>>, bb}, props : {noProps}]
    \cup
    [type : {"PUBLISH"}, isDup : {FALSE}, qos : {1}, isRetain : {TRUE}, topicName : {<<>>},
     packetID : {7}, payload : {long, huge}, props : {3 :> string}]

Acks ==
    [type : {"PUBACK", "PUBREC", "PUBREL", "PUBCOMP"}, packetID : {258}, code : {0},
     props : {31 :> string}]
    \cup [type : {"PUBACK"}, packetID : {1}, code : {16}, props : {noProps}]

Subscribes ==
    [type : {"SUBSCRIBE"}, packetID : {1}, topics : {<<>>, <<[name |-> bb, qos |-> 2]>>},
     props : {noProps, (11 :> <<200, 1>>) @@ (38 :> pair)}]
    \cup
    [type : {"SUBSCRIBE"}, packetID : {2},
     topics : {<<[name |-> <<>>, qos |-> 0], [name |-> a, qos |-> 1]>>},
     props : {38 :> (pair \o pair)}]

Others ==
    [type : {"CONNACK"}, present : BOOLEAN, code : {5}, props : {connAckProps}]
    \cup [type : {"CONNACK"}, present : {FALSE}, code : {0}, props : {41 :> <<1>>}]
    \cup [type : {"SUBACK"}, packetID : {1}, codes : {<<>>, <<0, 128>>}, props : {noProps}]
    \cup [type : {"UNSUBSCRIBE"}, packetID : {1}, topicNames : {<<>>, <<a, <<>>, bb>>}, props : {noProps}]
    \cup [type : {"UNSUBACK"}, packetID : {1}, props : {noProps}]
    \cup [type : {"PINGREQ", "PINGRESP"}]
    \cup [type : {"DISCONNECT"}, code : {0, 4}, props : {noProps}]
    \cup [type : {"AUTH"}, code : {24}, props : {21 :> string}]

MCPackets == Connects \cup Wills \cup Incomplete \cup Publishes \cup Acks \cup Subscribes \cup Others
=============================================================================
