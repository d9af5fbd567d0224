\* No loss: a QoS 1 and a QoS 2 publish with a QoS 1 message from the server,
\* or requests of every kind but QoS 2 at once.
SPECIFICATION FairSpec
CONSTANTS
    Pub0 = {z1}
    Pub1 = {p1}
    Pub2 = {q1}
    Subs = {s1}
    Unsubs = {u1}
    In0 = {}
    In1 = {d1}
    In2 = {}
    None = None
    NumIDs = 3
    LogicCap = 1
    MsgCap = 1
    Scenarios = {{p1, q1, d1}, {z1, p1, s1, u1}}
    MaxLosses = 0
PROPERTIES Completes InboundQos1Acked
