\* One QoS 2 message from the server, no loss.
SPECIFICATION FairSpec
CONSTANTS
    Pub0 = {}
    Pub1 = {}
    Pub2 = {}
    Subs = {}
    Unsubs = {}
    In0 = {}
    In1 = {}
    In2 = {e1}
    None = None
    NumIDs = 1
    LogicCap = 1
    MsgCap = 1
    Scenarios = {{e1}}
    MaxLosses = 0
PROPERTIES InboundQos2Completes
