\* The connection breaks once, anywhere; traffic in both directions.
SPECIFICATION Spec
CONSTANTS
    Pub0 = {}
    Pub1 = {p1}
    Pub2 = {q1}
    Subs = {}
    Unsubs = {}
    In0 = {}
    In1 = {}
    In2 = {e1}
    None = None
    NumIDs = 2
    LogicCap = 1
    MsgCap = 1
    Scenarios = {{p1, q1, e1}}
    MaxLosses = 1
INVARIANTS
    TypeOK SuccessMeansReceived ReportedOnce AckedWasGiven
    GivenOncePerConnection PersistedWhileInFlight StoreCleared
