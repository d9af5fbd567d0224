SPECIFICATION Spec
CONSTANTS
    s1 = s1
    s2 = s2
    Servers <- MCServers
    Names <- MCNames
    Given <- MCGiven
    Setups <- MCSetups
    MaxRetries = 3
INVARIANTS
    TypeOK
    BackoffIsGeometric
    OwnPacketIsolated
    KeepaliveInTime
    VersionAsAgreed
CHECK_DEADLOCK FALSE
