\* Two runs of connect() of a V5 client that may fall back to V311, the second
\* one until its connection is told to stop, and a call of Disconnect or Destroy.
SPECIFICATION Spec
CONSTANTS
    MaxAttempts = 2
    MaxData = 0
    MaxCalls = 1
    autoReconnect = TRUE
    protoCompromise = TRUE
    keepalive = TRUE
    FirstVersion = 5
    QueueCap = 1
    MsgCap = 1
CONSTRAINT LastRunOpen
INVARIANTS TypeOK DisconnectIsFinal OldSenderStopped OneInUse EndedIsRetried
CHECK_DEADLOCK FALSE
