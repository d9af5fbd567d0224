\* One run of connect(), two messages of the server, so that logic() may wait for
\* room in recvCh, one call of Disconnect or Destroy; channels of capacity 1, so
\* that each of them is full at times.
SPECIFICATION FairSpec
CONSTANTS
    MaxAttempts = 1
    MaxData = 2
    MaxCalls = 1
    autoReconnect = TRUE
    protoCompromise = FALSE
    keepalive = TRUE
    FirstVersion = 4
    QueueCap = 1
    MsgCap = 1
PROPERTIES  DisconnectEnds 
CHECK_DEADLOCK FALSE
