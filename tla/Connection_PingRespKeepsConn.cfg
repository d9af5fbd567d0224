\* MQTT 5.
SPECIFICATION Spec
CONSTANTS
    MaxAttempts = 1
    MaxData = 0
    MaxCalls = 1
    autoReconnect = TRUE
    protoCompromise = FALSE
    keepalive = TRUE
    FirstVersion = 5
    QueueCap = 2
    MsgCap = 10
PROPERTIES PingRespKeepsConn
CHECK_DEADLOCK FALSE
