SPECIFICATION Spec
CONSTANTS
    maxMsgSize = 140
    Versions = {4, 5}
    Packets <- MCPackets
    MaxWrites = 2
INVARIANTS
    TypeOK
    RoundTrip
    ReadsWhatIsWritten
    InSync
    RoundTripV5
CHECK_DEADLOCK FALSE
