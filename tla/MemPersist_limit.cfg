\* Three goroutines, a limit of one, four keys; with and without replacement.
SPECIFICATION Spec
CONSTANTS
    Keys = {k1, k2, k3, k4}
    Packets = {p1, p2}
    NoPacket = NoPacket
    Storers = {s1, s2, s3}
    MaxCount = 1
    DropOnExceed = TRUE
    CounterSpace = 6
SYMMETRY Symmetry
INVARIANTS TypeOK Capacity CountCovers
PROPERTIES IsPacketStore
