\* No crash, the default strategy.
SPECIFICATION FairSpec
CONSTANTS
    Keys = {k1, k2}
    Packets = {p1}
    NoPacket = NoPacket
    NoKey = NoKey
    Torn = Torn
    Storers = {s1, s2}
    Workers = {w1, w2}
    Strategies <- DefaultStrategies
    CounterSpace = 8
    MaxStores = 2
    MaxFaults = 0
PROPERTIES BufferedIsWritten
CHECK_DEADLOCK FALSE
