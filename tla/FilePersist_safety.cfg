\* Two goroutines store two keys; two workers; one crash, failed open or failed write.
SPECIFICATION FairSpec
CONSTANTS
    Keys = {k1, k2}
    Packets = {p1}
    NoPacket = NoPacket
    NoKey = NoKey
    Torn = Torn
    Storers = {s1, s2}
    Workers = {w1, w2}
    Strategies <- SafetyStrategies
    CounterSpace = 8
    MaxStores = 2
    MaxFaults = 1
INVARIANTS TypeOK SomeVersionKept WrittenSurvives
PROPERTIES WorkerFlushes
CHECK_DEADLOCK FALSE
