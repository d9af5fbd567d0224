\* Three packets, each sent by a goroutine of its own, 2 usable identifiers.
SPECIFICATION FairSpec
CONSTANTS
    Callers = {c1, c2, c3}
    NoExtra = NoExtra
    IDSpace = 3
    CounterSpace = 6
    Concurrency = 3
INVARIANTS TypeOK FirstLapUnique ZeroNeverUsed
PROPERTIES FirstLapIsPool NextReturns
CHECK_DEADLOCK FALSE
