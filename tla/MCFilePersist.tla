--------------------------- MODULE MCFilePersist ----------------------------
(* FilePersist for TLC. *)
EXTENDS FilePersist

Strategy(interval, max, replace) ==
    [Interval |-> interval, MaxCount |-> max, DropOnExceed |-> max > 0,
     DuplicateReplace |-> replace]

\* defaultPersistStrategy, and one that writes at once, with a limit.
Default == Strategy(1, 0, TRUE)
AtOnce  == Strategy(0, 1, FALSE)

SafetyStrategies  == {Default, AtOnce}
DefaultStrategies == {Default}
AtOnceStrategies  == {AtOnce}
=============================================================================
