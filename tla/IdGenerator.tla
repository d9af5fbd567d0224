----------------------------- MODULE IdGenerator -----------------------------
(***************************************************************************)
(* idGenerator of util.go: the packet identifiers of every PUBLISH with    *)
(* QoS > 0, SUBSCRIBE and UNSUBSCRIBE of one client.                       *)
(*                                                                         *)
(* One generator is shared by every goroutine that calls Publish,          *)
(* Subscribe or Unsubscribe and by the logic() goroutine of every          *)
(* connection (getExtra, free).  next() is not atomic: it is a sequence of *)
(* atomic counter operations and of lookups and stores under the mutex, so *)
(* each of those is one action here, and pc says which one comes next.     *)
(*                                                                         *)
(* A caller stands for one packet: it enters next() with the packet as     *)
(* `extra', holds the identifier it got while the packet is in flight, and *)
(* is idle again once the acknowledgement freed the identifier.            *)
(***************************************************************************)
EXTENDS Integers, FiniteSets

CONSTANTS
    Callers,       \* packets (equivalently: the goroutines that send them)
    NoExtra,       \* absent entry of the usedIDs map
    IDSpace,       \* number of uint16 values (2^16 in the code)
    CounterSpace,  \* number of uint32 values (2^32 in the code)
    Concurrency    \* how many goroutines may be inside next() at once

ASSUME CallersAssumption == NoExtra \notin Callers

\* uint16 and uint32: the identifier is the low half of the counter.
ASSUME SpaceAssumption ==
    /\ IDSpace \in Nat /\ IDSpace > 1
    /\ CounterSpace \in Nat /\ CounterSpace >= IDSpace
    /\ CounterSpace % IDSpace = 0

ASSUME ConcurrencyAssumption == Concurrency \in Nat

IDs      == 0 .. IDSpace - 1
MaxTries == IDSpace - 1               \* math.MaxUint16

VARIABLES
    nextID,    \* idGenerator.nextID, a uint32
    usedIDs,   \* idGenerator.usedIDs, a missing key is NoExtra
    pc,        \* per caller: the next atomic step of next(), or where the packet is
    id,        \* per caller: the local variable id, then the result
    tries,     \* per caller: the loop variable i (0 outside the scan)
    wrapped    \* history: some call has seen the identifier 0 come out of the counter

vars == <<nextID, usedIDs, pc, id, tries, wrapped>>

Inside   == {"reset", "first", "loop", "again", "last", "set"}
PCs      == {"idle", "inflight"} \cup Inside

\* getExtra(id) and used(id): the entry of an identifier under the read lock.
getExtra(i) == usedIDs[i]
used(i)     == usedIDs[i] # NoExtra

InNext   == {c \in Callers : pc[c] \in Inside}
InFlight == {c \in Callers : pc[c] = "inflight" /\ id[c] # 0}
Full     == \A i \in IDs \ {0} : used(i)

\* newIDGenerator
Init ==
    /\ nextID  = 0
    /\ usedIDs = [i \in IDs |-> NoExtra]
    /\ pc      = [c \in Callers |-> "idle"]
    /\ id      = [c \in Callers |-> 0]
    /\ tries   = [c \in Callers |-> 0]
    /\ wrapped = FALSE

Goto(c, label) == pc' = [pc EXCEPT ![c] = label]

\* Mutant: g.nextID++ without the atomic, so a concurrent store may be lost.
IncrementLost(c) ==
    LET n == (nextID + 1) % CounterSpace IN
    /\ nextID'  \in {n, nextID}
    /\ id'      = [id EXCEPT ![c] = n % IDSpace]
    /\ wrapped' = (wrapped \/ n % IDSpace = 0)

\* Mutant: the conversion to uint16 is missing.
IncrementWide(c) ==
    LET n == (nextID + 1) % CounterSpace IN
    /\ nextID'  = n
    /\ id'      = [id EXCEPT ![c] = n]
    /\ wrapped' = (wrapped \/ n % IDSpace = 0)

\* id = uint16(atomic.AddUint32(&g.nextID, 1))
Increment(c) ==
    LET n == (nextID + 1) % CounterSpace IN
    /\ nextID'  = n
    /\ id'      = [id EXCEPT ![c] = n % IDSpace]
    /\ wrapped' = (wrapped \/ n % IDSpace = 0)

\* Entry of next(): the first increment; identifier 0 is not valid.
NextStart(c) ==
    /\ pc[c] = "idle"
    /\ Cardinality(InNext) < Concurrency
    /\ Increment(c)
    /\ Goto(c, IF id'[c] = 0 THEN "reset" ELSE "first")
    /\ UNCHANGED <<usedIDs, tries>>

\* atomic.StoreUint32(&g.nextID, 1); id = 1
NextReset(c) ==
    /\ pc[c] = "reset"
    /\ nextID' = 1
    /\ id' = [id EXCEPT ![c] = 1]
    /\ Goto(c, "first")
    /\ UNCHANGED <<usedIDs, tries, wrapped>>

\* if used := g.used(id); used { for i := 0; ...
NextFirst(c) ==
    /\ pc[c] = "first"
    /\ Goto(c, IF used(id[c]) THEN "loop" ELSE "set")
    /\ UNCHANGED <<nextID, usedIDs, id, tries, wrapped>>

\* The head of the loop body: give up after MaxUint16 iterations, with 0.
NextGiveUp(c) ==
    /\ pc[c] = "loop"
    /\ tries[c] = MaxTries
    /\ id' = [id EXCEPT ![c] = 0]
    /\ tries' = [tries EXCEPT ![c] = 0]
    /\ Goto(c, "inflight")
    /\ UNCHANGED <<nextID, usedIDs, wrapped>>

\* Mutant: the iterations of the scan are not counted.
NextTryUncounted(c) ==
    /\ pc[c] = "loop"
    /\ Goto(c, IF used(id[c]) THEN "again" ELSE "last")
    /\ UNCHANGED <<nextID, usedIDs, id, tries, wrapped>>

\* used = g.used(id); i++
NextTry(c) ==
    /\ pc[c] = "loop"
    /\ tries[c] # MaxTries
    /\ tries' = [tries EXCEPT ![c] = @ + 1]
    /\ Goto(c, IF used(id[c]) THEN "again" ELSE "last")
    /\ UNCHANGED <<nextID, usedIDs, id, wrapped>>

\* The post statement of the loop runs before its condition is evaluated, so
\* the counter moves on even when the identifier just tried is unused.
NextPost(c) ==
    /\ pc[c] \in {"again", "last"}
    /\ Increment(c)
    /\ Goto(c, IF pc[c] = "again" THEN "loop" ELSE "set")
    /\ UNCHANGED <<usedIDs, tries>>

\* Mutant: setUsed without the test id > 0.
NextSetZero(c) ==
    /\ pc[c] = "set"
    /\ usedIDs' = [usedIDs EXCEPT ![id[c]] = c]
    /\ tries' = [tries EXCEPT ![c] = 0]
    /\ Goto(c, "inflight")
    /\ UNCHANGED <<nextID, id, wrapped>>

\* if id > 0 { g.setUsed(id, extra) }; return id
NextSet(c) ==
    /\ pc[c] = "set"
    /\ usedIDs' = IF id[c] > 0 THEN [usedIDs EXCEPT ![id[c]] = c] ELSE usedIDs
    /\ tries' = [tries EXCEPT ![c] = 0]
    /\ Goto(c, "inflight")
    /\ UNCHANGED <<nextID, id, wrapped>>

\* free(id) by logic(): an acknowledgement arrived for an identifier some
\* packet in flight was sent with, and getExtra found the packet it frees.
Free(i) ==
    /\ \E c \in InFlight : id[c] = i
    /\ getExtra(i) # NoExtra
    /\ usedIDs' = [usedIDs EXCEPT ![i] = NoExtra]
    /\ Goto(getExtra(i), "idle")
    /\ id' = [id EXCEPT ![getExtra(i)] = 0]
    /\ UNCHANGED <<nextID, tries, wrapped>>

\* A caller that got 0 has no identifier: it may try again later.
Retry(c) ==
    /\ pc[c] = "inflight" /\ id[c] = 0
    /\ Goto(c, "idle")
    /\ UNCHANGED <<nextID, usedIDs, id, tries, wrapped>>

NextStep(c) ==
    \/ NextReset(c) \/ NextFirst(c) \/ NextGiveUp(c)
    \/ NextTry(c) \/ NextPost(c) \/ NextSet(c)

Next ==
    \/ \E c \in Callers : NextStart(c) \/ NextStep(c) \/ Retry(c)
    \/ \E i \in IDs : Free(i)

Spec == Init /\ [][Next]_vars

\* A goroutine inside next() is always runnable: nothing in it blocks (the
\* mutex is held for one map operation).  Calls and acknowledgements need
\* not happen.
FairSpec == Spec /\ \A c \in Callers : WF_vars(NextStep(c))

-----------------------------------------------------------------------------
\* The types of the fields and locals; 0 is a uint16 but never a key.
TypeOK ==
    /\ nextID  \in 0 .. CounterSpace - 1
    /\ usedIDs \in [IDs -> Callers \cup {NoExtra}]
    /\ pc      \in [Callers -> PCs]
    /\ id      \in [Callers -> IDs]
    /\ tries   \in [Callers -> 0 .. MaxTries]
    /\ wrapped \in BOOLEAN

\* Until the counter has run through all its identifiers once, identifiers
\* in flight are pairwise different and each leads back to its own packet,
\* whatever the interleaving of the callers and however many identifiers
\* were freed on the way: next() never enters its scan (util.go:85-108).
FirstLapUnique ==
    ~wrapped =>
        \A c \in InFlight :
            /\ getExtra(id[c]) = c
            /\ \A d \in InFlight \ {c} : id[d] # id[c]

\* No packet is ever recorded under the reserved identifier 0, although 0
\* does come out of the counter in the scan and after it (util.go:104).
ZeroNeverUsed == getExtra(0) = NoExtra

Pool == INSTANCE PacketIDPool WITH usedIDs <- usedIDs

\* Until the counter first wraps, every step of the generator is a step of
\* the abstract pool of identifiers (or leaves the table alone): what is
\* handed out is free and not 0, what is freed was in use.
FirstLapIsPool == [][~wrapped' => Pool!Next]_usedIDs

\* A call of next() always returns, even when other callers move the counter
\* under its scan and every identifier is taken (the bound of util.go:94).
NextReturns == \A c \in Callers : pc[c] \in Inside ~> pc[c] = "inflight"

\* What the code says of exhaustion: "id running out, caller should try some
\* time later" is the comment on the return of 0 (util.go:95).  So a call
\* that returns 0 returns with every identifier in use.
ZeroMeansExhausted ==
    [][\A c \in Callers :
         pc[c] \in {"loop", "set"} /\ pc'[c] = "inflight" /\ id'[c] = 0 => Full]_vars

\* TestIdGenerator_next, once every identifier is taken: "generated id should
\* be 0" (util_test.go:47).  So a call that ends with every identifier in use
\* hands out nothing.
ExhaustedGivesZero ==
    [][\A c \in Callers :
         pc[c] = "set" /\ pc'[c] = "inflight" /\ Full => id'[c] = 0]_vars
=============================================================================
