-------------------------- MODULE IdGeneratorProofs --------------------------
(***************************************************************************)
(* Theorems about IdGenerator, for every set of callers, every size of the *)
(* identifier space and any number of goroutines inside next().            *)
(*                                                                         *)
(* Until the counter first produces 0, the call that incremented it to n   *)
(* is the only one that ever had n as its identifier.  FirstLap says this  *)
(* of the callers, of the table and of the counter together, and is        *)
(* inductive with TypeOK.                                                  *)
(***************************************************************************)
EXTENDS IdGenerator, TLAPS

\* The identifier of a caller inside next() or in flight.
Holding(c) == pc[c] \in {"first", "set", "inflight"}

\* On the first lap, no caller scans, resets or gives up.
OnTrack == \A c \in Callers : pc[c] = "idle" \/ Holding(c)

\* On the first lap, whoever has an identifier got it from an earlier value of
\* the counter, and it is in the table exactly when next() has returned.
HeldFromCounter ==
    \A c \in Callers : Holding(c) =>
        /\ id[c] > 0 /\ id[c] <= nextID
        /\ pc[c] = "inflight" => usedIDs[id[c]] = c
        /\ pc[c] # "inflight" => usedIDs[id[c]] = NoExtra

\* On the first lap, no two callers have the same identifier.
HeldDistinct ==
    \A c, d \in Callers : Holding(c) /\ Holding(d) /\ c # d => id[c] # id[d]

\* On the first lap, every entry of the table belongs to a packet in flight.
EntriesHeld ==
    \A i \in IDs : used(i) =>
        /\ i <= nextID
        /\ pc[usedIDs[i]] = "inflight"
        /\ id[usedIDs[i]] = i

\* The inductive invariant of the first lap.
FirstLap ==
    ~wrapped => /\ nextID < IDSpace
                /\ OnTrack
                /\ HeldFromCounter
                /\ HeldDistinct
                /\ EntriesHeld

-----------------------------------------------------------------------------
\* The uint32 and uint16 conversions stay in range.
LEMMA ModRange ==
    ASSUME NEW a \in Nat, NEW m \in Nat, m > 0
    PROVE  a % m \in 0 .. m - 1
  OBVIOUS

\* A value below the modulus is its own remainder, the modulus itself has none.
LEMMA ModSmall ==
    ASSUME NEW a \in Nat, NEW m \in Nat, m > 0
    PROVE  /\ a < m => a % m = a
           /\ a = m => a % m = 0
  OBVIOUS

\* Every field and local keeps its type (idGenerator, util.go:56-60, 85-108).
THEOREM TypeCorrect == Spec => []TypeOK
<1>1. Init => TypeOK
  <2> SUFFICES ASSUME Init PROVE TypeOK
    OBVIOUS
  <2>1. 0 \in 0 .. CounterSpace - 1 /\ 0 \in IDs /\ 0 \in 0 .. MaxTries
    BY SpaceAssumption DEF IDs, MaxTries
  <2>2. wrapped \in BOOLEAN
    BY DEF Init
  <2> QED BY <2>1, <2>2 DEF Init, TypeOK, PCs, Inside
<1>2. TypeOK /\ [Next]_vars => TypeOK'
  <2> SUFFICES ASSUME TypeOK, [Next]_vars PROVE TypeOK'
    OBVIOUS
  <2> USE SpaceAssumption DEF TypeOK, IDs, PCs, Inside, MaxTries, Goto
  <2>inc. ASSUME NEW c \in Callers, Increment(c)
          PROVE  /\ nextID' \in 0 .. CounterSpace - 1
                 /\ id' \in [Callers -> IDs]
                 /\ wrapped' \in BOOLEAN
    <3> DEFINE n == (nextID + 1) % CounterSpace
    <3>1. n \in 0 .. CounterSpace - 1
      BY ModRange
    <3>2. n % IDSpace \in IDs
      BY <3>1, ModRange
    <3> QED BY <2>inc, <3>1, <3>2 DEF Increment
  <2>1. ASSUME NEW c \in Callers, NextStart(c) PROVE TypeOK'
    BY <2>1, <2>inc DEF NextStart
  <2>2. ASSUME NEW c \in Callers, NextReset(c) PROVE TypeOK'
    BY <2>2 DEF NextReset
  <2>3. ASSUME NEW c \in Callers, NextFirst(c) PROVE TypeOK'
    BY <2>3 DEF NextFirst
  <2>4. ASSUME NEW c \in Callers, NextGiveUp(c) PROVE TypeOK'
    BY <2>4 DEF NextGiveUp
  <2>5. ASSUME NEW c \in Callers, NextTry(c) PROVE TypeOK'
    BY <2>5 DEF NextTry
  <2>6. ASSUME NEW c \in Callers, NextPost(c) PROVE TypeOK'
    BY <2>6, <2>inc DEF NextPost
  <2>7. ASSUME NEW c \in Callers, NextSet(c) PROVE TypeOK'
    BY <2>7 DEF NextSet
  <2>8. ASSUME NEW c \in Callers, Retry(c) PROVE TypeOK'
    BY <2>8 DEF Retry
  <2>9. ASSUME NEW i \in IDs, Free(i) PROVE TypeOK'
    BY <2>9 DEF Free, getExtra
  <2>10. CASE UNCHANGED vars
    BY <2>10 DEF vars
  <2> QED
    BY <2>1, <2>2, <2>3, <2>4, <2>5, <2>6, <2>7, <2>8, <2>9, <2>10 DEF Next, NextStep
<1> QED BY <1>1, <1>2, PTL DEF Spec

-----------------------------------------------------------------------------
\* The increment of the first lap: the counter moves on by one and the caller
\* gets a value it has never had before, or else the lap is over.
LEMMA FirstLapIncrement ==
    ASSUME TypeOK, nextID < IDSpace, NEW c \in Callers, Increment(c), ~wrapped'
    PROVE  /\ ~wrapped
           /\ nextID' = nextID + 1
           /\ nextID' < IDSpace
           /\ id' = [id EXCEPT ![c] = nextID + 1]
<1> DEFINE n == (nextID + 1) % CounterSpace
<1>1. nextID + 1 \in Nat /\ nextID + 1 <= IDSpace /\ IDSpace <= CounterSpace
  BY SpaceAssumption DEF TypeOK
<1>2. n = nextID + 1 \/ n = 0
  BY <1>1, ModSmall, SpaceAssumption
<1>3. n % IDSpace # 0 /\ ~wrapped
  BY DEF Increment, TypeOK
<1>4. n = nextID + 1
  BY <1>2, <1>3, ModSmall, SpaceAssumption
<1>5. nextID + 1 # IDSpace
  BY <1>1, <1>3, <1>4, ModSmall, SpaceAssumption
<1>6. n % IDSpace = nextID + 1
  BY <1>1, <1>4, <1>5, ModSmall, SpaceAssumption
<1>7. nextID' = n /\ id' = [id EXCEPT ![c] = n % IDSpace]
  BY DEF Increment
<1>8. nextID + 1 < IDSpace
  BY <1>1, <1>5, SpaceAssumption
<1> QED BY <1>3, <1>4, <1>6, <1>7, <1>8

\* The first-lap invariant is inductive, given TypeOK.
LEMMA FirstLapInductive == TypeOK /\ FirstLap /\ [Next]_vars => FirstLap'
<1> SUFFICES ASSUME TypeOK, FirstLap, [Next]_vars, ~wrapped'
             PROVE  (/\ nextID < IDSpace /\ OnTrack /\ HeldFromCounter
                     /\ HeldDistinct /\ EntriesHeld)'
  BY DEF FirstLap
<1> USE SpaceAssumption, CallersAssumption
<1> USE DEF OnTrack, HeldFromCounter, HeldDistinct, EntriesHeld, Holding, used, Goto
<1>1. ASSUME NEW c \in Callers, NextStart(c)
      PROVE  (/\ nextID < IDSpace /\ OnTrack /\ HeldFromCounter
              /\ HeldDistinct /\ EntriesHeld)'
  <2>1. ~wrapped
    BY <1>1 DEF NextStart, Increment, TypeOK
  <2>2. /\ nextID < IDSpace /\ OnTrack /\ HeldFromCounter
        /\ HeldDistinct /\ EntriesHeld
    BY <2>1 DEF FirstLap
  <2>3. /\ nextID' = nextID + 1
        /\ nextID' < IDSpace
        /\ id' = [id EXCEPT ![c] = nextID + 1]
    BY <1>1, <2>2, FirstLapIncrement DEF NextStart
  <2>4. /\ pc' = [pc EXCEPT ![c] = "first"]
        /\ usedIDs' = usedIDs
        /\ pc[c] = "idle"
        /\ id'[c] = nextID + 1
    <3>1. id'[c] = nextID + 1 /\ id'[c] # 0
      BY <2>3 DEF TypeOK
    <3> QED BY <1>1, <3>1 DEF NextStart
  <2>5. nextID + 1 \in IDs
    BY <2>3 DEF TypeOK, IDs
  <2>6. usedIDs[nextID + 1] = NoExtra
    BY <2>2, <2>5 DEF TypeOK
  <2>7. OnTrack'
    BY <2>2, <2>4 DEF TypeOK
  <2>8. HeldFromCounter'
    BY <2>2, <2>3, <2>4, <2>6 DEF TypeOK, IDs
  <2>9. HeldDistinct'
    BY <2>2, <2>3, <2>4 DEF TypeOK, IDs
  <2>10. EntriesHeld'
    <3> SUFFICES ASSUME NEW i \in IDs, usedIDs[i] # NoExtra
                 PROVE  i <= nextID' /\ pc'[usedIDs[i]] = "inflight" /\ id'[usedIDs[i]] = i
      BY <2>4
    <3>1. usedIDs[i] \in Callers /\ usedIDs[i] # c
      BY <2>2, <2>4 DEF TypeOK
    <3> QED BY <2>2, <2>3, <2>4, <3>1 DEF TypeOK, IDs
  <2> QED BY <2>3, <2>7, <2>8, <2>9, <2>10
<1>2. ASSUME NEW c \in Callers, NextFirst(c)
      PROVE  (/\ nextID < IDSpace /\ OnTrack /\ HeldFromCounter
              /\ HeldDistinct /\ EntriesHeld)'
  <2>1. /\ nextID < IDSpace /\ OnTrack /\ HeldFromCounter
        /\ HeldDistinct /\ EntriesHeld
    BY <1>2 DEF FirstLap, NextFirst
  <2>2. /\ pc' = [pc EXCEPT ![c] = "set"] /\ pc[c] = "first"
        /\ UNCHANGED <<nextID, usedIDs, id>>
    BY <1>2, <2>1 DEF NextFirst, TypeOK
  <2> QED BY <2>1, <2>2 DEF TypeOK, IDs
<1>3. ASSUME NEW c \in Callers, NextSet(c)
      PROVE  (/\ nextID < IDSpace /\ OnTrack /\ HeldFromCounter
              /\ HeldDistinct /\ EntriesHeld)'
  <2>1. /\ nextID < IDSpace /\ OnTrack /\ HeldFromCounter
        /\ HeldDistinct /\ EntriesHeld
    BY <1>3 DEF FirstLap, NextSet
  <2>2. /\ pc' = [pc EXCEPT ![c] = "inflight"] /\ pc[c] = "set"
        /\ usedIDs' = [usedIDs EXCEPT ![id[c]] = c]
        /\ UNCHANGED <<nextID, id>>
        /\ id[c] \in IDs /\ id[c] <= nextID
    BY <1>3, <2>1 DEF NextSet, TypeOK
  <2>3. OnTrack'
    BY <2>1, <2>2 DEF TypeOK
  <2>4. HeldFromCounter'
    BY <2>1, <2>2 DEF TypeOK
  <2>5. HeldDistinct'
    BY <2>1, <2>2 DEF TypeOK
  <2>6. EntriesHeld'
    BY <2>1, <2>2 DEF TypeOK
  <2> QED BY <2>1, <2>2, <2>3, <2>4, <2>5, <2>6
<1>4. ASSUME NEW i \in IDs, Free(i)
      PROVE  (/\ nextID < IDSpace /\ OnTrack /\ HeldFromCounter
              /\ HeldDistinct /\ EntriesHeld)'
  <2>1. /\ nextID < IDSpace /\ OnTrack /\ HeldFromCounter
        /\ HeldDistinct /\ EntriesHeld
    BY <1>4 DEF FirstLap, Free
  <2> DEFINE e == usedIDs[i]
  <2>2. /\ e \in Callers /\ pc[e] = "inflight" /\ id[e] = i
        /\ pc' = [pc EXCEPT ![e] = "idle"]
        /\ usedIDs' = [usedIDs EXCEPT ![i] = NoExtra]
        /\ id' = [id EXCEPT ![e] = 0]
        /\ UNCHANGED nextID
    BY <1>4, <2>1 DEF Free, getExtra, TypeOK
  <2>3. OnTrack'
    BY <2>1, <2>2 DEF TypeOK
  <2>4. HeldFromCounter'
    BY <2>1, <2>2 DEF TypeOK
  <2>5. HeldDistinct'
    BY <2>1, <2>2 DEF TypeOK
  <2>6. EntriesHeld'
    BY <2>1, <2>2 DEF TypeOK
  <2> QED BY <2>1, <2>2, <2>3, <2>4, <2>5, <2>6
\* The rest of next() is only reached once the lap is over.
<1>5. ASSUME NEW c \in Callers,
             \/ NextReset(c) \/ NextGiveUp(c) \/ NextTry(c) \/ NextPost(c) \/ Retry(c)
      PROVE  FALSE
  <2>1. ~wrapped
    BY <1>5 DEF NextReset, NextGiveUp, NextTry, NextPost, Retry, Increment, TypeOK
  <2>2. (pc[c] = "idle" \/ Holding(c)) /\ (Holding(c) => id[c] > 0)
    BY <2>1 DEF FirstLap
  <2> QED
    BY <1>5, <2>2 DEF NextReset, NextGiveUp, NextTry, NextPost, Retry, TypeOK, IDs
<1>6. CASE UNCHANGED vars
  BY <1>6 DEF vars, FirstLap
<1> QED BY <1>1, <1>2, <1>3, <1>4, <1>5, <1>6 DEF Next, NextStep

\* TypeOK and the first-lap invariant hold in every reachable state.
THEOREM FirstLapHolds == Spec => []FirstLap
<1>1. Init => FirstLap
  BY SpaceAssumption DEF Init, FirstLap, OnTrack, HeldFromCounter, HeldDistinct,
                         EntriesHeld, Holding, used, IDs
<1>2. FirstLap /\ TypeOK /\ [Next]_vars => FirstLap'
  BY FirstLapInductive
<1> QED BY <1>1, <1>2, TypeCorrect, PTL DEF Spec

\* Until the counter has gone round once, the identifiers in flight are
\* pairwise different and each leads back to its packet (util.go:85-108).
THEOREM FirstLapIsUnique == Spec => []FirstLapUnique
<1>1. FirstLap => FirstLapUnique
  BY DEF FirstLap, FirstLapUnique, HeldFromCounter, HeldDistinct, Holding, InFlight, getExtra
<1> QED BY <1>1, FirstLapHolds, PTL

\* The reserved identifier 0 never gets an entry in the table (util.go:104).
THEOREM ZeroIsNeverUsed == Spec => []ZeroNeverUsed
<1>1. Init => ZeroNeverUsed
  BY SpaceAssumption DEF Init, ZeroNeverUsed, getExtra, IDs
<1>2. ZeroNeverUsed /\ TypeOK /\ [Next]_vars => ZeroNeverUsed'
  <2> SUFFICES ASSUME ZeroNeverUsed, TypeOK, [Next]_vars PROVE ZeroNeverUsed'
    OBVIOUS
  <2>0. 0 \in IDs
    BY SpaceAssumption DEF IDs
  <2>1. ASSUME NEW c \in Callers, NextSet(c) PROVE ZeroNeverUsed'
    BY <2>0, <2>1 DEF NextSet, ZeroNeverUsed, getExtra, TypeOK
  <2>2. ASSUME NEW i \in IDs, Free(i) PROVE ZeroNeverUsed'
    BY <2>0, <2>2 DEF Free, ZeroNeverUsed, getExtra, TypeOK
  <2>3. CASE UNCHANGED usedIDs
    BY <2>3 DEF ZeroNeverUsed, getExtra
  <2> QED
    BY <2>1, <2>2, <2>3 DEF Next, NextStep, NextStart, NextReset, NextFirst,
                            NextGiveUp, NextTry, NextPost, Retry, vars
<1> QED BY <1>1, <1>2, TypeCorrect, PTL DEF Spec

\* Until the counter has gone round once, the generator implements the
\* abstract pool: it hands out free identifiers only and frees used ones only.
THEOREM FirstLapImplementsPool == Spec => FirstLapIsPool
<1>1. TypeOK /\ FirstLap /\ [Next]_vars => [~wrapped' => Pool!Next]_usedIDs
  <2> SUFFICES ASSUME TypeOK, FirstLap, [Next]_vars, usedIDs' # usedIDs, ~wrapped'
               PROVE  Pool!Next
    OBVIOUS
  <2>1. ASSUME NEW c \in Callers, NextSet(c) PROVE Pool!Next
    <3>1. ~wrapped
      BY <2>1 DEF NextSet
    <3>2. id[c] \in IDs /\ id[c] # 0 /\ usedIDs[id[c]] = NoExtra
      BY <2>1, <3>1 DEF NextSet, FirstLap, HeldFromCounter, Holding, TypeOK, IDs
    <3>3. Pool!Acquire(c, id[c])
      BY <2>1, <3>2 DEF NextSet, Pool!Acquire, IDs
    <3> QED BY <3>2, <3>3 DEF Pool!Next
  <2>2. ASSUME NEW i \in IDs, Free(i) PROVE Pool!Next
    BY <2>2 DEF Free, getExtra, Pool!Next, Pool!Release
  <2> QED
    BY <2>1, <2>2 DEF Next, NextStep, NextStart, NextReset, NextFirst,
                      NextGiveUp, NextTry, NextPost, Retry, vars
<1> QED BY <1>1, TypeCorrect, FirstLapHolds, PTL DEF Spec, FirstLapIsPool
=============================================================================
