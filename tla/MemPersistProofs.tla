-------------------------- MODULE MemPersistProofs --------------------------
(***************************************************************************)
(* Theorems about MemPersist, for every strategy and for any finite number *)
(* of keys and of goroutines.                                              *)
(*                                                                         *)
(* Capacity is not inductive: it follows from what the counter and the     *)
(* goroutines between the test and the increment add up to (Passing), and  *)
(* from the keys ever stored being covered by that sum (Covered).          *)
(***************************************************************************)
EXTENDS MemPersist, FiniteSetTheorems, TLAPS

\* Whoever passed the test did so with n below the limit.
Passing == Limited => n + Cardinality(Passed) <= MaxCount - 1 + Cardinality(Storers)

\* Only keys that LoadOrStore has stored once are in the map or about to be
\* written by a replacement.
OnlyKnown ==
    /\ Stored \subseteq known
    /\ \A s \in Storers : pc[s] = "replace" => key[s] \in known

\* Every key ever stored has been counted or is about to be.
Covered == Limited => Cardinality(known) <= n + Cardinality(ToCount)

\* Only a strategy that replaces leads to the replacement.
Replaces == \A s \in Storers : pc[s] = "replace" => DuplicateReplace

\* The inductive invariant.
IInv == TypeOK /\ Passing /\ OnlyKnown /\ Covered

-----------------------------------------------------------------------------
\* The cardinalities that appear in the invariant are natural numbers.
LEMMA Finite ==
    ASSUME TypeOK
    PROVE  /\ IsFiniteSet(Passed) /\ Cardinality(Passed) \in Nat
           /\ IsFiniteSet(ToCount) /\ Cardinality(ToCount) \in Nat
           /\ Cardinality(Passed) <= Cardinality(Storers)
           /\ Cardinality(ToCount) <= Cardinality(Passed)
           /\ IsFiniteSet(known) /\ Cardinality(known) \in Nat
           /\ IsFiniteSet(Stored) /\ Cardinality(Stored) \in Nat
           /\ Cardinality(Storers) \in Nat
<1>1. Passed \in SUBSET Storers /\ ToCount \in SUBSET Passed /\ Stored \in SUBSET Keys
  BY DEF Passed, ToCount, Stored
<1>2. IsFiniteSet(Storers) /\ IsFiniteSet(Keys) /\ known \in SUBSET Keys
  BY StorersAssumption DEF TypeOK
<1>3. IsFiniteSet(Passed) /\ Cardinality(Passed) <= Cardinality(Storers)
  BY <1>1, <1>2, FS_Subset
<1>4. IsFiniteSet(ToCount) /\ Cardinality(ToCount) <= Cardinality(Passed)
  BY <1>1, <1>3, FS_Subset
<1>5. IsFiniteSet(known) /\ IsFiniteSet(Stored)
  BY <1>1, <1>2, FS_Subset
<1> QED BY <1>2, <1>3, <1>4, <1>5, FS_CardinalityType

\* The counter of a limited store does not wrap.
LEMMA CountStep ==
    ASSUME TypeOK, Passing, Limited, NEW s \in Storers, StoreCount(s)
    PROVE  n' = n + 1
<1>1. Cardinality(Storers) \in Nat /\ Cardinality(Passed) \in Nat
  BY Finite
<1>2. n \in Nat /\ n + 1 < CounterSpace
  BY <1>1, CounterAssumption, StrategyAssumption DEF Passing, TypeOK
<1>3. n' = (n + 1) % CounterSpace
  BY DEF StoreCount
<1> QED BY <1>2, <1>3, CounterAssumption

\* The fields and locals keep their types (persist.go:108-112, 138-156).
THEOREM TypeCorrect == Spec => []TypeOK
<1>1. Init => TypeOK
  <2>1. 0 \in 0 .. CounterSpace - 1
    BY CounterAssumption, StrategyAssumption, StorersAssumption, FS_CardinalityType
  <2> QED BY <2>1 DEF Init, TypeOK
<1>2. TypeOK /\ [Next]_vars => TypeOK'
  <2> SUFFICES ASSUME TypeOK, [Next]_vars PROVE TypeOK'
    OBVIOUS
  <2> USE DEF TypeOK, Goto
  <2>1. ASSUME NEW s \in Storers, NEW k \in Keys, NEW p \in Packets,
               StoreBegin(s, k, p) \/ StoreDrop(s, k, p)
        PROVE  TypeOK'
    BY <2>1 DEF StoreBegin, StoreDrop
  <2>2. ASSUME NEW s \in Storers, StoreError(s) PROVE TypeOK'
    BY <2>2 DEF StoreError
  <2>3. ASSUME NEW s \in Storers, StorePut(s) PROVE TypeOK'
    BY <2>3 DEF StorePut
  <2>4. ASSUME NEW s \in Storers, StoreCount(s) PROVE TypeOK'
    <3>1. CounterSpace \in Nat /\ CounterSpace > 0
      BY CounterAssumption, StrategyAssumption, StorersAssumption, FS_CardinalityType
    <3>2. (n + 1) % CounterSpace \in 0 .. CounterSpace - 1
      BY <3>1
    <3> QED BY <2>4, <3>2 DEF StoreCount
  <2>5. ASSUME NEW s \in Storers, StoreReplace(s) PROVE TypeOK'
    BY <2>5 DEF StoreReplace
  <2>6. ASSUME NEW k \in Keys, Delete(k) PROVE TypeOK'
    BY <2>6 DEF Delete
  <2>7. CASE Destroy
    BY <2>7 DEF Destroy
  <2>8. CASE UNCHANGED vars
    BY <2>8 DEF vars
  <2> QED BY <2>1, <2>2, <2>3, <2>4, <2>5, <2>6, <2>7, <2>8 DEF Next
<1> QED BY <1>1, <1>2, PTL DEF Spec

\* The rest of the invariant is preserved by every step.
LEMMA Inductive == TypeOK /\ TypeOK' /\ Passing /\ OnlyKnown /\ Covered /\ [Next]_vars
                       => Passing' /\ OnlyKnown' /\ Covered'
<1> SUFFICES ASSUME TypeOK, TypeOK', Passing, OnlyKnown, Covered, [Next]_vars
             PROVE  Passing' /\ OnlyKnown' /\ Covered'
  OBVIOUS
<1>f. /\ IsFiniteSet(Passed) /\ Cardinality(Passed) \in Nat
      /\ IsFiniteSet(ToCount) /\ Cardinality(ToCount) \in Nat
      /\ Cardinality(Passed) <= Cardinality(Storers)
      /\ IsFiniteSet(known) /\ Cardinality(known) \in Nat
      /\ Cardinality(Storers) \in Nat
  BY Finite
<1>n. n \in Nat /\ MaxCount \in Nat
  BY CounterAssumption, StrategyAssumption DEF TypeOK
<1>1. ASSUME NEW s \in Storers, NEW k \in Keys, NEW p \in Packets, StoreBegin(s, k, p)
      PROVE  Passing' /\ OnlyKnown' /\ Covered'
  <2>1. Passed' \in SUBSET Storers
    BY DEF Passed
  <2>2. Cardinality(Passed') \in Nat /\ Cardinality(Passed') <= Cardinality(Storers)
    BY <2>1, StorersAssumption, FS_Subset, FS_CardinalityType
  <2>3. Limited => n <= MaxCount - 1
    BY <1>1, <1>n DEF StoreBegin, Exceeds, Limited
  <2>4. Passing'
    BY <1>1, <1>f, <1>n, <2>2, <2>3 DEF Passing, StoreBegin, Limited
  <2>5. ToCount' = ToCount
    BY <1>1 DEF StoreBegin, ToCount, Goto, TypeOK
  <2>6. Covered'
    BY <1>1, <2>5 DEF Covered, StoreBegin, Limited
  <2>7. OnlyKnown'
    BY <1>1 DEF OnlyKnown, StoreBegin, Stored, Goto, TypeOK
  <2> QED BY <2>4, <2>6, <2>7
<1>2. ASSUME NEW s \in Storers,
             StoreError(s) \/ \E k \in Keys, p \in Packets : StoreDrop(s, k, p)
      PROVE  Passing' /\ OnlyKnown' /\ Covered'
  <2>1. Passed' = Passed /\ ToCount' = ToCount
    BY <1>2 DEF StoreDrop, StoreError, Passed, ToCount, Goto, TypeOK
  <2>2. UNCHANGED <<n, known, data>>
    BY <1>2 DEF StoreDrop, StoreError
  <2>3. OnlyKnown'
    BY <1>2 DEF OnlyKnown, StoreDrop, StoreError, Stored, Goto, TypeOK
  <2> QED BY <2>1, <2>2, <2>3 DEF Passing, Covered, Limited
<1>3. ASSUME NEW s \in Storers, StorePut(s)
      PROVE  Passing' /\ OnlyKnown' /\ Covered'
  <2>1. CASE data[key[s]] = NoPacket
    <3>1. Passed' = Passed /\ ToCount' = ToCount \cup {s} /\ s \notin ToCount
      BY <1>3, <2>1 DEF StorePut, Passed, ToCount, Goto, TypeOK
    <3>2. known' = known \cup {key[s]} /\ n' = n
      BY <1>3, <2>1 DEF StorePut
    <3>3. Cardinality(ToCount') = Cardinality(ToCount) + 1
      BY <1>f, <3>1, FS_AddElement
    <3>4. Cardinality(known') \in Nat /\ Cardinality(known') <= Cardinality(known) + 1
      <4>1. IsFiniteSet(known')
        BY <1>f, <3>2, FS_AddElement
      <4>2. Cardinality(known \cup {key[s]}) =
               IF key[s] \in known THEN Cardinality(known) ELSE Cardinality(known) + 1
        BY <1>f, FS_AddElement
      <4> QED BY <1>f, <3>2, <4>1, <4>2, FS_CardinalityType
    <3>5. Covered'
      BY <1>f, <1>n, <3>2, <3>3, <3>4 DEF Covered, Limited
    <3>6. OnlyKnown'
      BY <1>3, <2>1, <3>2 DEF OnlyKnown, StorePut, Stored, Goto, TypeOK
    <3> QED BY <3>1, <3>2, <3>5, <3>6 DEF Passing, Limited
  <2>2. CASE data[key[s]] # NoPacket
    <3>1. Passed' = Passed \ {s} /\ ToCount' = ToCount
      BY <1>3, <2>2 DEF StorePut, Passed, ToCount, Goto, TypeOK
    <3>2. UNCHANGED <<n, known, data>>
      BY <1>3, <2>2 DEF StorePut
    <3>3. Cardinality(Passed') \in Nat /\ Cardinality(Passed') <= Cardinality(Passed)
      <4>1. Passed' \in SUBSET Passed
        BY <3>1
      <4> QED BY <1>f, <4>1, FS_Subset, FS_CardinalityType
    <3>4. key[s] \in known
      BY <2>2 DEF OnlyKnown, Stored, TypeOK
    <3>5. OnlyKnown'
      BY <1>3, <2>2, <3>2, <3>4 DEF OnlyKnown, StorePut, Stored, Goto, TypeOK
    <3>6. Passing'
      BY <1>f, <1>n, <3>2, <3>3 DEF Passing, Limited
    <3> QED BY <3>1, <3>2, <3>5, <3>6 DEF Covered, Limited
  <2> QED BY <2>1, <2>2
<1>4. ASSUME NEW s \in Storers, StoreCount(s)
      PROVE  Passing' /\ OnlyKnown' /\ Covered'
  <2>1. Limited => n' = n + 1
    BY <1>4, CountStep
  <2>2. /\ Passed' = Passed \ {s} /\ s \in Passed
        /\ ToCount' = ToCount \ {s} /\ s \in ToCount
    BY <1>4 DEF StoreCount, Passed, ToCount, Goto, TypeOK
  <2>3. /\ Cardinality(Passed') = Cardinality(Passed) - 1
        /\ Cardinality(ToCount') = Cardinality(ToCount) - 1
    BY <1>f, <2>2, FS_RemoveElement
  <2>4. Passing'
    BY <1>f, <1>n, <2>1, <2>3 DEF Passing, Limited
  <2>5. Covered'
    BY <1>4, <1>f, <1>n, <2>1, <2>3 DEF Covered, Limited, StoreCount
  <2>6. OnlyKnown'
    BY <1>4 DEF OnlyKnown, StoreCount, Stored, Goto, TypeOK
  <2> QED BY <2>4, <2>5, <2>6
<1>5. ASSUME NEW s \in Storers, StoreReplace(s)
      PROVE  Passing' /\ OnlyKnown' /\ Covered'
  <2>1. Passed' = Passed /\ ToCount' = ToCount /\ UNCHANGED <<n, known>>
    BY <1>5 DEF StoreReplace, Passed, ToCount, Goto, TypeOK
  <2>2. OnlyKnown'
    BY <1>5 DEF OnlyKnown, StoreReplace, Stored, Goto, TypeOK
  <2> QED BY <2>1, <2>2 DEF Passing, Covered, Limited
<1>6. ASSUME Destroy \/ \E k \in Keys : Delete(k)
      PROVE  Passing' /\ OnlyKnown' /\ Covered'
  <2>1. UNCHANGED <<n, pc, key, pkt, known>> /\ Stored' \subseteq Stored
    BY <1>6 DEF Destroy, Delete, Stored, TypeOK
  <2>2. Passed' = Passed /\ ToCount' = ToCount
    BY <2>1 DEF Passed, ToCount
  <2>3. OnlyKnown'
    BY <2>1 DEF OnlyKnown
  <2>4. n' = n /\ known' = known
    BY <2>1
  <2>5. Passing'
    BY <2>2, <2>4 DEF Passing, Limited
  <2>6. Covered'
    BY <2>2, <2>4 DEF Covered, Limited
  <2> QED BY <2>3, <2>5, <2>6
<1>7. CASE UNCHANGED vars
  BY <1>7 DEF vars, Passing, OnlyKnown, Covered, Limited, Passed, ToCount, Stored
<1> QED BY <1>1, <1>2, <1>3, <1>4, <1>5, <1>6, <1>7 DEF Next

\* The invariant holds in every reachable state.
THEOREM InvariantHolds == Spec => []IInv
<1>1. Init => Passing /\ OnlyKnown /\ Covered
  <2> SUFFICES ASSUME Init PROVE Passing /\ OnlyKnown /\ Covered
    OBVIOUS
  <2>1. Passed = {} /\ ToCount = {} /\ Stored = {} /\ known = {} /\ n = 0
    BY DEF Init, Passed, ToCount, Stored
  <2>2. Cardinality({}) = 0
    BY FS_EmptySet
  <2>3. Cardinality(Storers) \in Nat
    BY StorersAssumption, FS_CardinalityType
  <2>4. OnlyKnown
    BY <2>1 DEF OnlyKnown, Init
  <2> QED BY <2>1, <2>2, <2>3, <2>4, StrategyAssumption DEF Passing, Covered, Limited
<1> QED BY <1>1, TypeCorrect, Inductive, PTL DEF Spec, IInv

\* The counter never falls behind what is stored, so that the test of the limit
\* is never too lenient (persist.go:143-151, 187-204).
THEOREM CounterCovers == Spec => []CountCovers
<1>1. IInv => CountCovers
  <2> SUFFICES ASSUME IInv PROVE CountCovers
    OBVIOUS
  <2>1. TypeOK /\ Covered /\ Stored \in SUBSET known
    BY DEF IInv, OnlyKnown
  <2>2. Cardinality(Stored) <= Cardinality(known)
    BY <2>1, Finite, FS_Subset
  <2> QED
    BY <2>1, <2>2, Finite DEF CountCovers, Covered, TypeOK
<1> QED BY <1>1, InvariantHolds, PTL

\* A limited store overshoots its limit by at most the number of goroutines
\* that call Store, less one (persist.go:143-151).
THEOREM CapacityHolds == Spec => []Capacity
<1>1. IInv => Capacity
  <2> SUFFICES ASSUME IInv PROVE Capacity
    OBVIOUS
  <2>1. TypeOK /\ Covered /\ Passing /\ Stored \in SUBSET known
    BY DEF IInv, OnlyKnown
  <2>2. Cardinality(Stored) <= Cardinality(known)
    BY <2>1, Finite, FS_Subset
  <2>3. n \in Nat /\ MaxCount \in Nat
    BY <2>1, CounterAssumption, StrategyAssumption DEF TypeOK
  <2> QED
    BY <2>1, <2>2, <2>3, Finite DEF Capacity, Covered, Passing
<1> QED BY <1>1, InvariantHolds, PTL

\* The strategy is given once, to NewMemPersist.
LEMMA ReplaceIsFixed == [Next]_vars => DuplicateReplace' = DuplicateReplace
BY DEF Next, vars, StoreBegin, StoreDrop, StoreError, StorePut, StoreCount, StoreReplace, Delete, Destroy

\* The second map operation of Store is reached with DuplicateReplace only.
LEMMA ReplacesIfAsked == Spec => []Replaces
<1>1. Init => Replaces
  BY DEF Init, Replaces
<1>2. TypeOK /\ Replaces /\ [Next]_vars => Replaces'
  BY DEF TypeOK, Replaces, Next, vars, Goto, StoreBegin, StoreDrop, StoreError, StorePut,
         StoreCount, StoreReplace, Delete, Destroy
<1> QED BY <1>1, <1>2, TypeCorrect, PTL DEF Spec

\* Every step of memPersist is a step of the abstract store, or leaves the map
\* alone: the atomic operations of the concurrent calls put, replace and remove
\* packets one at a time and within the capacity (persist.go:138-204).
THEOREM ImplementsPacketStore == Spec => IsPacketStore
<1>1. Init => Store!Init
  BY DEF Init, Store!Init
<1>2. TypeOK /\ Replaces /\ Capacity' /\ [Next]_vars => [Store!Next]_<<data, DuplicateReplace>>
  <2> SUFFICES ASSUME TypeOK, Replaces, Capacity', [Next]_vars,
                      <<data, DuplicateReplace>>' # <<data, DuplicateReplace>>
               PROVE  Store!Next
    OBVIOUS
  <2>0. DuplicateReplace' = DuplicateReplace /\ data' # data
    BY ReplaceIsFixed
  <2>1. Fits({j \in Keys : data'[j] # NoPacket})
    BY DEF Fits, Capacity, Stored, Limited
  <2>2. ASSUME NEW s \in Storers, StorePut(s) \/ StoreReplace(s) PROVE Store!Next
    <3>1. key[s] \in Keys /\ pkt[s] \in Packets
      BY DEF TypeOK
    <3>2. data[key[s]] = NoPacket \/ DuplicateReplace
      BY <2>2 DEF StorePut, StoreReplace, Replaces
    <3>3. Store!Put(key[s], pkt[s])
      BY <2>1, <2>2, <3>2 DEF StorePut, StoreReplace, Store!Put
    <3> QED BY <2>0, <3>1, <3>3 DEF Store!Next
  <2>3. ASSUME NEW k \in Keys, Delete(k) PROVE Store!Next
    BY <2>0, <2>3 DEF Delete, Store!Next, Store!Remove
  <2>4. CASE Destroy
    BY <2>0, <2>4 DEF Destroy, Store!Next, Store!Clear
  <2> QED
    BY <2>0, <2>2, <2>3, <2>4
    DEF Next, vars, StoreBegin, StoreDrop, StoreError, StoreCount
<1> QED BY <1>1, <1>2, TypeCorrect, ReplacesIfAsked, CapacityHolds, PTL DEF Spec, IsPacketStore, Store!Spec
=============================================================================
