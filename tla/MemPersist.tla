----------------------------- MODULE MemPersist -----------------------------
(***************************************************************************)
(* memPersist of persist.go: the packets of a session kept in a sync.Map,  *)
(* with a counter n and a strategy that may limit how many there are.      *)
(*                                                                         *)
(* Store is called by every Publish and by the logic() and handleSend()    *)
(* goroutines of every connection, Delete by the latter two.  Store is not *)
(* atomic: the test of the limit, LoadOrStore, the increment and the       *)
(* replacement are separate steps here.  Delete and Destroy are one each.  *)
(***************************************************************************)
EXTENDS Integers, FiniteSets

CONSTANTS
    Keys,              \* sendKey(id), recvKey(id)
    Packets,
    NoPacket,          \* the key is absent
    Storers,           \* goroutines that call Store
    MaxCount,          \* PersistStrategy.MaxCount, 0 for no limit
    DropOnExceed,      \* PersistStrategy.DropOnExceed
    CounterSpace       \* number of uint32 values (2^32 in the code)

ASSUME StrategyAssumption ==
    MaxCount \in Nat /\ DropOnExceed \in BOOLEAN

ASSUME StorersAssumption ==
    IsFiniteSet(Storers) /\ IsFiniteSet(Keys) /\ NoPacket \notin Packets

\* The counter does not wrap before a limited store is full.
ASSUME CounterAssumption ==
    CounterSpace \in Nat /\ CounterSpace > MaxCount + Cardinality(Storers)

VARIABLES
    DuplicateReplace,  \* PersistStrategy.DuplicateReplace, as given to NewMemPersist
    data,    \* memPersist.data
    n,       \* memPersist.n, a uint32
    pc,      \* per goroutine: the next step of Store
    key,     \* per goroutine: the arguments of its last Store (at first
    pkt,     \* of none: any value)
    known    \* history: the keys that LoadOrStore has ever stored

vars == <<DuplicateReplace, data, n, pc, key, pkt, known>>

Stored  == {k \in Keys : data[k] # NoPacket}
Passed  == {s \in Storers : pc[s] \in {"put", "count"}}
ToCount == {s \in Storers : pc[s] = "count"}
Limited == MaxCount > 0 /\ DropOnExceed

\* NewMemPersist
Init ==
    /\ DuplicateReplace \in BOOLEAN
    /\ data  = [k \in Keys |-> NoPacket]
    /\ n     = 0
    /\ pc    = [s \in Storers |-> "idle"]
    /\ key   \in [Storers -> Keys]
    /\ pkt   \in [Storers -> Packets]
    /\ known = {}

Goto(s, label) == pc' = [pc EXCEPT ![s] = label]

\* Mutant: the limit is exceeded by one.
ExceedsByOne == MaxCount > 0 /\ n > MaxCount /\ DropOnExceed

\* The condition that drops a packet.
Exceeds == MaxCount > 0 /\ n >= MaxCount /\ DropOnExceed

\* Store(k, p), up to the test of the limit, returning the error if it fails.
StoreBegin(s, k, p) ==
    /\ pc[s] = "idle"
    /\ ~Exceeds
    /\ key' = [key EXCEPT ![s] = k]
    /\ pkt' = [pkt EXCEPT ![s] = p]
    /\ Goto(s, "put")
    /\ UNCHANGED <<DuplicateReplace, data, n, known>>

StoreDrop(s, k, p) ==
    /\ pc[s] = "idle"
    /\ Exceeds
    /\ key' = [key EXCEPT ![s] = k]
    /\ pkt' = [pkt EXCEPT ![s] = p]
    /\ Goto(s, "dropped")
    /\ UNCHANGED <<DuplicateReplace, data, n, known>>

\* return ErrPacketDroppedByStrategy
StoreError(s) ==
    /\ pc[s] = "dropped"
    /\ Goto(s, "idle")
    /\ UNCHANGED <<DuplicateReplace, data, n, key, pkt, known>>

\* Mutant: a new key is not counted.
StorePutUncounted(s) ==
    /\ pc[s] = "put"
    /\ IF data[key[s]] = NoPacket
       THEN /\ data' = [data EXCEPT ![key[s]] = pkt[s]]
            /\ known' = known \cup {key[s]}
            /\ Goto(s, "idle")
       ELSE /\ Goto(s, IF DuplicateReplace THEN "replace" ELSE "idle")
            /\ UNCHANGED <<data, known>>
    /\ UNCHANGED <<DuplicateReplace, n, key, pkt>>

\* Mutant: m.data.Load(key), and m.data.Store(key, p) in a step of its own.
StorePutLoadStore(s) ==
    \/ /\ pc[s] = "put" /\ data[key[s]] = NoPacket
       /\ Goto(s, "absent")
       /\ UNCHANGED <<DuplicateReplace, data, n, key, pkt, known>>
    \/ /\ pc[s] = "put" /\ data[key[s]] # NoPacket
       /\ Goto(s, IF DuplicateReplace THEN "replace" ELSE "idle")
       /\ UNCHANGED <<DuplicateReplace, data, n, key, pkt, known>>
    \/ /\ pc[s] = "absent"
       /\ data' = [data EXCEPT ![key[s]] = pkt[s]]
       /\ known' = known \cup {key[s]}
       /\ Goto(s, "count")
       /\ UNCHANGED <<DuplicateReplace, n, key, pkt>>

\* m.data.LoadOrStore(key, p)
StorePut(s) ==
    /\ pc[s] = "put"
    /\ IF data[key[s]] = NoPacket
       THEN /\ data' = [data EXCEPT ![key[s]] = pkt[s]]
            /\ known' = known \cup {key[s]}
            /\ Goto(s, "count")
       ELSE /\ Goto(s, IF DuplicateReplace THEN "replace" ELSE "idle")
            /\ UNCHANGED <<data, known>>
    /\ UNCHANGED <<DuplicateReplace, n, key, pkt>>

\* atomic.AddUint32(&m.n, 1)
StoreCount(s) ==
    /\ pc[s] = "count"
    /\ n' = (n + 1) % CounterSpace
    /\ Goto(s, "idle")
    /\ UNCHANGED <<DuplicateReplace, data, key, pkt, known>>

\* m.data.Store(key, p), although the key may be gone again
StoreReplace(s) ==
    /\ pc[s] = "replace"
    /\ data' = [data EXCEPT ![key[s]] = pkt[s]]
    /\ Goto(s, "idle")
    /\ UNCHANGED <<DuplicateReplace, n, key, pkt, known>>

\* Mutant: every Delete counts down, whether or not the key is there.
DeleteCounting(k) ==
    /\ data' = [data EXCEPT ![k] = NoPacket]
    /\ n' = n - 1
    /\ UNCHANGED <<DuplicateReplace, pc, key, pkt, known>>

\* Delete(k): the counter is left alone.
Delete(k) ==
    /\ data' = [data EXCEPT ![k] = NoPacket]
    /\ UNCHANGED <<DuplicateReplace, n, pc, key, pkt, known>>

\* Destroy: a new map, the same counter.
Destroy ==
    /\ data' = [k \in Keys |-> NoPacket]
    /\ UNCHANGED <<DuplicateReplace, n, pc, key, pkt, known>>

Next ==
    \/ \E s \in Storers :
         \/ \E k \in Keys, p \in Packets : StoreBegin(s, k, p) \/ StoreDrop(s, k, p)
         \/ StoreError(s) \/ StorePut(s) \/ StoreCount(s) \/ StoreReplace(s)
    \/ \E k \in Keys : Delete(k)
    \/ Destroy

Spec == Init /\ [][Next]_vars

-----------------------------------------------------------------------------
TypeOK ==
    /\ data \in [Keys -> Packets \cup {NoPacket}]
    /\ DuplicateReplace \in BOOLEAN /\ n \in 0 .. CounterSpace - 1
    /\ pc \in [Storers -> {"idle", "dropped", "put", "count", "replace"}]
    /\ key \in [Storers -> Keys]
    /\ pkt \in [Storers -> Packets]
    /\ known \subseteq Keys

\* A store with a limit overshoots it by no more than the number of
\* goroutines that passed the test together, less one (persist.go:143-151).
Capacity ==
    Limited => Cardinality(Stored) <= MaxCount - 1 + Cardinality(Storers)

\* The counter never falls behind the store, whatever was deleted, destroyed
\* or brought back by a replacement: the limit cannot be undercounted.
CountCovers ==
    Limited => Cardinality(Stored) <= n + Cardinality(ToCount)

\* The packets there may be, the overshoot included.
Fits(S) == Limited => Cardinality(S) <= MaxCount - 1 + Cardinality(Storers)

Store == INSTANCE PacketStore
         WITH held <- data, replace <- DuplicateReplace

\* However the steps of Store interleave with each other, with Delete and with
\* Destroy, the map behaves as the abstract store: where the strategy does not
\* replace, the packet of the first of several Stores of a key stays until it
\* is deleted, and where it does, no packet is put where none fits, the ones
\* that a replacement brings back included (persist.go:138-156).
IsPacketStore == Store!Spec

\* "for memory persist, means max in memory count" (persist.go:48).
MaxInMemory == Limited => Cardinality(Stored) <= MaxCount

\* "DropOnExceed defines how to tackle with packets incoming when max count
\* is reached" (persist.go:52-53): a packet is dropped only then.
DropOnlyWhenFull ==
    [][\A s \in Storers :
         pc[s] = "idle" /\ pc'[s] = "dropped" => Cardinality(Stored) >= MaxCount]_vars
=============================================================================
