---------------------------- MODULE FilePersist -----------------------------
(***************************************************************************)
(* filePersist of persist.go: the packets of a session kept as files of a  *)
(* directory, behind a buffer in memory that the goroutine worker() writes *)
(* out after strategy.Interval.                                            *)
(*                                                                         *)
(* Store runs in the goroutines of the client, worker() in goroutines that *)
(* Store starts when it finds the counter inMemSize at zero, and both call *)
(* store(), which writes one file.  Every access to the buffer, to a       *)
(* counter and to the directory is an action; a crash may come between any *)
(* two of them, and between the truncation of a file and its write.        *)
(***************************************************************************)
EXTENDS Integers, FiniteSets

CONSTANTS
    Keys,              \* sendKey(id), recvKey(id)
    Packets,
    NoPacket,          \* no entry of the buffer, no file
    NoKey,             \* the argument of a goroutine that is in no call
    Torn,              \* the content of a file that was truncated and not yet written
    Storers,           \* goroutines that call Store
    Workers,           \* bound: goroutines in worker() at once
    Strategies,        \* the strategies the store may be made with
    CounterSpace,      \* number of uint32 values (2^32 in the code)
    MaxStores,         \* bound: calls of Store
    MaxFaults          \* bound: crashes and failed writes

Threads == Storers \cup Workers

\* Interval 0 means to write at once, MaxCount 0 no limit.
PersistStrategy ==
    [Interval : Nat, MaxCount : Nat, DropOnExceed : BOOLEAN, DuplicateReplace : BOOLEAN]

ASSUME StrategyAssumption ==
    /\ Strategies \subseteq PersistStrategy
    /\ CounterSpace \in Nat /\ CounterSpace > 1

ASSUME PacketsAssumption ==
    /\ NoPacket \notin Packets /\ Torn \notin Packets /\ Torn # NoPacket
    /\ NoKey \notin Keys
    /\ Storers \cap Workers = {}

ASSUME BoundsAssumption == MaxStores \in Nat /\ MaxFaults \in Nat

\* A file of the directory: the key, with or without the suffix.
fileSuffix     == ".mqtt"
Names          == Keys \X {"", fileSuffix}
getFilename(k) == <<k, fileSuffix>>

VARIABLES
    strategy,   \* filePersist.strategy
    dir,        \* the directory exists
    file,       \* the content of its files
    inMemBuf,   \* filePersist.inMemBuf
    inMemSize,  \* filePersist.inMemSize, a uint32
    n,          \* filePersist.n, a uint32
    pc,         \* per goroutine: its next step
    key,        \* per goroutine: the arguments of Store or store()
    pkt,
    seen,       \* per goroutine: a counter it has loaded
    starts,     \* per goroutine in Store: the deferred start of a worker
    rest,       \* per worker: keys that Range has still to visit
    persisted,  \* per worker: persistedKeys
    calls,      \* calls of Store so far
    faults,     \* crashes and failed writes so far
    \* History of this process:
    kept,       \* keys accepted by Store and not since deleted or destroyed
    failed,     \* keys of which a write failed
    \* History of the directory, which a crash leaves alone:
    written,    \* keys of which a write was completed, not since deleted or destroyed
    cut         \* keys of which the last write to end was cut short

fileVars   == <<dir, file>>
countVars  == <<inMemSize, n>>
argVars    == <<key, pkt>>
rangeVars  == <<rest, persisted>>
boundVars  == <<calls, faults>>
procVars   == <<kept, failed>>
diskVars   == <<written, cut>>
histVars   == <<procVars, diskVars>>
vars == <<strategy, fileVars, inMemBuf, countVars, pc, argVars, seen, starts, rangeVars,
          boundVars, histVars>>

Limited == strategy.MaxCount > 0 /\ strategy.DropOnExceed

\* The result of Load(k): the file is there and Decode accepts its content.
Loadable(k) == file[getFilename(k)] \in Packets

\* os.Open(m.getFilename(key)) finds the file
exists(k) == file[getFilename(k)] # NoPacket

\* NewFilePersist on an empty directory
Init ==
    /\ strategy \in Strategies
    /\ dir = TRUE
    /\ file      = [f \in Names |-> NoPacket]
    /\ inMemBuf  = [k \in Keys |-> NoPacket]
    /\ inMemSize = 0 /\ n = 0
    /\ pc        = [t \in Threads |-> "idle"]
    /\ key       = [t \in Threads |-> NoKey]
    /\ pkt       = [t \in Threads |-> NoPacket]
    /\ seen      = [t \in Threads |-> 0]
    /\ starts    = [s \in Storers |-> FALSE]
    /\ rest      = [w \in Workers |-> {}]
    /\ persisted = [w \in Workers |-> {}]
    /\ calls = 0 /\ faults = 0
    /\ kept = {} /\ failed = {} /\ written = {} /\ cut = {}

Goto(t, label) == pc' = [pc EXCEPT ![t] = label]

\* The arguments of t go out of scope, or stay in scope.
Done(t, over) ==
    /\ key' = IF over THEN [key EXCEPT ![t] = NoKey] ELSE key
    /\ pkt' = IF over THEN [pkt EXCEPT ![t] = NoPacket] ELSE pkt

-----------------------------------------------------------------------------
(* Store(k, p) *)

\* The call; with a limit, atomic.LoadUint32(&m.n) is its first step.
StoreBegin(s, k, p) ==
    /\ pc[s] = "idle" /\ calls < MaxStores
    /\ calls' = calls + 1
    /\ key' = [key EXCEPT ![s] = k]
    /\ pkt' = [pkt EXCEPT ![s] = p]
    /\ seen' = [seen EXCEPT ![s] = IF Limited THEN n ELSE @]
    /\ Goto(s, IF Limited THEN "limit" ELSE "exists")
    /\ UNCHANGED <<strategy, fileVars, inMemBuf, countVars, starts, rangeVars, faults, histVars>>

\* ... + atomic.LoadUint32(&m.inMemSize) >= strategy.MaxCount: ErrPacketDroppedByStrategy
StoreLimit(s) ==
    /\ pc[s] = "limit"
    /\ LET drops == (seen[s] + inMemSize) % CounterSpace >= strategy.MaxCount IN
       /\ Goto(s, IF drops THEN "idle" ELSE "exists")
       /\ Done(s, drops)
    /\ seen' = [seen EXCEPT ![s] = 0]
    /\ UNCHANGED <<strategy, fileVars, inMemBuf, countVars, starts, rangeVars, boundVars, histVars>>

\* A duplicate is dropped without an error; only the file counts, not the buffer.
StoreExists(s) ==
    /\ pc[s] = "exists"
    /\ LET drops == exists(key[s]) /\ ~strategy.DuplicateReplace IN
       /\ Goto(s, IF drops THEN "idle" ELSE IF strategy.Interval > 0 THEN "schedule" ELSE "create")
       /\ Done(s, drops)
    /\ UNCHANGED <<strategy, fileVars, inMemBuf, countVars, seen, starts, rangeVars,
                   boundVars, histVars>>

\* if atomic.LoadUint32(&m.inMemSize) == 0 { defer ... }
StoreSchedule(s) ==
    /\ pc[s] = "schedule"
    /\ starts' = [starts EXCEPT ![s] = (inMemSize = 0)]
    /\ Goto(s, "buffer")
    /\ UNCHANGED <<strategy, fileVars, inMemBuf, countVars, argVars, seen, rangeVars,
                   boundVars, histVars>>

\* m.inMemBuf.Store(key, p)
StoreBuffer(s) ==
    /\ pc[s] = "buffer"
    /\ inMemBuf' = [inMemBuf EXCEPT ![key[s]] = pkt[s]]
    /\ kept' = IF dir THEN kept \cup {key[s]} ELSE kept
    /\ Goto(s, "add")
    /\ UNCHANGED <<strategy, fileVars, countVars, argVars, seen, starts, rangeVars,
                   boundVars, failed, diskVars>>

\* atomic.AddUint32(&m.inMemSize, 1), the return, and the deferred go m.worker()
StoreAdd(s) ==
    /\ pc[s] = "add"
    /\ inMemSize' = (inMemSize + 1) % CounterSpace
    /\ IF starts[s]
       THEN \E w \in Workers :
              /\ pc[w] = "idle"
              /\ pc' = [pc EXCEPT ![s] = "idle", ![w] = "sleep"]
       ELSE Goto(s, "idle")
    /\ starts' = [starts EXCEPT ![s] = FALSE]
    /\ Done(s, TRUE)
    /\ UNCHANGED <<strategy, fileVars, inMemBuf, n, seen, rangeVars, boundVars, histVars>>

-----------------------------------------------------------------------------
(* store(key, p), called by Store and by worker(). *)

\* What follows store(): Store returns, Range goes on.  An error is the
\* result of Store; worker() ignores it.
Returned(t) ==
    /\ Goto(t, IF t \in Storers THEN "idle" ELSE "range")
    /\ persisted' = IF t \in Storers THEN persisted
                    ELSE [persisted EXCEPT ![t] = @ \cup {key[t]}]
    /\ Done(t, TRUE)

\* ioutil.WriteFile opens and truncates the file
Create(t) ==
    /\ pc[t] = "create" /\ dir
    /\ file' = [file EXCEPT ![getFilename(key[t])] = Torn]
    /\ Goto(t, "write")
    /\ UNCHANGED <<strategy, dir, inMemBuf, countVars, argVars, seen, starts, rangeVars,
                   boundVars, histVars>>

\* ... and cannot when the directory was destroyed, or for a reason of the
\* system's, no descriptor being left
CreateFailed(t) ==
    /\ pc[t] = "create"
    /\ \/ ~dir /\ UNCHANGED faults
       \/ dir /\ faults < MaxFaults /\ faults' = faults + 1
    /\ Returned(t)
    /\ failed' = failed \cup {key[t]}
    /\ UNCHANGED <<strategy, fileVars, inMemBuf, countVars, seen, starts, rest, calls, kept, diskVars>>

\* ... and writes it; a file removed meanwhile stays removed.
Write(t) ==
    /\ pc[t] = "write"
    /\ file' = [file EXCEPT ![getFilename(key[t])] = IF @ = NoPacket THEN NoPacket ELSE pkt[t]]
    /\ kept' = IF t \in Storers /\ dir THEN kept \cup {key[t]} ELSE kept
    /\ IF exists(key[t])
       THEN written' = written \cup {key[t]} /\ cut' = cut \ {key[t]}
       ELSE UNCHANGED diskVars
    /\ Goto(t, "count")
    /\ UNCHANGED <<strategy, dir, inMemBuf, countVars, argVars, seen, starts, rangeVars,
                   boundVars, failed>>

\* ... or fails to, the disk being full.
WriteFailed(t) ==
    /\ pc[t] = "write" /\ faults < MaxFaults
    /\ faults' = faults + 1
    /\ Returned(t)
    /\ failed' = failed \cup {key[t]} /\ cut' = cut \cup {key[t]}
    /\ UNCHANGED <<strategy, fileVars, inMemBuf, countVars, seen, starts, rest, calls, kept, written>>

\* atomic.AddUint32(&m.n, 1)
CountWritten(t) ==
    /\ pc[t] = "count"
    /\ n' = (n + 1) % CounterSpace
    /\ Goto(t, "load")
    /\ UNCHANGED <<strategy, fileVars, inMemBuf, inMemSize, argVars, seen, starts, rangeVars,
                   boundVars, histVars>>

\* atomic.LoadUint32(&m.inMemSize)
LoadSize(t) ==
    /\ pc[t] = "load"
    /\ seen' = [seen EXCEPT ![t] = inMemSize]
    /\ Goto(t, "uncount")
    /\ UNCHANGED <<strategy, fileVars, inMemBuf, countVars, argVars, starts, rangeVars,
                   boundVars, histVars>>

\* Mutant: the counter goes below zero instead of wrapping.
StoreSizeUncut(t) ==
    /\ pc[t] = "uncount"
    /\ inMemSize' = seen[t] - 1
    /\ seen' = [seen EXCEPT ![t] = 0]
    /\ Returned(t)
    /\ UNCHANGED <<strategy, fileVars, inMemBuf, n, starts, rest, boundVars, histVars>>

\* atomic.StoreUint32(&m.inMemSize, loaded - 1): not one atomic operation
StoreSize(t) ==
    /\ pc[t] = "uncount"
    /\ inMemSize' = (seen[t] - 1) % CounterSpace
    /\ seen' = [seen EXCEPT ![t] = 0]
    /\ Returned(t)
    /\ UNCHANGED <<strategy, fileVars, inMemBuf, n, starts, rest, boundVars, histVars>>

-----------------------------------------------------------------------------
(* worker() *)

\* time.Sleep is over; Range starts on what is buffered now.
WorkerWake(w) ==
    /\ pc[w] = "sleep"
    /\ rest' = [rest EXCEPT ![w] = {k \in Keys : inMemBuf[k] # NoPacket}]
    /\ Goto(w, "range")
    /\ UNCHANGED <<strategy, fileVars, inMemBuf, countVars, argVars, seen, starts, persisted,
                   boundVars, histVars>>

\* Mutant: a packet leaves the buffer before it is written.
WorkerVisitTake(w, k) ==
    /\ pc[w] = "range"
    /\ inMemBuf[k] # NoPacket /\ k \notin persisted[w]
    /\ rest' = [rest EXCEPT ![w] = @ \ {k}]
    /\ key' = [key EXCEPT ![w] = k]
    /\ pkt' = [pkt EXCEPT ![w] = inMemBuf[k]]
    /\ inMemBuf' = [inMemBuf EXCEPT ![k] = NoPacket]
    /\ Goto(w, "create")
    /\ UNCHANGED <<strategy, fileVars, countVars, seen, starts, persisted, boundVars, histVars>>

\* Range visits a key once; a key stored after its start may be visited or not.
WorkerVisit(w, k) ==
    /\ pc[w] = "range"
    /\ inMemBuf[k] # NoPacket /\ k \notin persisted[w]
    /\ rest' = [rest EXCEPT ![w] = @ \ {k}]
    /\ key' = [key EXCEPT ![w] = k]
    /\ pkt' = [pkt EXCEPT ![w] = inMemBuf[k]]
    /\ Goto(w, "create")
    /\ UNCHANGED <<strategy, fileVars, inMemBuf, countVars, seen, starts, persisted,
                   boundVars, histVars>>

\* Mutant: the function given to Range may end it.
WorkerRangedEarly(w) ==
    /\ pc[w] = "range"
    /\ rest' = [rest EXCEPT ![w] = {}]
    /\ Goto(w, "delete")
    /\ UNCHANGED <<strategy, fileVars, inMemBuf, countVars, argVars, seen, starts, persisted,
                   boundVars, histVars>>

\* Every key that was there from the start has been visited or is gone.
WorkerRanged(w) ==
    /\ pc[w] = "range"
    /\ \A k \in rest[w] : inMemBuf[k] = NoPacket
    /\ rest' = [rest EXCEPT ![w] = {}]
    /\ Goto(w, "delete")
    /\ UNCHANGED <<strategy, fileVars, inMemBuf, countVars, argVars, seen, starts, persisted,
                   boundVars, histVars>>

\* m.inMemBuf.Delete(k), whatever the buffer holds under k by now
WorkerDelete(w, k) ==
    /\ pc[w] = "delete" /\ k \in persisted[w]
    /\ inMemBuf' = [inMemBuf EXCEPT ![k] = NoPacket]
    /\ persisted' = [persisted EXCEPT ![w] = @ \ {k}]
    /\ UNCHANGED <<strategy, fileVars, countVars, pc, argVars, seen, starts, rest,
                   boundVars, histVars>>

\* if atomic.LoadUint32(&m.inMemSize) > 0 { m.worker() }
WorkerAgain(w) ==
    /\ pc[w] = "delete" /\ persisted[w] = {}
    /\ Goto(w, IF inMemSize > 0 THEN "sleep" ELSE "idle")
    /\ UNCHANGED <<strategy, fileVars, inMemBuf, countVars, argVars, seen, starts, rangeVars,
                   boundVars, histVars>>

-----------------------------------------------------------------------------
\* os.Remove(path.Join(m.dirPath, key)): the name without the suffix.  The
\* caller no longer counts on the packet.
Delete(k) ==
    /\ file' = [file EXCEPT ![<<k, "">>] = NoPacket]
    /\ kept' = kept \ {k} /\ written' = written \ {k}
    /\ UNCHANGED <<strategy, dir, inMemBuf, countVars, pc, argVars, seen, starts, rangeVars,
                   boundVars, failed, cut>>

\* os.RemoveAll(m.dirPath): the buffer and the counters stay.
Destroy ==
    /\ dir' = FALSE
    /\ file' = [f \in Names |-> NoPacket]
    /\ kept' = {} /\ written' = {}
    /\ UNCHANGED <<strategy, inMemBuf, countVars, pc, argVars, seen, starts, rangeVars,
                   boundVars, failed, cut>>

\* The process dies, and with it the buffer, the counters and the goroutines;
\* the directory stays as it is, with the files that were being written.
Died ==
    /\ faults < MaxFaults
    /\ faults' = faults + 1
    /\ inMemBuf'  = [k \in Keys |-> NoPacket]
    /\ inMemSize' = 0 /\ n' = 0
    /\ pc'        = [t \in Threads |-> "idle"]
    /\ key'       = [t \in Threads |-> NoKey]
    /\ pkt'       = [t \in Threads |-> NoPacket]
    /\ seen'      = [t \in Threads |-> 0]
    /\ starts'    = [s \in Storers |-> FALSE]
    /\ rest'      = [w \in Workers |-> {}]
    /\ persisted' = [w \in Workers |-> {}]
    /\ kept' = {} /\ failed' = {}
    /\ cut' = cut \cup {key[t] : t \in {u \in Threads : pc[u] = "write"}}
    /\ UNCHANGED <<strategy, calls, written>>

\* Mutant: a new store begins with an empty directory.
RestartEmpty == Died /\ dir' = TRUE /\ file' = [f \in Names |-> NoPacket]

\* A new process calls NewFilePersist, the directory made if need be.  Walk
\* hands the directory itself to the function first, which answers SkipDir: no
\* file is counted.
Restart == Died /\ dir' = TRUE /\ UNCHANGED file

ThreadStep(t) ==
    \/ Create(t) \/ CreateFailed(t) \/ Write(t) \/ WriteFailed(t)
    \/ CountWritten(t) \/ LoadSize(t) \/ StoreSize(t)

StoreStep(s) ==
    \/ StoreLimit(s) \/ StoreExists(s) \/ StoreSchedule(s) \/ StoreBuffer(s) \/ StoreAdd(s)
    \/ ThreadStep(s)

WorkerStep(w) ==
    \/ WorkerWake(w) \/ WorkerRanged(w) \/ WorkerAgain(w)
    \/ \E k \in Keys : WorkerVisit(w, k) \/ WorkerDelete(w, k)
    \/ ThreadStep(w)

Next ==
    \/ \E s \in Storers, k \in Keys, p \in Packets : StoreBegin(s, k, p)
    \/ \E s \in Storers : StoreStep(s)
    \/ \E w \in Workers : WorkerStep(w)
    \/ \E k \in Keys : Delete(k)
    \/ Destroy
    \/ Restart

Spec == Init /\ [][Next]_vars

\* A goroutine in Store or in worker() runs on: nothing in them blocks, and
\* the sleep ends.
FairSpec ==
    /\ Spec
    /\ \A s \in Storers : WF_vars(StoreStep(s))
    /\ \A w \in Workers : WF_vars(WorkerStep(w))

-----------------------------------------------------------------------------
PCs == {"idle", "limit", "exists", "schedule", "buffer", "add", "create", "write",
        "count", "load", "uncount", "sleep", "range", "delete"}

TypeOK ==
    /\ strategy \in Strategies /\ dir \in BOOLEAN
    /\ file \in [Names -> Packets \cup {NoPacket, Torn}]
    /\ inMemBuf \in [Keys -> Packets \cup {NoPacket}]
    /\ inMemSize \in 0 .. CounterSpace - 1 /\ n \in 0 .. CounterSpace - 1
    /\ pc \in [Threads -> PCs]
    /\ key \in [Threads -> Keys \cup {NoKey}] /\ pkt \in [Threads -> Packets \cup {NoPacket}]
    /\ seen \in [Threads -> 0 .. CounterSpace - 1]
    /\ starts \in [Storers -> BOOLEAN]
    /\ rest \in [Workers -> SUBSET Keys] /\ persisted \in [Workers -> SUBSET Keys]
    /\ calls \in Nat /\ faults \in Nat
    /\ kept \subseteq Keys /\ failed \subseteq Keys
    /\ written \subseteq Keys /\ cut \subseteq Keys

Writing(k) == \E t \in Threads : pc[t] = "write" /\ key[t] = k

\* While a process lives, a key it accepted is never dropped between the
\* buffer, the workers and the directory: some packet of it is buffered, in its
\* file, or being written, with two workers in each other's way, unless an open
\* or a write of it failed (persist.go:392-415: write first, delete from the
\* buffer afterwards, and also what was not written).
SomeVersionKept ==
    \A k \in kept \ failed : inMemBuf[k] # NoPacket \/ Loadable(k) \/ Writing(k)

\* Across crashes, a packet that store() wrote out is not lost again: its file
\* can be loaded or is being rewritten, whichever goroutines truncate and write
\* it, unless the last write of it to end was cut short by a crash or failed
\* (persist.go:377-385: the file is rewritten in place).
WrittenSurvives ==
    \A k \in written \ cut : Loadable(k) \/ Writing(k)

\* What is buffered while a worker sleeps is out of the buffer when that
\* worker's round is over (persist.go:392-411).
WorkerFlushes ==
    \A k \in Keys :
        (\E w \in Workers : pc[w] = "sleep") /\ inMemBuf[k] # NoPacket ~> inMemBuf[k] = NoPacket

\* "schedule a file save action according to the strategy" (persist.go:276):
\* what Store puts in the buffer is taken out again by a worker.
BufferedIsWritten ==
    \A k \in Keys : inMemBuf[k] # NoPacket ~> inMemBuf[k] = NoPacket

\* "DuplicateReplace defines whether duplicated key should override previous
\* one" (persist.go:56-57): when Store lets a packet go without an error, a
\* previous one of its key is there.
DroppedIsDuplicate ==
    [][\A s \in Storers :
         StoreExists(s) /\ pc'[s] = "idle" => Loadable(key[s]) \/ Writing(key[s])]_vars

\* What was written out survives a crash in the middle of its rewriting.
WrittenIsLoadable == \A k \in written : Loadable(k) \/ Writing(k)

\* "Delete a persisted packet with key" (persist.go:336)
DeletedIsGone == [][\A k \in Keys : Delete(k) => ~Loadable(k)']_vars

\* "for file/database persist, means max entry in file/memory" (persist.go:49)
MaxEntries == Limited => Cardinality({k \in Keys : exists(k)}) <= strategy.MaxCount
=============================================================================
