------------------------- MODULE FilePersistProofs --------------------------
(***************************************************************************)
(* Theorems about filePersist, for every set of keys, of packets, of       *)
(* goroutines in Store and of workers, every strategy, every width of the  *)
(* counters, and any number of crashes and failed writes.                  *)
(***************************************************************************)
EXTENDS FilePersist, TLAPS

\* A file has the packet of k, a goroutine is about to write it, or an open or a write failed.
Safe(k) == k \in failed \/ Loadable(k) \/ Writing(k)

\* A goroutine past the start of Store or store() knows its arguments.
Args ==
    \A t \in Threads :
        pc[t] \in {"limit", "exists", "schedule", "buffer", "add", "create", "write", "count", "load",
                  "uncount"}
        => key[t] \in Keys /\ pkt[t] \in Packets

\* Until the directory is destroyed, a file that was created is there.
Created ==
    dir => \A t \in Threads : pc[t] = "write" => file[getFilename(key[t])] # NoPacket

\* Until then, what a goroutine has written, and what a worker will delete from
\* the buffer, is safe.
WrittenIsSafe ==
    dir => \A t \in Threads : pc[t] \in {"count", "load", "uncount"} => Safe(key[t])

PersistedIsSafe ==
    dir => \A w \in Workers : \A k \in persisted[w] : Safe(k)

\* After it, nothing is counted on.
NothingKept == ~dir => kept = {}

NothingWritten == ~dir => written = {} /\ \A k \in Keys : ~exists(k)

IInv ==
    /\ TypeOK /\ Args
    /\ Created /\ WrittenIsSafe /\ PersistedIsSafe /\ NothingKept /\ NothingWritten
    /\ SomeVersionKept /\ WrittenSurvives

-----------------------------------------------------------------------------
\* The counters stay in their width.
LEMMA CounterType ==
    ASSUME NEW x \in Int
    PROVE  x % CounterSpace \in 0 .. CounterSpace - 1
<1>1. CounterSpace \in Int /\ CounterSpace > 0
  BY StrategyAssumption
<1> QED BY <1>1

\* What follows store() keeps the types of the locals.
LEMMA ReturnedType ==
    ASSUME TypeOK, NEW t \in Threads, key[t] \in Keys, Returned(t)
    PROVE  /\ pc' \in [Threads -> PCs]
           /\ key' \in [Threads -> Keys \cup {NoKey}]
           /\ pkt' \in [Threads -> Packets \cup {NoPacket}]
           /\ persisted' \in [Workers -> SUBSET Keys]
<1>1. t \in Storers \/ t \in Workers
  BY DEF Threads
<1> QED BY <1>1 DEF TypeOK, Returned, Goto, Done, PCs

\* Types and arguments are inductive together (persist.go:241-249, 261-291, 377-415).
LEMMA TypeStep ==
    ASSUME TypeOK, Args, [Next]_vars
    PROVE  TypeOK' /\ Args'
<1> USE DEF Goto, fileVars, countVars, argVars, rangeVars, boundVars, histVars, procVars, diskVars
<1>0. Storers \subseteq Threads /\ Workers \subseteq Threads
  BY DEF Threads
<1>1. ASSUME NEW s \in Storers, NEW k \in Keys, NEW p \in Packets, StoreBegin(s, k, p)
      PROVE  TypeOK' /\ Args'
  BY <1>0, <1>1 DEF StoreBegin, TypeOK, Args, PCs
<1>2. ASSUME NEW s \in Storers, StoreLimit(s) PROVE TypeOK' /\ Args'
  <2>1. 0 \in 0 .. CounterSpace - 1
    BY StrategyAssumption
  <2> QED BY <1>0, <1>2, <2>1 DEF StoreLimit, Done, TypeOK, Args, PCs
<1>3. ASSUME NEW s \in Storers, StoreExists(s) PROVE TypeOK' /\ Args'
  BY <1>0, <1>3 DEF StoreExists, Done, TypeOK, Args, PCs
<1>4. ASSUME NEW s \in Storers, StoreSchedule(s) PROVE TypeOK' /\ Args'
  BY <1>0, <1>4 DEF StoreSchedule, TypeOK, Args, PCs
<1>5. ASSUME NEW s \in Storers, StoreBuffer(s) PROVE TypeOK' /\ Args'
  BY <1>0, <1>5 DEF StoreBuffer, TypeOK, Args, PCs
<1>6. ASSUME NEW s \in Storers, StoreAdd(s) PROVE TypeOK' /\ Args'
  <2>1. inMemSize' \in 0 .. CounterSpace - 1
    BY <1>6, CounterType DEF StoreAdd, TypeOK
  <2> QED BY <1>0, <1>6, <2>1 DEF StoreAdd, Done, TypeOK, Args, PCs
<1>7. ASSUME NEW t \in Threads, Create(t) PROVE TypeOK' /\ Args'
  BY <1>7 DEF Create, TypeOK, Args, PCs, Names, getFilename
<1>8. ASSUME NEW t \in Threads, CreateFailed(t) PROVE TypeOK' /\ Args'
  <2>1. key[t] \in Keys
    BY <1>8 DEF CreateFailed, Args
  <2>2. faults' \in Nat /\ failed' \subseteq Keys
    BY <1>8, <2>1 DEF CreateFailed, TypeOK
  <2>3. TypeOK'
    BY <1>8, <2>1, <2>2, ReturnedType DEF CreateFailed, TypeOK
  <2>4. Args'
    BY <1>8 DEF CreateFailed, Returned, Done, TypeOK, Args
  <2> QED BY <2>3, <2>4
<1>9. ASSUME NEW t \in Threads, Write(t) PROVE TypeOK' /\ Args'
  <2>1. key[t] \in Keys /\ pkt[t] \in Packets
    BY <1>9 DEF Write, Args
  <2>2. written' \subseteq Keys /\ cut' \subseteq Keys
    BY <1>9, <2>1 DEF Write, TypeOK
  <2> QED BY <1>9, <2>1, <2>2 DEF Write, TypeOK, Args, PCs, Names, getFilename
<1>10. ASSUME NEW t \in Threads, WriteFailed(t) PROVE TypeOK' /\ Args'
  <2>1. key[t] \in Keys
    BY <1>10 DEF WriteFailed, Args
  <2>2. faults' \in Nat /\ failed' \subseteq Keys /\ cut' \subseteq Keys
    BY <1>10, <2>1 DEF WriteFailed, TypeOK
  <2>3. TypeOK'
    BY <1>10, <2>1, <2>2, ReturnedType DEF WriteFailed, TypeOK
  <2>4. Args'
    BY <1>10 DEF WriteFailed, Returned, Done, TypeOK, Args
  <2> QED BY <2>3, <2>4
<1>11. ASSUME NEW t \in Threads, CountWritten(t) PROVE TypeOK' /\ Args'
  <2>1. n' \in 0 .. CounterSpace - 1
    BY <1>11, CounterType DEF CountWritten, TypeOK
  <2> QED BY <1>11, <2>1 DEF CountWritten, TypeOK, Args, PCs
<1>20. ASSUME NEW t \in Threads, LoadSize(t) PROVE TypeOK' /\ Args'
  BY <1>20 DEF LoadSize, TypeOK, Args, PCs
<1>12. ASSUME NEW t \in Threads, StoreSize(t) PROVE TypeOK' /\ Args'
  <2>1. key[t] \in Keys /\ seen[t] \in 0 .. CounterSpace - 1
    BY <1>12 DEF StoreSize, Args, TypeOK
  <2>2. inMemSize' \in 0 .. CounterSpace - 1
    BY <1>12, <2>1, CounterType DEF StoreSize
  <2>3. 0 \in 0 .. CounterSpace - 1
    BY StrategyAssumption
  <2> QED BY <1>12, <2>1, <2>2, <2>3, ReturnedType DEF StoreSize, Returned, Done, TypeOK, Args
<1>13. ASSUME NEW w \in Workers, WorkerWake(w) \/ WorkerRanged(w) \/ WorkerAgain(w)
       PROVE  TypeOK' /\ Args'
  BY <1>0, <1>13 DEF WorkerWake, WorkerRanged, WorkerAgain, TypeOK, Args, PCs
<1>14. ASSUME NEW w \in Workers, NEW k \in Keys, WorkerVisit(w, k)
       PROVE  TypeOK' /\ Args'
  BY <1>0, <1>14 DEF WorkerVisit, TypeOK, Args, PCs
<1>15. ASSUME NEW w \in Workers, NEW k \in Keys, WorkerDelete(w, k)
       PROVE  TypeOK' /\ Args'
  BY <1>0, <1>15 DEF WorkerDelete, TypeOK, Args
<1>16. ASSUME NEW k \in Keys, Delete(k) PROVE TypeOK' /\ Args'
  BY <1>16 DEF Delete, TypeOK, Args, Names
<1>17. CASE Destroy
  BY <1>17 DEF Destroy, TypeOK, Args
<1>18. CASE Restart
  <2>1. 0 \in 0 .. CounterSpace - 1
    BY StrategyAssumption
  <2>2. {key[t] : t \in {u \in Threads : pc[u] = "write"}} \subseteq Keys
    BY DEF Args
  <2> QED BY <1>18, <2>1, <2>2 DEF Restart, Died, TypeOK, Args, PCs
<1>19. CASE UNCHANGED vars
  BY <1>19 DEF vars, TypeOK, Args
<1> QED BY <1>0, <1>1, <1>2, <1>3, <1>4, <1>5, <1>6, <1>7, <1>8, <1>9, <1>10, <1>11, <1>12, <1>13,
           <1>14, <1>15, <1>16, <1>17, <1>18, <1>19, <1>20 DEF Next, StoreStep, WorkerStep, ThreadStep

\* The fields of filePersist and the locals of Store, store() and worker()
\* keep their types; the counters wrap in their width (persist.go:241-249).
THEOREM TypeCorrect == Spec => []TypeOK
<1>1. Init => TypeOK /\ Args
  <2>1. 0 \in 0 .. CounterSpace - 1
    BY StrategyAssumption
  <2> QED BY <2>1 DEF Init, TypeOK, Args, PCs
<1>2. TypeOK /\ Args /\ [Next]_vars => TypeOK' /\ Args'
  BY TypeStep
<1> QED BY <1>1, <1>2, PTL DEF Spec

-----------------------------------------------------------------------------
\* A step that writes no file: goroutines stay in store() with their arguments.
Quiet ==
    /\ file' = file /\ dir' = dir /\ failed' = failed /\ written' = written /\ cut' = cut
    /\ \A t \in Threads : pc[t] = "write" => pc'[t] = "write" /\ key'[t] = key[t]
    /\ \A t \in Threads : pc'[t] \in {"write", "count", "load", "uncount"}
                          => pc'[t] = pc[t] /\ key'[t] = key[t]
    /\ \A w \in Workers : persisted'[w] \subseteq persisted[w]

\* What is safe stays safe.
StaysSafe == \A k \in Keys : Safe(k) => Safe(k)'

\* What was written out stays in its file under every step that leaves the
\* files of the keys alone and records the writes that it cuts short.
LEMMA DiskStep ==
    ASSUME IInv, \A k \in Keys : file'[getFilename(k)] = file[getFilename(k)],
           written' \subseteq written, cut \subseteq cut',
           \A t \in Threads : pc[t] = "write" => \/ pc'[t] = "write" /\ key'[t] = key[t]
                                                \/ key[t] \in cut'
    PROVE  WrittenSurvives'
<1> SUFFICES ASSUME NEW k \in written' \ cut'
             PROVE  Loadable(k)' \/ Writing(k)'
  BY DEF WrittenSurvives
<1>1. k \in written \ cut /\ k \in Keys
  BY DEF IInv, TypeOK
<1>2. Loadable(k) \/ Writing(k)
  BY <1>1 DEF IInv, WrittenSurvives
<1> QED BY <1>1, <1>2 DEF Loadable, Writing

\* A quiet step keeps everything but what depends on the buffer.
LEMMA QuietStep ==
    ASSUME IInv, Quiet
    PROVE  /\ StaysSafe /\ Created' /\ WrittenIsSafe' /\ PersistedIsSafe'
           /\ NothingWritten' /\ WrittenSurvives'
<1>1. StaysSafe
  BY DEF Quiet, StaysSafe, Safe, Loadable, Writing
<1>2. Created'
  BY DEF IInv, Quiet, Created
<1>3. WrittenIsSafe'
  <2>1. \A t \in Threads : pc[t] \in {"count", "load", "uncount"} => key[t] \in Keys
    BY DEF IInv, Args
  <2> QED BY <1>1, <2>1 DEF IInv, Quiet, WrittenIsSafe, StaysSafe
<1>4. PersistedIsSafe'
  <2>1. \A w \in Workers : persisted[w] \subseteq Keys
    BY DEF IInv, TypeOK
  <2> QED BY <1>1, <2>1 DEF IInv, Quiet, PersistedIsSafe, StaysSafe
<1>5. NothingWritten' /\ WrittenSurvives'
  BY DiskStep DEF IInv, Quiet, NothingWritten, exists
<1> QED BY <1>1, <1>2, <1>3, <1>4, <1>5

\* What an accepted key has is kept by a step that leaves the buffer alone.
LEMMA KeptStep ==
    ASSUME IInv, StaysSafe, inMemBuf' = inMemBuf, kept' \subseteq kept, failed \subseteq failed'
    PROVE  SomeVersionKept'
BY DEF IInv, TypeOK, SomeVersionKept, StaysSafe, Safe

\* The steps of Store before store(), and those of worker() around it, are
\* quiet; they accept a packet by putting it into the buffer.
LEMMA QuietSteps ==
    ASSUME IInv, NEW t \in Threads,
           \/ /\ t \in Storers
              /\ \/ \E k \in Keys, p \in Packets : StoreBegin(t, k, p)
                 \/ StoreLimit(t) \/ StoreExists(t)
                 \/ StoreSchedule(t) \/ StoreBuffer(t) \/ StoreAdd(t)
           \/ /\ t \in Workers
              /\ \/ WorkerWake(t) \/ WorkerRanged(t) \/ WorkerAgain(t)
                 \/ \E k \in Keys : WorkerVisit(t, k) \/ WorkerDelete(t, k)
    PROVE  IInv'
<1> USE DEF Goto, fileVars, countVars, argVars, rangeVars, boundVars, histVars, procVars, diskVars
<1>t. TypeOK' /\ Args'
  <2>1. Next
    BY DEF Next, StoreStep, WorkerStep
  <2> QED BY <2>1, TypeStep DEF IInv
<1>0. Storers \subseteq Threads /\ Workers \subseteq Threads
  BY DEF Threads
<1>1. ASSUME t \in Storers, NEW k \in Keys, NEW p \in Packets, StoreBegin(t, k, p) PROVE IInv'
  <2>1. Quiet /\ inMemBuf' = inMemBuf /\ kept' = kept
    BY <1>1 DEF StoreBegin, Quiet, IInv, TypeOK
  <2> QED BY <1>t, <2>1, QuietStep, KeptStep DEF IInv, Quiet, NothingKept
<1>2. ASSUME t \in Storers, StoreLimit(t) \/ StoreExists(t) PROVE IInv'
  <2>1. Quiet /\ inMemBuf' = inMemBuf /\ kept' = kept
    BY <1>2 DEF StoreLimit, StoreExists, Done, Quiet, IInv, TypeOK
  <2> QED BY <1>t, <2>1, QuietStep, KeptStep DEF IInv, Quiet, NothingKept
<1>3. ASSUME t \in Storers, StoreSchedule(t) PROVE IInv'
  <2>1. Quiet /\ inMemBuf' = inMemBuf /\ kept' = kept
    BY <1>3 DEF StoreSchedule, Quiet, IInv, TypeOK
  <2> QED BY <1>t, <2>1, QuietStep, KeptStep DEF IInv, Quiet, NothingKept
<1>4. ASSUME t \in Storers, StoreBuffer(t) PROVE IInv'
  <2>1. Quiet
    BY <1>4 DEF StoreBuffer, Quiet, IInv, TypeOK
  <2>2. NothingKept'
    BY <1>4 DEF StoreBuffer, IInv, NothingKept
  <2>3. key[t] \in Keys /\ pkt[t] # NoPacket
    BY <1>4, PacketsAssumption DEF StoreBuffer, IInv, Args
  <2>4. \A j \in Keys : inMemBuf'[j] # NoPacket \/ (j # key[t] /\ inMemBuf'[j] = inMemBuf[j])
    BY <1>4, <2>3 DEF StoreBuffer, IInv, TypeOK
  <2>5. SomeVersionKept'
    <3> SUFFICES ASSUME NEW j \in kept' \ failed', inMemBuf'[j] = NoPacket
                 PROVE  Loadable(j)' \/ Writing(j)'
      BY DEF SomeVersionKept
    <3>1. j \in kept \ failed /\ j \in Keys /\ inMemBuf[j] = NoPacket
      BY <1>4, <2>3, <2>4 DEF StoreBuffer, IInv, TypeOK
    <3>2. Safe(j)
      BY <3>1 DEF IInv, SomeVersionKept, Safe
    <3> QED BY <2>1, <3>1, <3>2, QuietStep DEF StaysSafe, Safe, Quiet
  <2> QED BY <1>t, <2>1, <2>2, <2>5, QuietStep DEF IInv
<1>5. ASSUME t \in Storers, StoreAdd(t) PROVE IInv'
  <2>1. Quiet /\ inMemBuf' = inMemBuf /\ kept' = kept
    BY <1>0, <1>5 DEF StoreAdd, Done, Quiet, IInv, TypeOK
  <2> QED BY <1>t, <2>1, QuietStep, KeptStep DEF IInv, Quiet, NothingKept
<1>6. ASSUME t \in Workers, WorkerWake(t) \/ WorkerRanged(t) \/ WorkerAgain(t) PROVE IInv'
  <2>1. Quiet /\ inMemBuf' = inMemBuf /\ kept' = kept
    BY <1>6 DEF WorkerWake, WorkerRanged, WorkerAgain, Quiet, IInv, TypeOK
  <2> QED BY <1>t, <2>1, QuietStep, KeptStep DEF IInv, Quiet, NothingKept
<1>7. ASSUME t \in Workers, NEW k \in Keys, WorkerVisit(t, k) PROVE IInv'
  <2>1. Quiet /\ inMemBuf' = inMemBuf /\ kept' = kept
    BY <1>7 DEF WorkerVisit, Quiet, IInv, TypeOK
  <2> QED BY <1>t, <2>1, QuietStep, KeptStep DEF IInv, Quiet, NothingKept
<1>8. ASSUME t \in Workers, NEW k \in Keys, WorkerDelete(t, k) PROVE IInv'
  <2>1. Quiet
    BY <1>8 DEF WorkerDelete, Quiet, IInv, TypeOK
  <2>2. NothingKept'
    BY <1>8 DEF WorkerDelete, IInv, NothingKept
  <2>3. \A j \in Keys : j # k => inMemBuf'[j] = inMemBuf[j]
    BY <1>8 DEF WorkerDelete, IInv, TypeOK
  <2>4. dir => Safe(k)
    BY <1>8 DEF WorkerDelete, IInv, PersistedIsSafe
  <2>5. SomeVersionKept'
    BY <1>8, <2>1, <2>3, <2>4, QuietStep
    DEF WorkerDelete, IInv, TypeOK, SomeVersionKept, NothingKept, StaysSafe, Safe
  <2> QED BY <1>t, <2>1, <2>2, <2>5, QuietStep DEF IInv
<1> QED BY <1>1, <1>2, <1>3, <1>4, <1>5, <1>6, <1>7, <1>8

-----------------------------------------------------------------------------
\* The steps of store(): the file of the key is truncated, then written.
LEMMA StoreSteps ==
    ASSUME IInv, NEW t \in Threads,
           \/ Create(t) \/ CreateFailed(t) \/ Write(t) \/ WriteFailed(t)
           \/ CountWritten(t) \/ LoadSize(t) \/ StoreSize(t)
    PROVE  IInv'
<1> USE DEF Goto, fileVars, countVars, argVars, rangeVars, boundVars, histVars, procVars, diskVars
<1>t. TypeOK' /\ Args'
  <2>1. Next
    BY DEF Next, StoreStep, WorkerStep, ThreadStep, Threads
  <2> QED BY <2>1, TypeStep DEF IInv
<1>0. pc[t] \in {"create", "write", "count", "load", "uncount"} /\ key[t] \in Keys /\ pkt[t] \in Packets
  BY DEF IInv, Args, Create, CreateFailed, Write, WriteFailed, CountWritten, LoadSize, StoreSize
<1>1. ASSUME Create(t) PROVE IInv'
  <2>1. StaysSafe
    BY <1>0, <1>1 DEF Create, IInv, TypeOK, StaysSafe, Safe, Loadable, Writing, Names, getFilename
  <2>2. Created'
    BY <1>0, <1>1, PacketsAssumption DEF Create, IInv, TypeOK, Created, Args, Names, getFilename
  <2>3. WrittenIsSafe'
    BY <1>1, <2>1 DEF Create, IInv, TypeOK, Args, WrittenIsSafe, StaysSafe
  <2>4. PersistedIsSafe'
    BY <1>1, <2>1 DEF Create, IInv, TypeOK, PersistedIsSafe, StaysSafe
  <2>5. NothingKept' /\ SomeVersionKept'
    BY <1>1, <2>1, KeptStep DEF Create, IInv, NothingKept
  <2>6. WrittenSurvives'
    <3>1. pc'[t] = "write" /\ key' = key /\ written' = written /\ cut' = cut
      BY <1>1 DEF Create, IInv, TypeOK
    <3>2. \A u \in Threads : pc[u] = "write" => pc'[u] = "write"
      BY <1>1 DEF Create, IInv, TypeOK
    <3>3. \A j \in Keys : j # key[t] => file'[getFilename(j)] = file[getFilename(j)]
      BY <1>0, <1>1 DEF Create, IInv, TypeOK, Names, getFilename
    <3>4. written \subseteq Keys
      BY DEF IInv, TypeOK
    <3> QED BY <3>1, <3>2, <3>3, <3>4 DEF IInv, WrittenSurvives, Loadable, Writing
  <2>7. NothingWritten'
    BY <1>1 DEF Create, IInv, NothingWritten
  <2> QED BY <1>t, <2>2, <2>3, <2>4, <2>5, <2>6, <2>7 DEF IInv
<1>3. ASSUME Write(t) PROVE IInv'
  <2>1. CASE ~dir
    <3>1. ~dir' /\ kept' = {}
      BY <1>3, <2>1 DEF Write, IInv, NothingKept
    <3>2. written = {} /\ \A k \in Keys : file[getFilename(k)] = NoPacket
      BY <2>1 DEF IInv, NothingWritten, exists
    <3>3. file' = file
      BY <1>0, <1>3, <3>2 DEF Write, IInv, TypeOK
    <3>4. written' = {}
      BY <1>0, <1>3, <3>2 DEF Write, exists
    <3> QED BY <1>t, <3>1, <3>2, <3>3, <3>4
        DEF IInv, Created, WrittenIsSafe, PersistedIsSafe, NothingKept, NothingWritten,
            SomeVersionKept, WrittenSurvives, exists
  <2>2. CASE dir
    <3>1. file' = [file EXCEPT ![getFilename(key[t])] = pkt[t]] /\ getFilename(key[t]) \in Names
      BY <1>0, <1>3, <2>2 DEF Write, IInv, Created, TypeOK, Names, getFilename
    <3>2. \A j \in Keys : j = key[t] => Loadable(j)'
      BY <1>0, <1>3, <3>1 DEF Write, Loadable, IInv, TypeOK, getFilename
    <3>3. StaysSafe
      BY <1>0, <1>3, <3>1, <3>2 DEF Write, IInv, TypeOK, StaysSafe, Safe, Loadable, Writing, getFilename
    <3>4. Created'
      BY <1>0, <1>3, <3>1, PacketsAssumption DEF Write, IInv, TypeOK, Created, getFilename
    <3>5. WrittenIsSafe'
      BY <1>0, <1>3, <3>2, <3>3 DEF Write, IInv, TypeOK, Args, WrittenIsSafe, StaysSafe, Safe
    <3>6. PersistedIsSafe'
      BY <1>3, <3>3 DEF Write, IInv, TypeOK, PersistedIsSafe, StaysSafe
    <3>7. NothingKept'
      BY <1>3, <2>2 DEF Write, NothingKept
    <3>8. SomeVersionKept'
      <4> SUFFICES ASSUME NEW j \in kept' \ failed', inMemBuf'[j] = NoPacket, j # key[t]
                   PROVE  Loadable(j)' \/ Writing(j)'
        BY <1>0, <3>2 DEF SomeVersionKept
      <4>1. j \in kept \ failed /\ j \in Keys /\ inMemBuf[j] = NoPacket
        BY <1>3 DEF Write, IInv, TypeOK
      <4> QED BY <1>3, <3>3, <4>1 DEF Write, IInv, SomeVersionKept, StaysSafe, Safe
    <3>9. written' \subseteq written \cup {key[t]} /\ cut \subseteq cut' \cup {key[t]}
      BY <1>3 DEF Write
    <3>10. WrittenSurvives'
      <4> SUFFICES ASSUME NEW j \in written' \ cut', j # key[t]
                   PROVE  Loadable(j)' \/ Writing(j)'
        BY <1>0, <3>2 DEF WrittenSurvives
      <4>1. j \in written \ cut /\ j \in Keys
        BY <3>9 DEF IInv, TypeOK
      <4>2. Loadable(j) \/ Writing(j)
        BY <4>1 DEF IInv, WrittenSurvives
      <4>3. file'[getFilename(j)] = file[getFilename(j)]
        BY <1>0, <3>1, <4>1 DEF IInv, TypeOK, Names, getFilename
      <4>4. \A u \in Threads : u # t => pc'[u] = pc[u] /\ key'[u] = key[u]
        BY <1>3 DEF Write, IInv, TypeOK
      <4> QED BY <4>2, <4>3, <4>4 DEF Loadable, Writing
    <3>11. NothingWritten'
      BY <1>3, <2>2 DEF Write, NothingWritten
    <3> QED BY <1>t, <3>4, <3>5, <3>6, <3>7, <3>8, <3>10, <3>11 DEF IInv
  <2> QED BY <2>1, <2>2
<1>4. ASSUME CreateFailed(t) \/ WriteFailed(t) PROVE IInv'
  <2>0. Returned(t)
    BY <1>4 DEF CreateFailed, WriteFailed
  <2>1. failed' = failed \cup {key[t]} /\ file' = file /\ dir' = dir
        /\ inMemBuf' = inMemBuf /\ kept' = kept /\ written' = written
        /\ cut \subseteq cut' /\ (pc[t] = "write" => key[t] \in cut')
    BY <1>4 DEF CreateFailed, WriteFailed
  <2>2. \A u \in Threads : u # t => pc'[u] = pc[u] /\ key'[u] = key[u]
    BY <2>0 DEF Returned, Done, IInv, TypeOK
  <2>3. pc'[t] \in {"idle", "range"}
    BY <2>0 DEF Returned, IInv, TypeOK
  <2>4. StaysSafe
    BY <2>1, <2>2 DEF StaysSafe, Safe, Loadable, Writing
  <2>5. Created'
    BY <2>1, <2>2, <2>3 DEF IInv, Created
  <2>6. WrittenIsSafe'
    BY <2>1, <2>2, <2>3, <2>4 DEF IInv, Args, WrittenIsSafe, StaysSafe
  <2>7. PersistedIsSafe'
    <3>1. \A w \in Workers : persisted'[w] \subseteq persisted[w] \cup {key[t]}
      BY <2>0 DEF Returned, Threads, IInv, TypeOK
    <3>2. \A k \in Keys : k = key[t] => Safe(k)'
      BY <2>1 DEF Safe
    <3>3. \A w \in Workers : persisted[w] \subseteq Keys
      BY DEF IInv, TypeOK
    <3> QED BY <1>0, <2>1, <2>4, <3>1, <3>2, <3>3 DEF IInv, PersistedIsSafe, StaysSafe
  <2>8. NothingKept' /\ SomeVersionKept'
    BY <2>1, <2>4, KeptStep DEF IInv, NothingKept
  <2>9. NothingWritten' /\ WrittenSurvives'
    BY <2>1, <2>2, DiskStep DEF IInv, NothingWritten, exists
  <2> QED BY <1>t, <2>5, <2>6, <2>7, <2>8, <2>9 DEF IInv
<1>5. ASSUME CountWritten(t) \/ LoadSize(t) PROVE IInv'
  <2>1. failed' = failed /\ file' = file /\ dir' = dir /\ inMemBuf' = inMemBuf /\ kept' = kept
        /\ key' = key /\ persisted' = persisted /\ written' = written /\ cut' = cut
    BY <1>5 DEF CountWritten, LoadSize
  <2>2. \A u \in Threads : \/ pc'[u] = pc[u]
                           \/ pc[u] \in {"count", "load"} /\ pc'[u] \in {"load", "uncount"}
    BY <1>5 DEF CountWritten, LoadSize, IInv, TypeOK
  <2>3. StaysSafe
    BY <2>1, <2>2 DEF StaysSafe, Safe, Loadable, Writing
  <2>4. Created'
    BY <2>1, <2>2 DEF IInv, Created
  <2>5. WrittenIsSafe'
    BY <2>1, <2>2, <2>3 DEF IInv, Args, WrittenIsSafe, StaysSafe
  <2>6. PersistedIsSafe'
    BY <2>1, <2>3 DEF IInv, TypeOK, PersistedIsSafe, StaysSafe
  <2>7. NothingKept' /\ SomeVersionKept'
    BY <2>1, <2>3, KeptStep DEF IInv, NothingKept
  <2>8. NothingWritten' /\ WrittenSurvives'
    BY <2>1, <2>2, DiskStep DEF IInv, NothingWritten, exists
  <2> QED BY <1>t, <2>4, <2>5, <2>6, <2>7, <2>8 DEF IInv
<1>6. ASSUME StoreSize(t) PROVE IInv'
  <2>1. failed' = failed /\ file' = file /\ dir' = dir /\ inMemBuf' = inMemBuf /\ kept' = kept
        /\ written' = written /\ cut' = cut
    BY <1>6 DEF StoreSize
  <2>2. \A u \in Threads : u # t => pc'[u] = pc[u] /\ key'[u] = key[u]
    BY <1>6 DEF StoreSize, Returned, Done, IInv, TypeOK
  <2>3. pc[t] = "uncount" /\ pc'[t] \in {"idle", "range"}
    BY <1>6 DEF StoreSize, Returned, IInv, TypeOK
  <2>4. StaysSafe
    BY <2>1, <2>2, <2>3 DEF StaysSafe, Safe, Loadable, Writing
  <2>5. Created'
    BY <2>1, <2>2, <2>3 DEF IInv, Created
  <2>6. WrittenIsSafe'
    BY <2>1, <2>2, <2>3, <2>4 DEF IInv, Args, WrittenIsSafe, StaysSafe
  <2>7. PersistedIsSafe'
    <3>1. \A w \in Workers : persisted'[w] \subseteq persisted[w] \cup {key[t]}
      BY <1>6 DEF StoreSize, Returned, Threads, IInv, TypeOK
    <3>2. dir => Safe(key[t])
      BY <2>3 DEF IInv, WrittenIsSafe
    <3>3. \A w \in Workers : persisted[w] \subseteq Keys
      BY DEF IInv, TypeOK
    <3> QED BY <1>0, <2>1, <2>4, <3>1, <3>2, <3>3 DEF IInv, PersistedIsSafe, StaysSafe
  <2>8. NothingKept' /\ SomeVersionKept'
    BY <2>1, <2>4, KeptStep DEF IInv, NothingKept
  <2>9. NothingWritten' /\ WrittenSurvives'
    BY <2>1, <2>2, <2>3, DiskStep DEF IInv, NothingWritten, exists
  <2> QED BY <1>t, <2>5, <2>6, <2>7, <2>8, <2>9 DEF IInv
<1> QED BY <1>1, <1>3, <1>4, <1>5, <1>6

\* Delete, Destroy and a crash with the restart after it.
LEMMA OtherSteps ==
    ASSUME IInv, (\E k \in Keys : Delete(k)) \/ Destroy \/ Restart
    PROVE  IInv'
<1> USE DEF fileVars, countVars, argVars, rangeVars, boundVars, histVars, procVars, diskVars
<1>t. TypeOK' /\ Args'
  <2>1. Next
    BY DEF Next
  <2> QED BY <2>1, TypeStep DEF IInv
<1>1. ASSUME NEW k \in Keys, Delete(k) PROVE IInv'
  <2>1. \A j \in Keys : file'[getFilename(j)] = file[getFilename(j)]
    BY <1>1 DEF Delete, IInv, TypeOK, Names, getFilename, fileSuffix
  <2>2. StaysSafe
    BY <1>1, <2>1 DEF Delete, StaysSafe, Safe, Loadable, Writing
  <2>3. Created'
    BY <1>1, <2>1 DEF Delete, IInv, Args, Created
  <2>4. WrittenIsSafe' /\ PersistedIsSafe'
    BY <1>1, <2>2 DEF Delete, IInv, TypeOK, Args, WrittenIsSafe, PersistedIsSafe, StaysSafe
  <2>5. NothingKept' /\ SomeVersionKept'
    BY <1>1, <2>2, KeptStep DEF Delete, IInv, NothingKept
  <2>6. NothingWritten' /\ WrittenSurvives'
    BY <1>1, <2>1, DiskStep DEF Delete, IInv, NothingWritten, exists
  <2> QED BY <1>t, <2>3, <2>4, <2>5, <2>6 DEF IInv
<1>2. CASE Destroy
  <2>1. ~dir' /\ kept' = {} /\ written' = {}
    BY <1>2 DEF Destroy
  <2>2. \A k \in Keys : ~exists(k)'
    BY <1>2 DEF Destroy, exists, getFilename, Names, fileSuffix
  <2> QED BY <1>t, <2>1, <2>2
      DEF IInv, Created, WrittenIsSafe, PersistedIsSafe, NothingKept, NothingWritten,
          SomeVersionKept, WrittenSurvives
<1>3. CASE Restart
  <2>1. Created' /\ WrittenIsSafe' /\ PersistedIsSafe' /\ NothingKept' /\ NothingWritten'
    BY <1>3 DEF Restart, Died, Created, WrittenIsSafe, PersistedIsSafe, NothingKept, NothingWritten
  <2>2. SomeVersionKept'
    BY <1>3 DEF Restart, Died, SomeVersionKept
  <2>3. WrittenSurvives'
    BY <1>3, DiskStep DEF Restart, Died
  <2> QED BY <1>t, <2>1, <2>2, <2>3 DEF IInv
<1> QED BY <1>1, <1>2, <1>3

\* The inductive invariant.
LEMMA Invariance == Spec => []IInv
<1>1. Init => IInv
  <2>1. Init => TypeOK /\ Args
    <3>1. 0 \in 0 .. CounterSpace - 1
      BY StrategyAssumption
    <3> QED BY <3>1 DEF Init, TypeOK, Args, PCs
  <2>2. Init => /\ Created /\ WrittenIsSafe /\ PersistedIsSafe /\ NothingKept /\ NothingWritten
                /\ SomeVersionKept /\ WrittenSurvives
    BY DEF Init, Created, WrittenIsSafe, PersistedIsSafe, NothingKept, NothingWritten,
           SomeVersionKept, WrittenSurvives
  <2> QED BY <2>1, <2>2 DEF IInv
<1>2. IInv /\ [Next]_vars => IInv'
  <2> SUFFICES ASSUME IInv, [Next]_vars PROVE IInv'
    OBVIOUS
  <2>0. Storers \subseteq Threads /\ Workers \subseteq Threads
    BY DEF Threads
  <2>1. ASSUME NEW s \in Storers, NEW k \in Keys, NEW p \in Packets, StoreBegin(s, k, p) PROVE IInv'
    BY <2>0, <2>1, QuietSteps
  <2>2. ASSUME NEW s \in Storers,
               \/ StoreLimit(s) \/ StoreExists(s) \/ StoreSchedule(s) \/ StoreBuffer(s) \/ StoreAdd(s)
        PROVE  IInv'
    <3>1. key[s] \in Keys /\ pkt[s] \in Packets
      BY <2>0, <2>2 DEF IInv, Args, StoreLimit, StoreExists, StoreSchedule, StoreBuffer, StoreAdd
    <3> QED BY <2>0, <2>2, <3>1, QuietSteps
  <2>3. ASSUME NEW t \in Threads, ThreadStep(t) PROVE IInv'
    BY <2>3, StoreSteps DEF ThreadStep
  <2>4. ASSUME NEW w \in Workers, WorkerStep(w), ~ThreadStep(w) PROVE IInv'
    BY <2>0, <2>4, QuietSteps DEF WorkerStep
  <2>5. CASE (\E k \in Keys : Delete(k)) \/ Destroy \/ Restart
    BY <2>5, OtherSteps
  <2>6. CASE UNCHANGED vars
    <3>1. TypeOK' /\ Args'
      BY TypeStep DEF IInv
    <3>2. Quiet /\ inMemBuf' = inMemBuf /\ kept' = kept
      BY <2>6 DEF vars, fileVars, argVars, rangeVars, histVars, procVars, diskVars, Quiet
    <3> QED BY <3>1, <3>2, QuietStep, KeptStep DEF IInv, Quiet, NothingKept
  <2> QED BY <2>0, <2>1, <2>2, <2>3, <2>4, <2>5, <2>6 DEF Next, StoreStep
<1> QED BY <1>1, <1>2, PTL DEF Spec

\* While a process lives, and whatever the interleaving of Store, of any number
\* of workers, of failing opens and writes and of Destroy, a key it accepted has
\* a packet in the buffer, in its file, or in a goroutine that is about to write
\* it, unless an open or a write of that key failed (persist.go:377-415).
THEOREM NothingIsDropped == Spec => []SomeVersionKept
<1>1. IInv => SomeVersionKept
  BY DEF IInv
<1> QED BY <1>1, Invariance, PTL

\* Through any number of crashes, what store() wrote out can be loaded or is
\* being rewritten, unless the last write of its key to end was cut short
\* (persist.go:377-385).
THEOREM WrittenIsNotLost == Spec => []WrittenSurvives
<1>1. IInv => WrittenSurvives
  BY DEF IInv
<1> QED BY <1>1, Invariance, PTL
=============================================================================
