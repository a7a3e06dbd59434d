----------------------------- MODULE PollerProofs -----------------------------
(***************************************************************************)
(* Proofs about polling and history synchronisation, for any number of     *)
(* workers, any capacity and any batch size: types, and that the samples   *)
(* stored for a test are unique, genuine and in the phase of that test.    *)
(***************************************************************************)
EXTENDS Poller, TLAPS

-----------------------------------------------------------------------------
(* The memory of a task keeps its type.                                    *)

LEMMA LocalTypes ==
  ASSUME LocalOK, NEW p \in Procs
  PROVE  /\ mem[p] \in Local /\ pc[p] \in PC /\ MemoryOK(mem[p], pc[p])
         /\ mem[p].rt \in Runtime /\ mem[p].rec \in Sample /\ mem[p].test \in 0 .. MaxTests
         /\ mem[p].from \in Nat /\ mem[p].count \in Nat /\ mem[p].batch \in Seq(Sample)
         /\ Len(mem[p].batch) \in Nat
<1>1. mem[p] \in Local /\ pc[p] \in PC /\ MemoryOK(mem[p], pc[p])
  BY DEF LocalOK
<1>2. mem[p].batch \in Seq(Sample)
  BY <1>1 DEF Local
<1> QED BY <1>1, <1>2 DEF Local

\* A task goes to w with the memory m.
LEMMA TaskGoes ==
  ASSUME LocalOK, NEW p \in Procs, NEW w \in PC, Go(p, w),
         NEW m \in Local, MemoryOK(m, w), mem' = [mem EXCEPT ![p] = m]
  PROVE  LocalOK'
<1>1. ASSUME NEW q \in Procs PROVE MemoryOK(mem'[q], pc'[q])
  <2>1. CASE q = p
    BY <2>1 DEF LocalOK, Go
  <2>2. CASE q # p
    BY <2>2 DEF LocalOK, Go
  <2> QED BY <2>1, <2>2
<1>2. pc' \in [Procs -> PC] /\ mem' \in [Procs -> Local]
  BY DEF LocalOK, Go
<1> QED BY <1>1, <1>2 DEF LocalOK, MemoryOK

\* The memory m of p holds the batch p has already.
SameBatch(p, m) == m.batch = mem[p].batch /\ m.count = mem[p].count

\* The same when neither the batch nor its length changes.
LEMMA BatchStays ==
  ASSUME LocalOK, NEW p \in Procs, NEW w \in PC, Go(p, w),
         NEW m \in Local, SameBatch(p, m), w \in HasTest => m.test \in TestIds,
         mem' = [mem EXCEPT ![p] = m],
         w \in HasBatch \/ pc[p] \notin HasBatch, w \in Reading => pc[p] \in Reading
  PROVE  LocalOK'
<1>1. MemoryOK(m, w)
  BY LocalTypes DEF MemoryOK, SameBatch
<1> QED BY <1>1, TaskGoes

LEMMA MemoryStays ==
  ASSUME LocalOK, NEW p \in Procs, NEW w \in PC, Go(p, w), UNCHANGED mem,
         w \in HasTest => pc[p] \in HasTest, w \in HasBatch \/ pc[p] \notin HasBatch, w \in Reading => pc[p] \in Reading
  PROVE  LocalOK'
<1>1. mem' = [mem EXCEPT ![p] = mem[p]]
  BY DEF LocalOK
<1> QED BY <1>1, BatchStays, LocalTypes DEF SameBatch, MemoryOK

LEMMA IdleTask == NoLocal \in Local /\ MemoryOK(NoLocal, "idle")
<1>1. << >> \in Seq(Sample) /\ Len(<< >>) = 0
  OBVIOUS
<1>2. Blank \in Sample /\ NoRuntime \in Runtime
  BY DEF Blank, Sample, Phase, NoRuntime, Runtime, OptTime, NotSet
<1>3. 0 \in 0 .. MaxTests /\ BatchSize \in Nat
  BY CapacityAssumption, BoundAssumption
<1> QED BY <1>1, <1>2, <1>3 DEF MemoryOK, NoLocal, Local, Reading, HasBatch, HasTest, Persisting, Storing

LEMMA TaskReturns ==
  ASSUME LocalOK, NEW p \in Procs, Return(p)
  PROVE  LocalOK'
<1>1. "idle" \in PC
  BY DEF PC
<1> QED BY <1>1, IdleTask, TaskGoes DEF Return

LEMMA RuntimeField ==
  ASSUME LocalOK, NEW p \in Procs, NEW r \in Runtime
  PROVE  [mem[p] EXCEPT !.rt = r] \in Local
BY LocalTypes DEF Local

LEMMA TestField ==
  ASSUME LocalOK, NEW p \in Procs, NEW t \in TestIds
  PROVE  [mem[p] EXCEPT !.test = t] \in Local
<1>1. t \in 0 .. MaxTests
  BY BoundAssumption DEF TestIds
<1> QED BY <1>1, LocalTypes DEF Local

LEMMA BatchField ==
  ASSUME LocalOK, NEW p \in Procs, NEW b \in Seq(Sample)
  PROVE  [mem[p] EXCEPT !.batch = b] \in Local
BY LocalTypes DEF Local

-----------------------------------------------------------------------------
(* Types of what a task reads.                                             *)

LEMMA PhaseType ==
  ASSUME NEW t, NEW s
  PROVE  PhaseAt(t, s) \in Phase
BY DEF PhaseAt, Phase

LEMMA LiveType == TypeOK => LiveRecord \in Sample
<1> SUFFICES ASSUME TypeOK, last # 0 PROVE LiveRecord \in Sample
  BY DEF LiveRecord, Blank, Sample, Phase
<1>1. last \in 1 .. MaxSeq /\ stamp[last] \in Nat
  BY BoundAssumption DEF TypeOK
<1> QED BY <1>1 DEF LiveRecord, Sample, Phase, TypeOK

\* A record read from a slot is one the ring keeps, or it is blank.
LEMMA SlotRecord ==
  ASSUME TypeOK, NEW s
  PROVE  \/ HistoryRecord(s) = Blank
         \/ \E n \in 1 .. last :
              /\ n \in 1 .. MaxSeq /\ n \in Nat /\ stamp[n] \in Nat
              /\ HistoryRecord(s) = [seq |-> n, stamp |-> stamp[n], phase |-> "PLC"]
<1>1. CASE \E n \in kept : InSlot(n, s)
  <2> DEFINE n == CHOOSE i \in kept : InSlot(i, s)
  <2>1. n \in kept
    BY <1>1
  <2>2. HistoryRecord(s) = [seq |-> n, stamp |-> stamp[n], phase |-> "PLC"]
    BY <1>1 DEF HistoryRecord
  <2> HIDE DEF n
  <2>3. n \in 1 .. last
    BY <2>1 DEF TypeOK
  <2>4. n \in 1 .. MaxSeq /\ n \in Nat
    BY <2>3, BoundAssumption DEF TypeOK
  <2>5. stamp[n] \in Nat
    BY <2>4 DEF TypeOK
  <2> QED BY <2>2, <2>3, <2>4, <2>5
<1>2. CASE ~ \E n \in kept : InSlot(n, s)
  BY <1>2 DEF HistoryRecord
<1> QED BY <1>1, <1>2

LEMMA HistoryType ==
  ASSUME TypeOK, NEW s
  PROVE  HistoryRecord(s) \in Sample
BY SlotRecord DEF Blank, Sample, Phase

LEMMA NextType ==
  ASSUME TypeOK, NEW p \in Procs
  PROVE  NextRecord(p) \in Sample
BY HistoryType, PhaseType DEF NextRecord, Sample

LEMMA FailType ==
  ASSUME TypeOK, NEW p \in Procs, NEW w \in PC, Fail(p, w),
         w \in HasBatch \/ pc[p] \notin HasBatch, w \notin Reading \cup HasTest
  PROVE  LocalOK'
<1> DEFINE r == [mem[p].rt EXCEPT !.since = LossSince(p)]
           m == [mem[p] EXCEPT !.rt = r]
<1>1. mem[p].rt \in Runtime /\ mem[p] \in Local
  BY LocalTypes DEF TypeOK
<1>2. LossSince(p) \in OptTime
  BY <1>1 DEF LossSince, Runtime, OptTime, TypeOK, Lives!TypeOK
<1>3. r \in Runtime
  BY <1>1, <1>2 DEF Runtime
<1>4. mem' = [mem EXCEPT ![p] = m]
  BY DEF Fail
<1> HIDE DEF r
<1>5. m \in Local /\ SameBatch(p, m)
  BY <1>1, <1>3, RuntimeField DEF TypeOK, Local, SameBatch
<1> HIDE DEF m
<1> QED BY <1>4, <1>5, BatchStays DEF Fail, TypeOK

-----------------------------------------------------------------------------
(* Types: one step of a task.                                              *)

\* A step that only moves a task.
LEMMA TaskType ==
  ASSUME TypeOK, LocalOK', UNCHANGED <<outside, store>>
  PROVE  TypeOK'
BY DEF TypeOK, Lives!TypeOK, outside, store, testVars, plcVars, link

LEMMA PollLoadType == ASSUME TypeOK, NEW p \in Procs, PollLoad(p) PROVE TypeOK'
<1> DEFINE m == [mem[p] EXCEPT !.rt = rt]
<1>1. m \in Local /\ SameBatch(p, m)
  BY RuntimeField, LocalTypes DEF TypeOK, Local, SameBatch
<1>2. mem' = [mem EXCEPT ![p] = m]
  BY DEF PollLoad
<1> HIDE DEF m
<1>3. LocalOK'
  BY <1>1, <1>2, BatchStays DEF PollLoad, TypeOK, PC, HasBatch, HasTest,
        Persisting, Storing, Reading
<1> QED BY <1>3, TaskType DEF PollLoad

LEMMA SyncLoadType == ASSUME TypeOK, NEW p \in Procs, SyncLoad(p) PROVE TypeOK'
<1> DEFINE m == [mem[p] EXCEPT !.rt = rt]
<1>1. m \in Local /\ SameBatch(p, m)
  BY RuntimeField, LocalTypes DEF TypeOK, Local, SameBatch
<1>2. mem' = [mem EXCEPT ![p] = m]
  BY DEF SyncLoad
<1> HIDE DEF m
<1>3. LocalOK'
  BY <1>1, <1>2, BatchStays DEF SyncLoad, TypeOK, PC, HasBatch, HasTest,
        Persisting, Storing, Reading
<1> QED BY <1>3, TaskType DEF SyncLoad

LEMMA ReadStatusType == ASSUME TypeOK, NEW p \in Procs, ReadStatus(p) PROVE TypeOK'
<1>1. CASE Fail(p, "poll_failed")
  <2>1. LocalOK'
    BY <1>1, FailType DEF ReadStatus, PC, HasBatch, HasTest,
        Persisting, Storing, Reading
  <2> QED BY <2>1, TaskType DEF ReadStatus
<1>2. CASE Go(p, "read_live") /\ mem' = [mem EXCEPT ![p].rt.seq = last]
  <2> DEFINE r == [mem[p].rt EXCEPT !.seq = last]
             m == [mem[p] EXCEPT !.rt = r]
  <2>1. last \in Nat
    BY BoundAssumption DEF TypeOK
  <2>2. r \in Runtime
    BY <2>1, LocalTypes DEF TypeOK, Runtime
  <2>3. mem' = [mem EXCEPT ![p] = m]
    BY <1>2
  <2> HIDE DEF r
  <2>4. m \in Local /\ SameBatch(p, m)
    BY <2>2, RuntimeField, LocalTypes DEF TypeOK, Local, SameBatch
  <2> HIDE DEF m
  <2>5. LocalOK'
    BY <1>2, <2>3, <2>4, BatchStays DEF ReadStatus, TypeOK, PC, HasBatch, HasTest,
        Persisting, Storing, Reading
  <2> QED BY <2>5, TaskType DEF ReadStatus
<1> QED BY <1>1, <1>2 DEF ReadStatus

LEMMA ReadLiveType == ASSUME TypeOK, NEW p \in Procs, ReadLive(p) PROVE TypeOK'
<1>1. CASE Fail(p, "poll_failed")
  <2>1. LocalOK'
    BY <1>1, FailType DEF ReadLive, PC, HasBatch, HasTest,
        Persisting, Storing, Reading
  <2> QED BY <2>1, TaskType DEF ReadLive
<1>2. CASE Go(p, "poll_pick") /\ mem' = [mem EXCEPT ![p].rec = LiveRecord]
  <2> DEFINE m == [mem[p] EXCEPT !.rec = LiveRecord]
  <2>1. m \in Local /\ SameBatch(p, m)
    BY LiveType, LocalTypes DEF TypeOK, Local, SameBatch
  <2>2. mem' = [mem EXCEPT ![p] = m]
    BY <1>2
  <2> HIDE DEF m
  <2>3. LocalOK'
    BY <1>2, <2>1, <2>2, BatchStays DEF ReadLive, TypeOK, PC, HasBatch, HasTest,
        Persisting, Storing, Reading
  <2> QED BY <2>3, TaskType DEF ReadLive
<1> QED BY <1>1, <1>2 DEF ReadLive

LEMMA PollPickType == ASSUME TypeOK, NEW p \in Procs, PollPick(p) PROVE TypeOK'
<1> DEFINE r == [mem[p].rt EXCEPT !.seen = now]
           q(t) == [mem[p].rec EXCEPT !.phase = PhaseAt(t, mem[p].rec.stamp)]
<1>1. r \in Runtime
  BY LocalTypes DEF TypeOK, Lives!TypeOK, Runtime, OptTime
<1>2. CASE mem' = [mem EXCEPT ![p].rt.seen = now]
  <2> DEFINE m == [mem[p] EXCEPT !.rt = r]
  <2>1. mem' = [mem EXCEPT ![p] = m]
    BY <1>2
  <2> HIDE DEF r
  <2>2. m \in Local /\ SameBatch(p, m)
    BY <1>1, RuntimeField, LocalTypes DEF TypeOK, Local, SameBatch
  <2> HIDE DEF m
  <2>3. LocalOK'
    BY <2>1, <2>2, BatchStays DEF PollPick, TypeOK, PC, HasBatch, HasTest,
        Persisting, Storing, Reading
  <2> QED BY <2>3, TaskType DEF PollPick
<1>3. ASSUME NEW t \in TestIds,
             mem' = [mem EXCEPT ![p].rt.seen = now,
                                ![p].rec.phase = PhaseAt(t, mem[p].rec.stamp)]
      PROVE  TypeOK'
  <2> DEFINE m == [mem[p] EXCEPT !.rt = r, !.rec = q(t)]
  <2>1. mem' = [mem EXCEPT ![p] = m]
    BY <1>3
  <2>2. q(t) \in Sample
    BY LocalTypes, PhaseType DEF TypeOK, Sample
  <2> HIDE DEF r, q
  <2>3. m \in Local /\ SameBatch(p, m)
    BY <1>1, <2>2, LocalTypes DEF TypeOK, Local, SameBatch
  <2> HIDE DEF m
  <2>4. LocalOK'
    BY <2>1, <2>3, BatchStays DEF PollPick, TypeOK, PC, HasBatch, HasTest,
        Persisting, Storing, Reading
  <2> QED BY <2>4, TaskType DEF PollPick
<1> QED BY <1>2, <1>3 DEF PollPick

\* A step that changes what is stored.
LEMMA StoreType ==
  ASSUME TypeOK, LocalOK', UNCHANGED outside,
         rt' \in Runtime, samples' \in [TestIds -> SUBSET Sample],
         overruns' \subseteq TestIds, lastEvent' \in {"none", "restored", "lost"}
  PROVE  TypeOK'
BY DEF TypeOK, Lives!TypeOK, outside, testVars, plcVars, link

LEMMA PollSaveType == ASSUME TypeOK, NEW p \in Procs, PollSave(p) PROVE TypeOK'
<1>1. rt' \in Runtime
  BY LocalTypes DEF PollSave, TypeOK, Runtime, OptTime
<1>2. LocalOK'
  BY MemoryStays DEF PollSave, TypeOK, PC, HasBatch, HasTest,
        Persisting, Storing, Reading
<1> QED BY <1>1, <1>2, StoreType DEF PollSave, TypeOK

LEMMA LogRestoredType == ASSUME TypeOK, NEW p \in Procs, LogRestored(p) PROVE TypeOK'
<1>1. LocalOK'
  BY MemoryStays DEF LogRestored, TypeOK, PC, HasBatch, HasTest,
        Persisting, Storing, Reading
<1> QED BY <1>1, StoreType DEF LogRestored, TypeOK

LEMMA PersistPickType == ASSUME TypeOK, NEW p \in Procs, PersistPick(p) PROVE TypeOK'
<1>1. CASE Return(p)
  BY <1>1, TaskReturns, TaskType DEF PersistPick, TypeOK
<1>2. ASSUME NEW t \in TestIds, mem' = [mem EXCEPT ![p].test = t], Go(p, "persist_check")
      PROVE  TypeOK'
  <2> DEFINE m == [mem[p] EXCEPT !.test = t]
  <2>1. m \in Local /\ SameBatch(p, m) /\ m.test \in TestIds
    BY TestField, LocalTypes DEF TypeOK, Local, SameBatch
  <2>2. mem' = [mem EXCEPT ![p] = m]
    BY <1>2
  <2> HIDE DEF m
  <2>3. LocalOK'
    BY <1>2, <2>1, <2>2, BatchStays DEF PersistPick, TypeOK, PC, HasBatch, HasTest,
        Persisting, Storing, Reading
  <2> QED BY <2>3, TaskType DEF PersistPick
<1> QED BY <1>1, <1>2 DEF PersistPick

LEMMA PersistCheckType == ASSUME TypeOK, NEW p \in Procs, PersistCheck(p) PROVE TypeOK'
<1>1. CASE Return(p)
  BY <1>1, TaskReturns, TaskType DEF PersistCheck, TypeOK
<1>2. CASE Go(p, "persist_insert") /\ UNCHANGED mem
  <2>1. LocalOK'
    BY <1>2, MemoryStays DEF PersistCheck, TypeOK, PC, HasBatch, HasTest,
        Persisting, Storing, Reading
  <2> QED BY <2>1, TaskType DEF PersistCheck
<1> QED BY <1>1, <1>2 DEF PersistCheck

LEMMA InsertType ==
  ASSUME TypeOK, NEW t, NEW rec \in Sample, Insert(t, rec)
  PROVE  samples' \in [TestIds -> SUBSET Sample]
BY DEF Insert, TypeOK

LEMMA PersistInsertType == ASSUME TypeOK, NEW p \in Procs, PersistInsert(p) PROVE TypeOK'
<1>1. samples' \in [TestIds -> SUBSET Sample]
  BY InsertType, LocalTypes DEF PersistInsert, TypeOK
<1> QED BY <1>1, TaskReturns, StoreType DEF PersistInsert, TypeOK

LEMMA FailSaveType == ASSUME TypeOK, NEW p \in Procs, FailSave(p) PROVE TypeOK'
<1>1. rt' \in Runtime
  BY LocalTypes DEF FailSave, TypeOK, Runtime
<1>2. CASE Return(p)
  BY <1>1, <1>2, TaskReturns, StoreType DEF FailSave, TypeOK
<1>3. CASE Go(p, "log_lost") /\ UNCHANGED mem
  <2>1. LocalOK'
    BY <1>3, MemoryStays DEF FailSave, TypeOK, PC, HasBatch, HasTest,
        Persisting, Storing, Reading
  <2> QED BY <1>1, <2>1, StoreType DEF FailSave, TypeOK
<1> QED BY <1>2, <1>3 DEF FailSave

LEMMA LogLostType == ASSUME TypeOK, NEW p \in Procs, LogLost(p) PROVE TypeOK'
BY TaskReturns, StoreType DEF LogLost, TypeOK

LEMMA SyncPickType == ASSUME TypeOK, NEW p \in Procs, SyncPick(p) PROVE TypeOK'
<1>1. CASE Return(p)
  BY <1>1, TaskReturns, TaskType DEF SyncPick, TypeOK
<1>2. ASSUME NEW t \in TestIds, mem' = [mem EXCEPT ![p].test = t], Go(p, "sync_last")
      PROVE  TypeOK'
  <2> DEFINE m == [mem[p] EXCEPT !.test = t]
  <2>1. m \in Local /\ SameBatch(p, m) /\ m.test \in TestIds
    BY TestField, LocalTypes DEF TypeOK, Local, SameBatch
  <2>2. mem' = [mem EXCEPT ![p] = m]
    BY <1>2
  <2> HIDE DEF m
  <2>3. LocalOK'
    BY <1>2, <2>1, <2>2, BatchStays DEF SyncPick, TypeOK, PC, HasBatch, HasTest,
        Persisting, Storing, Reading
  <2> QED BY <2>3, TaskType DEF SyncPick
<1> QED BY <1>1, <1>2 DEF SyncPick

\* A batch is never empty and never longer than its bound.
LEMMA BatchBound ==
  ASSUME NEW from \in Nat, NEW current \in Nat, Missing(from, current) > 0
  PROVE  Batch(Missing(from, current)) \in 1 .. BatchSize
BY CapacityAssumption DEF Missing, Batch, Least

LEMMA SyncLastType == ASSUME TypeOK, NEW p \in Procs, SyncLast(p) PROVE TypeOK'
<1>1. CASE Return(p)
  BY <1>1, TaskReturns, TaskType DEF SyncLast, TypeOK
<1>2. CASE ~ Return(p)
  <2> DEFINE gap(from) == Missing(from, mem[p].rt.seq)
             w(from) == IF gap(from) > Capacity THEN "sync_overrun" ELSE "sync_read"
             c(from) == Batch(gap(from))
  <2>1. PICK from \in {0} \cup {s.seq : s \in samples[mem[p].test]} :
          /\ gap(from) > 0
          /\ mem' = [mem EXCEPT ![p].from = from, ![p].count = c(from)]
          /\ Go(p, w(from))
    BY <1>2 DEF SyncLast
  <2>2. mem[p].test \in TestIds /\ mem[p].batch = << >>
    BY LocalTypes DEF SyncLast, TypeOK, MemoryOK, HasTest, HasBatch, Storing
  <2>3. from \in Nat /\ mem[p].rt.seq \in Nat
    BY <2>1, <2>2, LocalTypes DEF TypeOK, Sample, Runtime
  <2>4. c(from) \in 1 .. BatchSize /\ c(from) \in Nat
    BY <2>1, <2>3, BatchBound, CapacityAssumption
  <2>5. w(from) \in PC /\ w(from) \in Reading /\ w(from) \in {"sync_overrun", "sync_read"}
    BY DEF PC, Reading
  <2> DEFINE m == [mem[p] EXCEPT !.from = from, !.count = c(from)]
  <2> HIDE DEF gap, w, c
  <2>6. mem' = [mem EXCEPT ![p] = m]
    BY <2>1
  <2>7. m \in Local /\ m.batch = << >> /\ m.count = c(from) /\ m.test = mem[p].test
    BY <2>2, <2>3, <2>4, LocalTypes DEF TypeOK, Local
  <2> HIDE DEF m
  <2>8. MemoryOK(m, w(from))
    BY <2>2, <2>4, <2>7, CapacityAssumption DEF MemoryOK
  <2>9. LocalOK'
    BY <2>1, <2>5, <2>6, <2>7, <2>8, TaskGoes DEF TypeOK
  <2> QED BY <2>9, TaskType DEF SyncLast
<1> QED BY <1>1, <1>2

LEMMA SyncOverrunType == ASSUME TypeOK, NEW p \in Procs, SyncOverrun(p) PROVE TypeOK'
<1>1. LocalOK'
  BY MemoryStays DEF SyncOverrun, TypeOK, PC, HasBatch, HasTest, Persisting, Storing, Reading
<1>2. mem[p].test \in TestIds
  BY LocalTypes DEF SyncOverrun, TypeOK, MemoryOK, HasTest
<1> QED BY <1>1, <1>2, StoreType DEF SyncOverrun, TypeOK

LEMMA SyncReadType == ASSUME TypeOK, NEW p \in Procs, SyncRead(p) PROVE TypeOK'
<1>1. CASE Fail(p, "sync_failed")
  <2>1. LocalOK'
    BY <1>1, FailType DEF SyncRead, PC, HasBatch, HasTest, Persisting, Storing, Reading
  <2> QED BY <2>1, TaskType DEF SyncRead
<1>2. CASE ~ Fail(p, "sync_failed")
  <2> DEFINE b == Append(mem[p].batch, NextRecord(p))
             w == IF Len(mem[p].batch) + 1 < mem[p].count THEN "sync_read" ELSE "sync_check"
             m == [mem[p] EXCEPT !.batch = b]
  <2>1. mem' = [mem EXCEPT ![p] = m] /\ Go(p, w)
    BY <1>2 DEF SyncRead
  <2>2. /\ Len(mem[p].batch) < mem[p].count /\ mem[p].count <= BatchSize
        /\ mem[p].test \in TestIds /\ mem[p].count \in Nat
    BY LocalTypes DEF SyncRead, TypeOK, MemoryOK, HasTest, Reading
  <2>3. b \in Seq(Sample) /\ Len(b) = Len(mem[p].batch) + 1 /\ Len(mem[p].batch) \in Nat
    BY LocalTypes, NextType DEF TypeOK
  <2>4. w \in PC /\ w \in HasBatch
    BY DEF PC, HasBatch, Storing
  <2>5. w \in Reading => Len(b) < mem[p].count
    BY <2>3 DEF Reading
  <2> HIDE DEF b, w
  <2>6. m \in Local /\ m.batch = b /\ m.count = mem[p].count /\ m.test = mem[p].test
    BY <2>3, BatchField, LocalTypes DEF TypeOK, Local
  <2> HIDE DEF m
  <2>7. MemoryOK(m, w)
    BY <2>2, <2>3, <2>4, <2>5, <2>6 DEF MemoryOK
  <2>8. LocalOK'
    BY <2>1, <2>4, <2>6, <2>7, TaskGoes DEF TypeOK
  <2> QED BY <2>8, TaskType DEF SyncRead
<1> QED BY <1>1, <1>2

LEMMA NextInBatchType ==
  ASSUME TypeOK, NEW p \in Procs, pc[p] \in Storing, NextInBatch(p)
  PROVE  LocalOK'
<1>1. CASE Return(p)
  BY <1>1, TaskReturns DEF TypeOK
<1>2. CASE ~ Return(p)
  <2> DEFINE b == Tail(mem[p].batch)
             m == [mem[p] EXCEPT !.batch = b]
  <2>1. mem' = [mem EXCEPT ![p] = m] /\ Go(p, "sync_check") /\ Len(mem[p].batch) > 1
    BY <1>2 DEF NextInBatch
  <2>2. /\ Len(mem[p].batch) <= mem[p].count /\ mem[p].count <= BatchSize
        /\ mem[p].test \in TestIds /\ mem[p].count \in Nat
    BY LocalTypes DEF TypeOK, MemoryOK, HasTest
  <2>3. b \in Seq(Sample) /\ Len(b) = Len(mem[p].batch) - 1 /\ Len(mem[p].batch) \in Nat
    BY <2>1, LocalTypes DEF TypeOK
  <2> HIDE DEF b
  <2>4. m \in Local /\ m.batch = b /\ m.count = mem[p].count /\ m.test = mem[p].test
    BY <2>3, BatchField, LocalTypes DEF TypeOK, Local
  <2> HIDE DEF m
  <2>5. MemoryOK(m, "sync_check")
    BY <2>2, <2>3, <2>4 DEF MemoryOK, HasBatch, Storing, Reading
  <2>6. "sync_check" \in PC
    BY DEF PC
  <2> QED BY <2>1, <2>4, <2>5, <2>6, TaskGoes DEF TypeOK
<1> QED BY <1>1, <1>2

LEMMA SyncCheckType == ASSUME TypeOK, NEW p \in Procs, SyncCheck(p) PROVE TypeOK'
<1>1. CASE NextInBatch(p)
  BY <1>1, NextInBatchType, TaskType DEF SyncCheck, Storing
<1>2. CASE Go(p, "sync_insert") /\ UNCHANGED mem
  <2>1. LocalOK'
    BY <1>2, MemoryStays DEF SyncCheck, TypeOK, PC, HasBatch, HasTest, Persisting, Storing, Reading
  <2> QED BY <2>1, TaskType DEF SyncCheck
<1> QED BY <1>1, <1>2 DEF SyncCheck

LEMMA SyncInsertType == ASSUME TypeOK, NEW p \in Procs, SyncInsert(p) PROVE TypeOK'
<1>1. LocalOK'
  BY NextInBatchType DEF SyncInsert, Storing
<1>2. mem[p].batch \in Seq(Sample) /\ Len(mem[p].batch) > 0
  BY LocalTypes DEF TypeOK, SyncInsert, NextInBatch
<1>3. Head(mem[p].batch) \in Sample
  BY <1>2
<1>4. samples' \in [TestIds -> SUBSET Sample]
  BY <1>3, InsertType DEF SyncInsert
<1> QED BY <1>1, <1>4, StoreType DEF SyncInsert, TypeOK

LEMMA SyncFailedType == ASSUME TypeOK, NEW p \in Procs, SyncFailed(p) PROVE TypeOK'
<1>1. rt' \in Runtime
  BY LocalTypes DEF SyncFailed, TypeOK, Runtime
<1> QED BY <1>1, TaskReturns, StoreType DEF SyncFailed, TypeOK

-----------------------------------------------------------------------------
(* Types: what ends a task early, and what goes on around the tasks.       *)

LEMMA RefusedType == ASSUME TypeOK, NEW p \in Procs, Refused(p) PROVE TypeOK'
BY TaskReturns, TaskType DEF Refused, InsertRefused, OverrunRefused, TypeOK

LEMMA CrashType == ASSUME TypeOK, NEW p \in Procs, Crash(p) PROVE TypeOK'
<1>1. LocalOK'
  BY TaskReturns DEF Crash, TypeOK
<1>2. crashes' \in Nat
  BY DEF Crash, TypeOK
<1> QED BY <1>1, <1>2 DEF Crash, TypeOK, Lives!TypeOK, store, testVars, plcVars, link

LEMMA LocalKept == LocalOK /\ UNCHANGED <<pc, mem>> => LocalOK'
BY DEF LocalOK, MemoryOK

LEMMA TestStepType ==
  ASSUME TypeOK, NEW t \in TestIds, StartTest(t) \/ EndTest(t) \/ DeleteTest(t)
  PROVE  TypeOK'
<1>1. LocalOK' /\ (last \in 0 .. MaxSeq /\ kept \subseteq 1 .. last)'
  BY LocalKept DEF TypeOK, StartTest, EndTest, DeleteTest, tasks, plcVars
<1>2. now' = now /\ boot' = boot /\ due' \in [TestIds -> Nat]
  BY DEF TypeOK, Lives!TypeOK, StartTest, EndTest, DeleteTest, plcVars,
         Lives!Start, Lives!Judge, Lives!Abort, Lives!Delete
<1>3. life' \in [TestIds -> Lives!Life]
  BY DEF TypeOK, Lives!TypeOK, StartTest, EndTest, DeleteTest, Lives!Life,
         Lives!Start, Lives!Judge, Lives!Abort, Lives!Delete, Lives!Become
<1>4. Lives!TypeOK' /\ boot' \in 0 .. now'
  BY <1>2, <1>3 DEF TypeOK, Lives!TypeOK
<1>5. started' \in [TestIds -> Nat]
  BY DEF TypeOK, Lives!TypeOK, StartTest, EndTest, DeleteTest
<1>6. samples' \in [TestIds -> SUBSET Sample] /\ overruns' \subseteq TestIds
  BY DEF TypeOK, StartTest, EndTest, DeleteTest, tasks, store
<1> QED
  BY <1>1, <1>4, <1>5, <1>6
     DEF TypeOK, StartTest, EndTest, DeleteTest, tasks, store, plcVars, link

LEMMA SampleType == ASSUME TypeOK, TakeSample PROVE TypeOK'
<1>1. LocalOK'
  BY LocalKept DEF TypeOK, TakeSample, tasks
<1>2. last' \in 0 .. MaxSeq /\ kept' \subseteq 1 .. last' /\ last + 1 \in Nat
  BY BoundAssumption DEF TypeOK, TakeSample, Plc!Sample, Plc!Newest
<1>3. now - boot \in Nat
  BY DEF TypeOK, Lives!TypeOK
<1>4. stamp' \in [1 .. MaxSeq -> Nat]
  BY <1>3 DEF TypeOK, TakeSample
<1>5. [seq |-> last + 1, stamp |-> now - boot] \in [seq : Nat, stamp : Nat]
  BY <1>2, <1>3
<1>6. stamp' \in [1 .. MaxSeq -> Nat] /\ taken' \subseteq [seq : Nat, stamp : Nat]
  BY <1>4, <1>5 DEF TypeOK, TakeSample
<1> QED
  BY <1>1, <1>2, <1>6
     DEF TypeOK, Lives!TypeOK, TakeSample, tasks, store, testVars, link

LEMMA AroundType ==
  ASSUME TypeOK, Tick \/ PlcRestart \/ LinkDown \/ LinkUp
  PROVE  TypeOK'
<1>1. LocalOK'
  BY LocalKept DEF TypeOK, Tick, PlcRestart, LinkDown, LinkUp, tasks
<1>2. Lives!TypeOK' /\ boot' \in 0 .. now'
  BY DEF TypeOK, Lives!TypeOK, Tick, PlcRestart, LinkDown, LinkUp, Lives!Advance,
         testVars, plcVars
<1> DEFINE ring == /\ last' \in 0 .. MaxSeq /\ kept' \subseteq 1 .. last'
                   /\ stamp' \in [1 .. MaxSeq -> Nat]
<1>3. ASSUME PlcRestart PROVE ring
  BY <1>3, BoundAssumption DEF PlcRestart, Plc!Restart
<1>4. ASSUME UNCHANGED plcVars PROVE ring
  BY <1>4 DEF TypeOK, plcVars
<1>5. ring
  BY <1>3, <1>4 DEF Tick, LinkDown, LinkUp
<1>6. restarts' \in Nat /\ cuts' \in Nat /\ crashes' \in Nat
  BY DEF TypeOK, Tick, PlcRestart, LinkDown, LinkUp, plcVars, link, tasks
<1> QED
  BY <1>1, <1>2, <1>5, <1>6
     DEF TypeOK, Tick, PlcRestart, LinkDown, LinkUp, tasks, store, testVars, plcVars, link

-----------------------------------------------------------------------------
(* Types of every behaviour.                                               *)

LEMMA TypeInit == Init => TypeOK
<1> SUFFICES ASSUME Init PROVE TypeOK
  OBVIOUS
<1>1. Lives!TypeOK
  BY DEF Init, Lives!Init, Lives!TypeOK, Lives!Life
<1>2. LocalOK
  BY IdleTask DEF Init, LocalOK, PC
<1>3. last \in 0 .. MaxSeq /\ kept \subseteq 1 .. last /\ stamp \in [1 .. MaxSeq -> Nat]
  BY BoundAssumption DEF Init, Plc!Init
<1>4. rt \in Runtime
  BY DEF Init, NoRuntime, Runtime, OptTime, NotSet
<1> QED BY <1>1, <1>2, <1>3, <1>4 DEF Init, TypeOK, Lives!Init

LEMMA PollType == ASSUME TypeOK, NEW p \in Pollers, PollStep(p) PROVE TypeOK'
<1>1. p \in Procs
  BY DEF Procs
<1> QED
  BY <1>1, PollLoadType, ReadStatusType, ReadLiveType, PollPickType, PollSaveType,
     LogRestoredType, PersistPickType, PersistCheckType, PersistInsertType, FailSaveType,
     LogLostType DEF PollStep

LEMMA SyncType == ASSUME TypeOK, NEW p \in Syncers, SyncStep(p) PROVE TypeOK'
<1>1. p \in Procs
  BY DEF Procs
<1> QED
  BY <1>1, SyncLoadType, SyncPickType, SyncLastType, SyncOverrunType, SyncReadType,
     SyncCheckType, SyncInsertType, SyncFailedType DEF SyncStep

LEMMA TypeNext == TypeOK /\ [Next]_vars => TypeOK'
<1> SUFFICES ASSUME TypeOK, [Next]_vars PROVE TypeOK'
  OBVIOUS
<1>1. CASE UNCHANGED vars
  BY <1>1, LocalKept
     DEF TypeOK, Lives!TypeOK, vars, testVars, plcVars, link, store
<1>2. CASE Next
  BY <1>2, PollType, SyncType, RefusedType, CrashType, TestStepType, SampleType, AroundType
     DEF Next, Refused
<1> QED BY <1>1, <1>2

\* Types of the tasks, the rows and the PLC in every state: what a task holds in its hands
\* is a row and records as the code builds them, and a batch of history_sync never gets
\* longer than its bound, however large the gap.
THEOREM PollerTypeCorrect == Spec => []TypeOK
BY TypeInit, TypeNext, PTL DEF Spec

-----------------------------------------------------------------------------
(* Samples: what a task holds in its hands.                                *)

HeldOK == \A p \in Procs : TaskInv(mem[p], pc[p])
StoredOK == SamplesUnique /\ SamplesGenuine /\ PhaseOfItsTest

LEMMA TaskOfIInv ==
  ASSUME TypeOK, IInv, NEW p \in Procs
  PROVE  /\ TaskInv(mem[p], pc[p])
         /\ mem[p].rec \in Sample /\ mem[p].rec.stamp \in Nat /\ now \in Nat
         /\ mem[p].batch \in Seq(Sample) /\ Len(mem[p].batch) \in Nat
<1>1. TaskInv(mem[p], pc[p]) /\ now \in Nat
  BY DEF IInv, TypeOK, Lives!TypeOK
<1>2. mem[p].rec \in Sample /\ mem[p].batch \in Seq(Sample) /\ Len(mem[p].batch) \in Nat
  BY LocalTypes DEF TypeOK
<1> QED BY <1>1, <1>2 DEF Sample

\* A task that goes to w with the memory m, when nothing it is judged by changes.
LEMMA HeldGoes ==
  ASSUME TypeOK, IInv, NEW p \in Procs, NEW w, NEW m, Go(p, w), mem' = [mem EXCEPT ![p] = m],
         TaskInv(m, w), UNCHANGED <<now, life, started, taken>>
  PROVE  HeldOK'
<1> SUFFICES ASSUME NEW q \in Procs PROVE TaskInv(mem[q], pc[q])'
  BY DEF HeldOK
<1>1. CASE q = p
  <2>1. mem'[q] = m /\ pc'[q] = w
    BY <1>1 DEF Go, TypeOK, LocalOK
  <2>2. (Genuine(mem[q].rec) /\ mem[q].rec.stamp <= now)'
    BY <2>1 DEF TaskInv, Genuine
  <2>3. (pc[q] \in HasTest => life[mem[q].test] # "none")'
    BY <2>1 DEF TaskInv
  <2>4. (pc[q] \in PhaseKnown => \A t \in Active : RightPhase(t, mem[q].rec))'
    BY <2>1 DEF TaskInv, RightPhase, Active
  <2>5. (pc[q] \in Persisting => RightPhase(mem[q].test, mem[q].rec))'
    BY <2>1 DEF TaskInv, RightPhase
  <2>6. (pc[q] \in Storing => Len(mem[q].batch) > 0)'
    BY <2>1 DEF TaskInv
  <2>7. (pc[q] \in Storing \cup {"sync_read"} =>
           \A i \in 1 .. Len(mem[q].batch) :
             Genuine(mem[q].batch[i]) /\ RightPhase(mem[q].test, mem[q].batch[i]))'
    BY <2>1 DEF TaskInv, Genuine, RightPhase
  <2> QED
    BY <2>2, <2>3, <2>4, <2>5, <2>6, <2>7 DEF TaskInv
<1>2. CASE q # p
  <2>1. mem'[q] = mem[q] /\ pc'[q] = pc[q]
    BY <1>2 DEF Go, TypeOK, LocalOK
  <2>2. TaskInv(mem[q], pc[q])
    BY DEF IInv, HeldOK
  <2>3. \A x : Genuine(x)' = Genuine(x)
    BY DEF Genuine
  <2>4. UNCHANGED Active /\ \A t, x : RightPhase(t, x)' = RightPhase(t, x)
    BY DEF Active, RightPhase
  <2> QED
    BY <2>1, <2>2, <2>3, <2>4 DEF TaskInv
<1> QED BY <1>1, <1>2

\* What is stored stays in order when nothing is stored.
LEMMA NoSampleInv ==
  ASSUME IInv, HeldOK', UNCHANGED <<now, life, started, plcVars, samples>>
  PROVE  IInv'
<1>1. PlcInv' /\ TestInv' /\ StoredOK'
  BY DEF IInv, PlcInv, TestInv, StoredOK, SamplesUnique, SamplesGenuine, PhaseOfItsTest,
         Genuine, RightPhase, Active, plcVars
<1> QED BY <1>1 DEF IInv, HeldOK, StoredOK

LEMMA GoesInv ==
  ASSUME TypeOK, IInv, NEW p \in Procs, NEW w, NEW m, Go(p, w), mem' = [mem EXCEPT ![p] = m],
         TaskInv(m, w), UNCHANGED <<now, life, started, plcVars, samples>>
  PROVE  IInv'
BY HeldGoes, NoSampleInv DEF plcVars

\* A task with an empty memory.
LEMMA IdleInv == ASSUME TypeOK PROVE TaskInv(NoLocal, "idle")
<1>1. now \in Nat
  BY DEF TypeOK, Lives!TypeOK
<1> QED
  BY <1>1 DEF TaskInv, NoLocal, Blank, Genuine, HasTest, PhaseKnown, Persisting, Storing

LEMMA ReturnInv ==
  ASSUME TypeOK, IInv, NEW p \in Procs, Return(p),
         UNCHANGED <<now, life, started, plcVars, samples>>
  PROVE  IInv'
BY IdleInv, GoesInv DEF Return

\* A task that keeps the record it has and has no test in its hands.
LEMMA CarryInv ==
  ASSUME TypeOK, IInv, NEW p \in Procs, NEW w, NEW m, Go(p, w), mem' = [mem EXCEPT ![p] = m],
         m.rec = mem[p].rec, w \notin HasTest \cup PhaseKnown,
         UNCHANGED <<now, life, started, plcVars, samples>>
  PROVE  IInv'
<1>1. TaskInv(m, w)
  BY TaskOfIInv DEF TaskInv, HasTest
<1> QED BY <1>1, GoesInv

\* A task that keeps all it has and is asked no more of than before.
LEMMA StayInv ==
  ASSUME TypeOK, IInv, NEW p \in Procs, NEW w, Go(p, w), UNCHANGED mem,
         w \in HasTest => pc[p] \in HasTest,
         w \in PhaseKnown => pc[p] \in PhaseKnown,
         w \in Persisting => pc[p] \in Persisting,
         w \in Storing => pc[p] \in Storing,
         w = "sync_read" => mem[p].batch = << >>,
         UNCHANGED <<now, life, started, plcVars, samples>>
  PROVE  IInv'
<1>1. mem' = [mem EXCEPT ![p] = mem[p]]
  BY DEF TypeOK, LocalOK
<1>2. TaskInv(mem[p], w)
  BY TaskOfIInv DEF TaskInv
<1> QED BY <1>1, <1>2, GoesInv

-----------------------------------------------------------------------------
(* Samples: fast_poll.                                                     *)

LEMMA LoadInv ==
  ASSUME TypeOK, IInv, NEW p \in Procs, PollLoad(p) \/ SyncLoad(p)
  PROVE  IInv'
<1> DEFINE m == [mem[p] EXCEPT !.rt = rt]
<1>1. mem' = [mem EXCEPT ![p] = m]
  BY DEF PollLoad, SyncLoad
<1>2. m.rec = mem[p].rec
  BY LocalTypes DEF TypeOK, Local
<1> HIDE DEF m
<1> QED
  BY <1>1, <1>2, CarryInv DEF PollLoad, SyncLoad, outside, store, testVars, HasTest,
     PhaseKnown, Persisting, Storing

LEMMA FailInv ==
  ASSUME TypeOK, IInv, NEW p \in Procs, NEW w, Fail(p, w), w \notin HasTest \cup PhaseKnown,
         UNCHANGED <<outside, store>>
  PROVE  IInv'
<1> DEFINE m == [mem[p] EXCEPT !.rt = [mem[p].rt EXCEPT !.since = LossSince(p)]]
<1>1. mem' = [mem EXCEPT ![p] = m]
  BY DEF Fail
<1>2. m.rec = mem[p].rec
  BY LocalTypes DEF TypeOK, Local
<1> HIDE DEF m
<1> QED BY <1>1, <1>2, CarryInv DEF Fail, outside, store, testVars

LEMMA ReadStatusInv == ASSUME TypeOK, IInv, NEW p \in Procs, ReadStatus(p) PROVE IInv'
<1>1. CASE Fail(p, "poll_failed")
  BY <1>1, FailInv DEF ReadStatus, HasTest, PhaseKnown, Persisting, Storing
<1>2. CASE Go(p, "read_live") /\ mem' = [mem EXCEPT ![p].rt.seq = last]
  <2> DEFINE m == [mem[p] EXCEPT !.rt = [mem[p].rt EXCEPT !.seq = last]]
  <2>1. mem' = [mem EXCEPT ![p] = m]
    BY <1>2
  <2>2. m.rec = mem[p].rec
    BY LocalTypes DEF TypeOK, Local
  <2> HIDE DEF m
  <2> QED
    BY <1>2, <2>1, <2>2, CarryInv DEF ReadStatus, outside, store, testVars, HasTest,
       PhaseKnown, Persisting, Storing
<1> QED BY <1>1, <1>2 DEF ReadStatus

\* The live record is the newest sample of the PLC, with the time it was taken at.
LEMMA LiveGenuine ==
  ASSUME TypeOK, IInv
  PROVE  Genuine(LiveRecord) /\ LiveRecord.stamp <= now
<1>1. now \in Nat
  BY DEF TypeOK, Lives!TypeOK
<1>2. CASE last = 0
  BY <1>1, <1>2 DEF LiveRecord, Blank, Genuine
<1>3. CASE last # 0
  <2>1. last \in 1 .. last /\ last \in 1 .. MaxSeq
    BY <1>3, BoundAssumption DEF TypeOK
  <2> QED
    BY <1>3, <2>1 DEF LiveRecord, Genuine, IInv, PlcInv
<1> QED BY <1>2, <1>3

LEMMA ReadLiveInv == ASSUME TypeOK, IInv, NEW p \in Procs, ReadLive(p) PROVE IInv'
<1>1. CASE Fail(p, "poll_failed")
  BY <1>1, FailInv DEF ReadLive, HasTest, PhaseKnown, Persisting, Storing
<1>2. CASE Go(p, "poll_pick") /\ mem' = [mem EXCEPT ![p].rec = LiveRecord]
  <2> DEFINE m == [mem[p] EXCEPT !.rec = LiveRecord]
  <2>1. mem' = [mem EXCEPT ![p] = m]
    BY <1>2
  <2>2. m.rec = LiveRecord
    BY LocalTypes DEF TypeOK, Local
  <2> HIDE DEF m
  <2>3. TaskInv(m, "poll_pick")
    BY <2>2, LiveGenuine DEF TaskInv, HasTest, PhaseKnown, Persisting, Storing
  <2> QED
    BY <1>2, <2>1, <2>3, GoesInv DEF ReadLive, outside, store, testVars
<1> QED BY <1>1, <1>2 DEF ReadLive

\* The phase the code works out is the phase the test had at that time.
LEMMA PhaseIsRight ==
  ASSUME TypeOK, NEW t \in TestIds, NEW r \in Sample
  PROVE  RightPhase(t, [r EXCEPT !.phase = PhaseAt(t, r.stamp)])
<1> DEFINE q == [r EXCEPT !.phase = PhaseAt(t, r.stamp)]
<1>1. q.phase = PhaseAt(t, r.stamp) /\ q.stamp = r.stamp /\ q.seq = r.seq
  BY DEF Sample
<1>2. r.stamp \in Nat /\ started[t] \in Nat
  BY DEF TypeOK, Sample
<1>3. Recipe.start \in Nat /\ Recipe.stable \in Nat /\ Recipe.stop \in Nat
  BY RecipeAssumption
<1> HIDE DEF q
<1> QED BY <1>1, <1>2, <1>3 DEF RightPhase, PhaseAt, q

LEMMA OnlyActive ==
  ASSUME IInv, NEW t \in TestIds, IsFirstActive(t)
  PROVE  Active = {t} /\ life[t] = "running"
BY DEF IInv, TestInv, IsFirstActive, Active

LEMMA PollPickInv == ASSUME TypeOK, IInv, NEW p \in Procs, PollPick(p) PROVE IInv'
<1> DEFINE r == [mem[p].rt EXCEPT !.seen = now]
           q(t) == [mem[p].rec EXCEPT !.phase = PhaseAt(t, mem[p].rec.stamp)]
<1>1. CASE Active = {} /\ mem' = [mem EXCEPT ![p].rt.seen = now]
  <2> DEFINE m == [mem[p] EXCEPT !.rt = r]
  <2>1. mem' = [mem EXCEPT ![p] = m]
    BY <1>1
  <2>2. m.rec = mem[p].rec
    BY LocalTypes DEF TypeOK, Local
  <2> HIDE DEF m
  <2>3. TaskInv(m, "poll_save")
    BY <1>1, <2>2, TaskOfIInv DEF TaskInv, HasTest, Persisting, Storing
  <2> QED BY <2>1, <2>3, GoesInv DEF PollPick, outside, store, testVars
<1>2. ASSUME NEW t \in TestIds, IsFirstActive(t),
             mem' = [mem EXCEPT ![p].rt.seen = now,
                                ![p].rec.phase = PhaseAt(t, mem[p].rec.stamp)]
      PROVE  IInv'
  <2> DEFINE m == [mem[p] EXCEPT !.rt = r, !.rec = q(t)]
  <2>1. mem' = [mem EXCEPT ![p] = m]
    BY <1>2
  <2>2. m.rec = q(t) /\ q(t).seq = mem[p].rec.seq /\ q(t).stamp = mem[p].rec.stamp
    BY LocalTypes DEF TypeOK, Local, Sample
  <2>3. RightPhase(t, q(t))
    BY PhaseIsRight, LocalTypes DEF TypeOK
  <2> HIDE DEF q, r, m
  <2>4. TaskInv(m, "poll_save")
    BY <1>2, <2>2, <2>3, OnlyActive, TaskOfIInv
       DEF TaskInv, HasTest, Persisting, Storing, Genuine
  <2> QED BY <2>1, <2>4, GoesInv DEF PollPick, outside, store, testVars
<1> QED BY <1>1, <1>2 DEF PollPick

LEMMA PollSaveInv == ASSUME TypeOK, IInv, NEW p \in Procs, PollSave(p) PROVE IInv'
BY StayInv
   DEF PollSave, outside, testVars, HasTest, PhaseKnown, Persisting, Storing

LEMMA LogRestoredInv == ASSUME TypeOK, IInv, NEW p \in Procs, LogRestored(p) PROVE IInv'
BY StayInv
   DEF LogRestored, outside, testVars, HasTest, PhaseKnown, Persisting, Storing

LEMMA PersistPickInv == ASSUME TypeOK, IInv, NEW p \in Procs, PersistPick(p) PROVE IInv'
<1>1. CASE Return(p)
  BY <1>1, ReturnInv DEF PersistPick, outside, store, testVars
<1>2. ASSUME NEW t \in TestIds, IsFirstActive(t), mem' = [mem EXCEPT ![p].test = t],
             Go(p, "persist_check")
      PROVE  IInv'
  <2> DEFINE m == [mem[p] EXCEPT !.test = t]
  <2>1. mem' = [mem EXCEPT ![p] = m]
    BY <1>2
  <2>2. m.rec = mem[p].rec /\ m.test = t
    BY LocalTypes DEF TypeOK, Local
  <2> HIDE DEF m
  <2>3. RightPhase(t, mem[p].rec)
    BY <1>2, TaskOfIInv DEF PersistPick, TaskInv, PhaseKnown, IsFirstActive
  <2>4. TaskInv(m, "persist_check")
    BY <1>2, <2>2, <2>3, OnlyActive, TaskOfIInv DEF TaskInv, PhaseKnown, Storing
  <2> QED BY <1>2, <2>1, <2>4, GoesInv DEF PersistPick, outside, store, testVars
<1> QED BY <1>1, <1>2 DEF PersistPick

LEMMA PersistCheckInv == ASSUME TypeOK, IInv, NEW p \in Procs, PersistCheck(p) PROVE IInv'
<1>1. CASE Return(p)
  BY <1>1, ReturnInv DEF PersistCheck, outside, store, testVars
<1>2. CASE Go(p, "persist_insert") /\ UNCHANGED mem
  BY <1>2, StayInv DEF PersistCheck, outside, store, testVars, HasTest, PhaseKnown,
     Persisting, Storing
<1> QED BY <1>1, <1>2 DEF PersistCheck

\* Storing a record that is genuine and in its phase, for a test that has begun.
LEMMA InsertInv ==
  ASSUME TypeOK, IInv, NEW t \in TestIds, NEW rec \in Sample, Insert(t, rec),
         life[t] # "none", Genuine(rec), RightPhase(t, rec),
         UNCHANGED <<now, life, started, plcVars>>
  PROVE  PlcInv' /\ TestInv' /\ StoredOK'
<1>1. \A u \in TestIds : samples'[u] = IF u = t THEN samples[t] \cup {rec} ELSE samples[u]
  BY DEF Insert, TypeOK
<1>2. \A s \in samples[t] : s.seq # rec.seq
  BY DEF Insert, MayInsert, SampleTaken, Stored
<1>3. SamplesUnique'
  BY <1>1, <1>2 DEF IInv, SamplesUnique
<1>4. SamplesGenuine'
  BY <1>1 DEF IInv, SamplesGenuine, Genuine, plcVars
<1>5. PhaseOfItsTest'
  BY <1>1 DEF IInv, PhaseOfItsTest, RightPhase
<1>6. PlcInv' /\ TestInv'
  BY <1>1 DEF IInv, PlcInv, TestInv, Active, plcVars
<1> QED BY <1>3, <1>4, <1>5, <1>6 DEF StoredOK

LEMMA PersistInsertInv == ASSUME TypeOK, IInv, NEW p \in Procs, PersistInsert(p) PROVE IInv'
<1>1. mem[p].test \in TestIds /\ mem[p].rec \in Sample
  BY LocalTypes DEF TypeOK, MemoryOK, PersistInsert, HasTest, Persisting
<1>2. /\ life[mem[p].test] # "none" /\ Genuine(mem[p].rec)
      /\ RightPhase(mem[p].test, mem[p].rec)
  BY TaskOfIInv DEF PersistInsert, TaskInv, HasTest, Persisting
<1>3. PlcInv' /\ TestInv' /\ StoredOK'
  BY <1>1, <1>2, InsertInv DEF PersistInsert, outside, testVars
<1>4. HeldOK'
  BY IdleInv, HeldGoes DEF Return, PersistInsert, outside, testVars, plcVars
<1> QED BY <1>3, <1>4 DEF IInv, HeldOK, StoredOK

LEMMA FailSaveInv == ASSUME TypeOK, IInv, NEW p \in Procs, FailSave(p) PROVE IInv'
<1>1. CASE Return(p)
  BY <1>1, ReturnInv DEF FailSave, outside, testVars
<1>2. CASE Go(p, "log_lost") /\ UNCHANGED mem
  BY <1>2, StayInv DEF FailSave, outside, testVars, HasTest, PhaseKnown, Persisting, Storing
<1> QED BY <1>1, <1>2 DEF FailSave

LEMMA LogLostInv == ASSUME TypeOK, IInv, NEW p \in Procs, LogLost(p) PROVE IInv'
BY ReturnInv DEF LogLost, outside, testVars

-----------------------------------------------------------------------------
(* Samples: history_sync.                                                  *)

LEMMA SyncPickInv == ASSUME TypeOK, IInv, NEW p \in Procs, SyncPick(p) PROVE IInv'
<1>1. CASE Return(p)
  BY <1>1, ReturnInv DEF SyncPick, outside, store, testVars
<1>2. ASSUME NEW t \in TestIds, IsFirstActive(t), mem' = [mem EXCEPT ![p].test = t],
             Go(p, "sync_last")
      PROVE  IInv'
  <2> DEFINE m == [mem[p] EXCEPT !.test = t]
  <2>1. mem' = [mem EXCEPT ![p] = m]
    BY <1>2
  <2>2. m.rec = mem[p].rec /\ m.test = t
    BY LocalTypes DEF TypeOK, Local
  <2> HIDE DEF m
  <2>3. TaskInv(m, "sync_last")
    BY <1>2, <2>2, OnlyActive, TaskOfIInv DEF TaskInv, PhaseKnown, Persisting, Storing
  <2> QED BY <1>2, <2>1, <2>3, GoesInv DEF SyncPick, outside, store, testVars
<1> QED BY <1>1, <1>2 DEF SyncPick

LEMMA SyncLastInv == ASSUME TypeOK, IInv, NEW p \in Procs, SyncLast(p) PROVE IInv'
<1>1. CASE Return(p)
  BY <1>1, ReturnInv DEF SyncLast, outside, store, testVars
<1>2. ASSUME NEW from, NEW count, NEW w \in {"sync_overrun", "sync_read"}, Go(p, w),
             mem' = [mem EXCEPT ![p].from = from, ![p].count = count]
      PROVE  IInv'
  <2> DEFINE m == [mem[p] EXCEPT !.from = from, !.count = count]
  <2>1. mem' = [mem EXCEPT ![p] = m]
    BY <1>2
  <2>2. m.rec = mem[p].rec /\ m.test = mem[p].test /\ m.batch = mem[p].batch
    BY LocalTypes DEF TypeOK, Local
  <2> HIDE DEF m
  <2>3. m.batch = << >>
    BY <2>2, LocalTypes DEF TypeOK, MemoryOK, SyncLast, HasBatch, Storing
  <2>4. life[m.test] # "none"
    BY <2>2, TaskOfIInv DEF TaskInv, SyncLast, HasTest
  <2>5. TaskInv(m, w)
    BY <2>2, <2>3, <2>4, TaskOfIInv DEF TaskInv, PhaseKnown, Persisting, Storing
  <2> QED BY <1>2, <2>1, <2>5, GoesInv DEF SyncLast, outside, store, testVars
<1> QED BY <1>1, <1>2 DEF SyncLast

LEMMA SyncOverrunInv == ASSUME TypeOK, IInv, NEW p \in Procs, SyncOverrun(p) PROVE IInv'
<1>1. mem[p].batch = << >>
  BY LocalTypes DEF TypeOK, MemoryOK, SyncOverrun, HasBatch, Storing
<1> QED
  BY <1>1, StayInv
     DEF SyncOverrun, outside, testVars, HasTest, PhaseKnown, Persisting, Storing

\* The record that is read next is a sample of the PLC, in the phase of the test.
LEMMA NextGenuine ==
  ASSUME TypeOK, IInv, NEW p \in Procs, mem[p].test \in TestIds
  PROVE  Genuine(NextRecord(p)) /\ RightPhase(mem[p].test, NextRecord(p))
<1> DEFINE s == (mem[p].from + Len(mem[p].batch)) % Capacity
           r == HistoryRecord(s)
<1>1. r \in Sample
  BY HistoryType
<1>2. Genuine(r)
  BY SlotRecord DEF Genuine, Blank, IInv, PlcInv
<1>3. NextRecord(p) = [r EXCEPT !.phase = PhaseAt(mem[p].test, r.stamp)]
  BY DEF NextRecord
<1> HIDE DEF r
<1>4. NextRecord(p).seq = r.seq /\ NextRecord(p).stamp = r.stamp
  BY <1>1, <1>3 DEF Sample
<1> QED BY <1>1, <1>2, <1>3, <1>4, PhaseIsRight DEF Genuine

LEMMA SyncReadInv == ASSUME TypeOK, IInv, NEW p \in Procs, SyncRead(p) PROVE IInv'
<1>1. CASE Fail(p, "sync_failed")
  BY <1>1, FailInv DEF SyncRead, HasTest, PhaseKnown, Persisting, Storing
<1>2. CASE ~ Fail(p, "sync_failed")
  <2> DEFINE rec == NextRecord(p)
             b == Append(mem[p].batch, rec)
             w == IF Len(mem[p].batch) + 1 < mem[p].count THEN "sync_read" ELSE "sync_check"
             m == [mem[p] EXCEPT !.batch = b]
  <2>1. mem' = [mem EXCEPT ![p] = m] /\ Go(p, w) /\ pc[p] = "sync_read"
    BY <1>2 DEF SyncRead
  <2>2. mem[p].batch \in Seq(Sample) /\ Len(mem[p].batch) \in Nat /\ rec \in Sample
    BY LocalTypes, NextType DEF TypeOK
  <2>3. mem[p].test \in TestIds /\ life[mem[p].test] # "none"
    BY <2>1, LocalTypes, TaskOfIInv DEF TypeOK, MemoryOK, TaskInv, HasTest
  <2>4. Genuine(rec) /\ RightPhase(mem[p].test, rec)
    BY <2>3, NextGenuine
  <2>5. \A i \in 1 .. Len(mem[p].batch) :
          Genuine(mem[p].batch[i]) /\ RightPhase(mem[p].test, mem[p].batch[i])
    BY <2>1, TaskOfIInv DEF TaskInv
  <2> HIDE DEF rec
  <2>6. /\ Len(b) = Len(mem[p].batch) + 1
        /\ \A i \in 1 .. Len(b) : b[i] = IF i <= Len(mem[p].batch) THEN mem[p].batch[i] ELSE rec
    BY <2>2
  <2> HIDE DEF b
  <2>7. \A i \in 1 .. Len(b) : Genuine(b[i]) /\ RightPhase(mem[p].test, b[i])
    <3> SUFFICES ASSUME NEW i \in 1 .. Len(b)
                 PROVE  Genuine(b[i]) /\ RightPhase(mem[p].test, b[i])
      OBVIOUS
    <3>1. CASE i <= Len(mem[p].batch)
      BY <2>2, <2>5, <2>6, <3>1
    <3>2. CASE ~ i <= Len(mem[p].batch)
      BY <2>4, <2>6, <3>2
    <3> QED BY <3>1, <3>2
  <2>8. m.rec = mem[p].rec /\ m.test = mem[p].test /\ m.batch = b
    BY LocalTypes DEF TypeOK, Local
  <2>9. w \in {"sync_read", "sync_check"}
    OBVIOUS
  <2> HIDE DEF m, w
  <2>10. TaskInv(m, w)
    BY <2>2, <2>3, <2>6, <2>7, <2>8, <2>9, TaskOfIInv
       DEF TaskInv, PhaseKnown, Persisting, Storing
  <2> QED BY <2>1, <2>10, GoesInv DEF SyncRead, outside, store, testVars
<1> QED BY <1>1, <1>2

\* What follows the head of the batch was there before.
LEMMA RestHeld ==
  ASSUME TypeOK, IInv, NEW p \in Procs, pc[p] \in Storing, NextInBatch(p),
         UNCHANGED <<now, life, started, plcVars>>
  PROVE  HeldOK'
<1>1. CASE Return(p)
  BY <1>1, IdleInv, HeldGoes DEF Return, plcVars
<1>2. CASE ~ Return(p)
  <2> DEFINE b == Tail(mem[p].batch)
             m == [mem[p] EXCEPT !.batch = b]
  <2>1. mem' = [mem EXCEPT ![p] = m] /\ Go(p, "sync_check") /\ Len(mem[p].batch) > 1
    BY <1>2 DEF NextInBatch
  <2>2. mem[p].batch \in Seq(Sample) /\ Len(mem[p].batch) \in Nat
    BY LocalTypes DEF TypeOK
  <2>3. /\ life[mem[p].test] # "none"
        /\ \A i \in 1 .. Len(mem[p].batch) :
             Genuine(mem[p].batch[i]) /\ RightPhase(mem[p].test, mem[p].batch[i])
    BY TaskOfIInv DEF TaskInv, HasTest
  <2>4. Len(b) = Len(mem[p].batch) - 1 /\ \A i \in 1 .. Len(b) : b[i] = mem[p].batch[i + 1]
    BY <2>1, <2>2
  <2>5. m.rec = mem[p].rec /\ m.test = mem[p].test /\ m.batch = b
    BY LocalTypes DEF TypeOK, Local
  <2> HIDE DEF b, m
  <2>6. \A i \in 1 .. Len(b) : Genuine(b[i]) /\ RightPhase(mem[p].test, b[i])
    BY <2>2, <2>3, <2>4
  <2>7. TaskInv(m, "sync_check")
    BY <2>1, <2>2, <2>3, <2>4, <2>5, <2>6, TaskOfIInv DEF TaskInv, PhaseKnown, Persisting
  <2> QED BY <2>1, <2>7, HeldGoes DEF plcVars
<1> QED BY <1>1, <1>2

LEMMA SyncCheckInv == ASSUME TypeOK, IInv, NEW p \in Procs, SyncCheck(p) PROVE IInv'
<1>1. CASE NextInBatch(p)
  <2>1. HeldOK'
    BY <1>1, RestHeld DEF SyncCheck, Storing, outside, testVars
  <2> QED BY <2>1, NoSampleInv DEF SyncCheck, outside, store, testVars
<1>2. CASE Go(p, "sync_insert") /\ UNCHANGED mem
  BY <1>2, StayInv DEF SyncCheck, outside, store, testVars, HasTest, PhaseKnown,
     Persisting, Storing
<1> QED BY <1>1, <1>2 DEF SyncCheck

LEMMA SyncInsertInv == ASSUME TypeOK, IInv, NEW p \in Procs, SyncInsert(p) PROVE IInv'
<1>1. HeldOK'
  BY RestHeld DEF SyncInsert, Storing, outside, testVars
<1>2. mem[p].batch \in Seq(Sample) /\ Len(mem[p].batch) \in Nat /\ Len(mem[p].batch) > 0
  BY LocalTypes, TaskOfIInv DEF TypeOK, SyncInsert, TaskInv, Storing
<1>3. Head(mem[p].batch) \in Sample /\ Head(mem[p].batch) = mem[p].batch[1]
  BY <1>2
<1>4. /\ life[mem[p].test] # "none" /\ Genuine(mem[p].batch[1])
      /\ RightPhase(mem[p].test, mem[p].batch[1])
  BY <1>2, TaskOfIInv DEF SyncInsert, TaskInv, HasTest, Storing
<1>5. mem[p].test \in TestIds
  BY LocalTypes DEF TypeOK, MemoryOK, SyncInsert, HasTest, Storing
<1>6. PlcInv' /\ TestInv' /\ StoredOK'
  BY <1>3, <1>4, <1>5, InsertInv DEF SyncInsert, outside, testVars
<1> QED BY <1>1, <1>6 DEF IInv, HeldOK, StoredOK

LEMMA SyncFailedInv == ASSUME TypeOK, IInv, NEW p \in Procs, SyncFailed(p) PROVE IInv'
BY ReturnInv DEF SyncFailed, outside, testVars

LEMMA EarlyEndInv ==
  ASSUME TypeOK, IInv, NEW p \in Procs, Refused(p) \/ Crash(p)
  PROVE  IInv'
BY ReturnInv DEF Refused, InsertRefused, OverrunRefused, Crash, outside, store, testVars

-----------------------------------------------------------------------------
(* Samples: tests, PLC, connection and clock.                              *)

\* What a task holds stays in order while time goes on, samples are taken and tests come
\* and go: a test that begins does so after everything that was read before.
LEMMA HeldAround ==
  ASSUME TypeOK, IInv, UNCHANGED <<pc, mem>>, now' \in Nat, now <= now', taken \subseteq taken',
         \A t \in TestIds : life[t] # "none" => life'[t] # "none" /\ started'[t] = started[t],
         \A t \in TestIds : t \in Active' => \/ t \in Active /\ started'[t] = started[t]
                                             \/ started'[t] = now
  PROVE  HeldOK'
<1> SUFFICES ASSUME NEW p \in Procs PROVE TaskInv(mem[p], pc[p])'
  BY DEF HeldOK
<1> DEFINE m == mem[p]
           w == pc[p]
<1>1. /\ TaskInv(m, w) /\ m.rec.stamp \in Nat /\ now \in Nat
      /\ m.batch \in Seq(Sample) /\ Len(m.batch) \in Nat
  BY TaskOfIInv
<1>2. mem'[p] = m /\ pc'[p] = w
  OBVIOUS
<1>3. w \in HasTest => m.test \in TestIds
  BY LocalTypes DEF TypeOK, MemoryOK
<1>4. Genuine(m.rec)' /\ (m.rec.stamp <= now)'
  BY <1>1 DEF TaskInv, Genuine
<1>5. w \in HasTest => life'[m.test] # "none" /\ started'[m.test] = started[m.test]
  BY <1>1, <1>3 DEF TaskInv
<1>6. ASSUME w \in PhaseKnown, NEW t \in TestIds, t \in Active' PROVE RightPhase(t, m.rec)'
  <2>1. CASE t \in Active /\ started'[t] = started[t]
    BY <1>1, <1>6, <2>1 DEF TaskInv, RightPhase
  <2>2. CASE started'[t] = now
    BY <1>1, <2>2 DEF TaskInv, RightPhase
  <2> QED BY <1>6, <2>1, <2>2
<1>7. w \in Persisting => RightPhase(m.test, m.rec)'
  BY <1>1, <1>5 DEF TaskInv, RightPhase, HasTest
<1>8. w \in Storing \cup {"sync_read"} =>
        (\A i \in 1 .. Len(m.batch) : Genuine(m.batch[i]) /\ RightPhase(m.test, m.batch[i]))'
  BY <1>1, <1>5 DEF TaskInv, Genuine, RightPhase, HasTest
<1>9. \A t \in Active' : t \in TestIds
  BY DEF Active
<1> QED
  BY <1>1, <1>4, <1>5, <1>6, <1>7, <1>8, <1>9 DEF TaskInv

\* The same of what is stored.
LEMMA StoredAround ==
  ASSUME TypeOK, IInv, taken \subseteq taken',
         \A t \in TestIds : samples'[t] = samples[t] \/ samples'[t] = {},
         \A t \in TestIds : life[t] # "none" => started'[t] = started[t]
  PROVE  StoredOK'
<1>1. SamplesUnique' /\ SamplesGenuine'
  BY DEF IInv, SamplesUnique, SamplesGenuine, Genuine
<1>2. ASSUME NEW t \in TestIds, NEW s \in samples'[t] PROVE RightPhase(t, s)'
  <2>1. s \in samples[t] /\ RightPhase(t, s)
    BY <1>2 DEF IInv, PhaseOfItsTest
  <2>2. started'[t] = started[t]
    BY <2>1 DEF IInv, TestInv
  <2> QED BY <2>1, <2>2 DEF RightPhase
<1> QED BY <1>1, <1>2 DEF StoredOK, PhaseOfItsTest

LEMMA StartInv == ASSUME TypeOK, IInv, NEW t \in TestIds, StartTest(t) PROVE IInv'
<1>1. /\ life[t] = "none" /\ Active = {}
      /\ \A u \in TestIds : life'[u] = IF u = t THEN "running" ELSE life[u]
      /\ \A u \in TestIds : started'[u] = IF u = t THEN now ELSE started[u]
      /\ now' = now /\ now \in Nat
  BY DEF StartTest, Lives!Start, Lives!Become, TypeOK, Lives!TypeOK
<1>2. UNCHANGED <<pc, mem, plcVars, samples>>
  BY DEF StartTest, tasks, store
<1>3. \A u \in TestIds : u \in Active' => u = t
  BY <1>1 DEF Active
<1>4. HeldOK'
  BY <1>1, <1>2, <1>3, HeldAround DEF plcVars
<1>5. StoredOK'
  BY <1>1, <1>2, StoredAround DEF plcVars
<1>6. PlcInv' /\ TestInv'
  BY <1>1, <1>2, <1>3 DEF IInv, PlcInv, TestInv, Active, plcVars
<1> QED BY <1>4, <1>5, <1>6 DEF IInv, HeldOK, StoredOK

LEMMA EndInv == ASSUME TypeOK, IInv, NEW t \in TestIds, EndTest(t) \/ DeleteTest(t) PROVE IInv'
<1>1. /\ life'[t] \in {"verdict", "aborted", "deleted"} /\ life[t] # "none"
      /\ \A u \in TestIds : u # t => life'[u] = life[u]
      /\ now' = now /\ now \in Nat /\ started' = started
  BY DEF EndTest, DeleteTest, Lives!Judge, Lives!Abort, Lives!Delete, Lives!Become,
         TypeOK, Lives!TypeOK
<1>2. /\ UNCHANGED <<pc, mem, plcVars>>
      /\ \A u \in TestIds : samples'[u] = samples[u] \/ samples'[u] = {}
  BY DEF EndTest, DeleteTest, tasks, store, TypeOK
<1>3. \A u \in TestIds : u \in Active' => u \in Active
  BY <1>1 DEF Active
<1>4. HeldOK'
  BY <1>1, <1>2, <1>3, HeldAround DEF plcVars
<1>5. StoredOK'
  BY <1>1, <1>2, StoredAround DEF plcVars
<1>6. PlcInv' /\ TestInv'
  BY <1>1, <1>2, <1>3 DEF IInv, PlcInv, TestInv, Active, plcVars
<1> QED BY <1>4, <1>5, <1>6 DEF IInv, HeldOK, StoredOK

LEMMA TakeSampleInv == ASSUME TypeOK, IInv, TakeSample PROVE IInv'
<1>1. /\ UNCHANGED <<pc, mem, life, started, samples, now>>
      /\ now \in Nat /\ boot \in 0 .. now /\ taken \subseteq taken'
  BY DEF TakeSample, tasks, store, testVars, TypeOK, Lives!TypeOK
<1>2. last' = last + 1 /\ last \in Nat /\ last + 1 \in 1 .. MaxSeq
  BY BoundAssumption DEF TakeSample, Plc!Sample, TypeOK
<1>3. \A n \in 1 .. MaxSeq : stamp'[n] = IF n = last + 1 THEN now - boot ELSE stamp[n]
  BY DEF TakeSample, TypeOK
<1>4. taken' = taken \cup {[seq |-> last + 1, stamp |-> now - boot]}
  BY DEF TakeSample
<1>5. \A n \in 1 .. MaxSeq : stamp'[n] <= now
  BY <1>1, <1>3 DEF IInv, PlcInv
<1>6. ASSUME NEW n \in 1 .. last' PROVE [seq |-> n, stamp |-> stamp'[n]] \in taken'
  <2>1. n \in 1 .. MaxSeq
    BY <1>2, BoundAssumption
  <2>2. CASE n = last + 1
    BY <1>3, <1>4, <2>1, <2>2
  <2>3. CASE n # last + 1
    <3>1. n \in 1 .. last
      BY <1>2, <2>3
    <3> QED BY <1>3, <1>4, <2>1, <2>3, <3>1 DEF IInv, PlcInv
  <2> QED BY <2>2, <2>3
<1>7. PlcInv' /\ TestInv'
  BY <1>1, <1>5, <1>6 DEF IInv, PlcInv, TestInv, Active
<1>8. HeldOK' /\ StoredOK'
  BY <1>1, HeldAround, StoredAround DEF Active
<1> QED BY <1>7, <1>8 DEF IInv, HeldOK, StoredOK

LEMMA AroundInv ==
  ASSUME TypeOK, IInv, Tick \/ PlcRestart \/ LinkDown \/ LinkUp
  PROVE  IInv'
<1>1. /\ UNCHANGED <<pc, mem, life, started, samples, taken>>
      /\ now' \in Nat /\ now <= now' /\ now \in Nat
  BY DEF Tick, PlcRestart, LinkDown, LinkUp, tasks, store, testVars, plcVars, TypeOK,
         Lives!TypeOK, Lives!Advance
<1>2. HeldOK' /\ StoredOK'
  BY <1>1, HeldAround, StoredAround DEF Active
<1>3. \A n \in 1 .. MaxSeq : stamp[n] \in Nat
  BY DEF TypeOK
<1>4. ASSUME PlcRestart PROVE PlcInv'
  <2>1. 1 .. last' = {} /\ \A n \in 1 .. MaxSeq : stamp'[n] = 0
    BY <1>4 DEF PlcRestart, Plc!Restart
  <2> QED BY <1>1, <2>1 DEF PlcInv
<1>5. ASSUME ~ PlcRestart PROVE PlcInv'
  BY <1>1, <1>3, <1>5 DEF Tick, LinkDown, LinkUp, plcVars, IInv, PlcInv
<1>6. TestInv'
  BY <1>1 DEF IInv, TestInv, Active
<1> QED BY <1>2, <1>4, <1>5, <1>6 DEF IInv, HeldOK, StoredOK

-----------------------------------------------------------------------------
(* Samples of every behaviour.                                             *)

LEMMA InvInit == Init => IInv
<1> SUFFICES ASSUME Init PROVE IInv
  OBVIOUS
<1>1. TypeOK
  BY TypeInit
<1>2. \A p \in Procs : TaskInv(mem[p], pc[p])
  BY <1>1, IdleInv DEF Init
<1>3. PlcInv
  BY DEF Init, PlcInv, Plc!Init, Lives!Init
<1> QED
  BY <1>2, <1>3 DEF Init, IInv, TestInv, Active, Lives!Init, SamplesUnique, SamplesGenuine,
     PhaseOfItsTest

LEMMA PollInv == ASSUME TypeOK, IInv, NEW p \in Pollers, PollStep(p) PROVE IInv'
<1>1. p \in Procs
  BY DEF Procs
<1> QED
  BY <1>1, LoadInv, ReadStatusInv, ReadLiveInv, PollPickInv, PollSaveInv, LogRestoredInv,
     PersistPickInv, PersistCheckInv, PersistInsertInv, FailSaveInv, LogLostInv DEF PollStep

LEMMA SyncInv == ASSUME TypeOK, IInv, NEW p \in Syncers, SyncStep(p) PROVE IInv'
<1>1. p \in Procs
  BY DEF Procs
<1> QED
  BY <1>1, LoadInv, SyncPickInv, SyncLastInv, SyncOverrunInv, SyncReadInv, SyncCheckInv,
     SyncInsertInv, SyncFailedInv DEF SyncStep

LEMMA InvNext == TypeOK /\ IInv /\ [Next]_vars => IInv'
<1> SUFFICES ASSUME TypeOK, IInv, [Next]_vars PROVE IInv'
  OBVIOUS
<1>1. CASE UNCHANGED vars
  BY <1>1 DEF vars, testVars, plcVars, store, IInv, PlcInv, TestInv, TaskInv, Genuine,
     RightPhase, Active, SamplesUnique, SamplesGenuine, PhaseOfItsTest
<1>2. CASE Next
  BY <1>2, PollInv, SyncInv, EarlyEndInv, StartInv, EndInv, TakeSampleInv, AroundInv
     DEF Next, Refused
<1> QED BY <1>1, <1>2

\* What fast_poll and history_sync hold in memory is genuine and in the phase of the test
\* it is meant for, in every state, however the tasks overlap.
THEOREM PollerInductive == Spec => []IInv
<1>1. Init => TypeOK /\ IInv
  BY TypeInit, InvInit
<1>2. TypeOK /\ IInv /\ [Next]_vars => TypeOK' /\ IInv'
  BY TypeNext, InvNext
<1> QED BY <1>1, <1>2, PTL DEF Spec

\* A test has at most one sample of a number, for any number of overlapping polls and
\* syncs: the unique index stands behind the check that comes too early.
THEOREM UniqueSamples == Spec => []SamplesUnique
<1>1. IInv => SamplesUnique
  BY DEF IInv
<1> QED BY <1>1, PollerInductive, PTL

\* Every stored sample was taken by the PLC under its number and at its time, whatever the
\* ring of the PLC overwrites and however often it restarts while a batch is being read.
THEOREM GenuineSamples == Spec => []SamplesGenuine
<1>1. IInv => SamplesGenuine
  BY DEF IInv
<1> QED BY <1>1, PollerInductive, PTL

\* A sample taken after its test began carries the phase of that test at its time, for any
\* recipe, however late the sample is stored.
THEOREM PhaseIsOfItsTest == Spec => []PhaseOfItsTest
<1>1. IInv => PhaseOfItsTest
  BY DEF IInv
<1> QED BY <1>1, PollerInductive, PTL
=============================================================================
