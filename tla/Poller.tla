-------------------------------- MODULE Poller --------------------------------
(***************************************************************************)
(* fast_poll and history_sync: Celery tasks that overlap, each with its    *)
(* own copy of the PlcRuntimeState row, read the PLC over Modbus, save     *)
(* what they have seen and store samples for the active test.  The unit of *)
(* interleaving is one database statement or one Modbus request, together  *)
(* with the Python code up to the next one.                                *)
(*                                                                         *)
(* The two neighbours are taken at their word: the PLC is HistoryWindow    *)
(* (PlcServer implements it) and the tests are TestPromise (TestLifecycle  *)
(* implements it).  Modelled is the client without simulation.  Left out   *)
(* are sensor values, the live history kept in Redis, the broadcast to the *)
(* dashboard, and the columns of the runtime row that no decision reads    *)
(* (last_error, last_history_sync_at, the live record as JSON ...).        *)
(***************************************************************************)
EXTENDS Integers, Sequences

CONSTANTS
  Pollers,        \* Celery workers that run fast_poll_task
  Syncers,        \* Celery workers that run history_sync_task
  Capacity,       \* records in the history of the PLC
  BatchSize,      \* the smaller of history_sync_batch_size, max_history_records_per_cycle
  Recipe,         \* durations of the phases [start, stable, stop]
  LossLimit,      \* 5 seconds in the code
  MaxTests,       \* bound: tests ever started
  MaxTime,        \* bound: clock value
  MaxSeq,         \* bound: samples between two restarts of the PLC
  MaxRestarts,    \* bound: restarts of the PLC
  MaxCuts,        \* bound: times the connection goes down
  MaxCrashes      \* bound: tasks killed

Procs == Pollers \cup Syncers
TestIds == 1 .. MaxTests

ASSUME CapacityAssumption == Capacity \in Nat \ {0} /\ BatchSize \in Nat \ {0}
ASSUME RecipeAssumption == Recipe \in [start : Nat, stable : Nat, stop : Nat]
ASSUME BoundAssumption ==
  /\ LossLimit \in Nat /\ MaxTests \in Nat /\ MaxTime \in Nat /\ MaxSeq \in Nat
  /\ MaxRestarts \in Nat /\ MaxCuts \in Nat /\ MaxCrashes \in Nat

VARIABLES
  now,        \* timezone.now()
  life,       \* what has become of each test (TestPromise)
  due,        \* when its programme is over (TestPromise)
  started,    \* TestRecord.started_at
  last,       \* number of the newest sample of the PLC (HistoryWindow)
  kept,       \* numbers of the samples in its history (HistoryWindow)
  stamp,      \* time stamps of the samples, on the clock of the PLC
  boot,       \* when that clock was zero
  taken,      \* every sample the PLC has ever taken
  restarts,   \* restarts of the PLC so far
  up,         \* the PLC can be reached
  cuts,       \* times the connection went down
  rt,         \* the PlcRuntimeState row
  samples,    \* the TestSample rows of each test
  overruns,   \* tests with a PLC_HISTORY_OVERRUN event
  lastEvent,  \* the newest PLC_RECONNECTED or PLC_CONNECTION_LOST event
  pc,         \* where each task is
  mem,        \* its local variables
  crashes     \* tasks killed so far

testVars == <<life, due, started>>
plcVars == <<last, kept, stamp, boot, taken, restarts>>
link == <<up, cuts>>
store == <<rt, samples, overruns, lastEvent>>
vars == <<now, testVars, plcVars, link, store, pc, mem, crashes>>

Plc == INSTANCE HistoryWindow
Lives == INSTANCE TestPromise WITH Tests <- TestIds

-----------------------------------------------------------------------------
(* Records.                                                                *)

NotSet == -1
OptTime == Nat \cup {NotSet}

Phase == {"PLC", "START", "STABLE", "STOP"}     \* "PLC": whatever the PLC has reported

Runtime == [ok : BOOLEAN, since : OptTime, seen : OptTime, seq : Nat]
Sample == [seq : Nat, stamp : Nat, phase : Phase]
Blank == [seq |-> 0, stamp |-> 0, phase |-> "PLC"]

\* connection_ok, communication_loss_since, last_seen_at, buf_last_sequence_no
NoRuntime == [ok |-> FALSE, since |-> NotSet, seen |-> NotSet, seq |-> 0]

Local == [rt : Runtime, rec : Sample, test : 0 .. MaxTests, from : Nat, count : Nat,
          batch : Seq(Sample)]
NoLocal == [rt |-> NoRuntime, rec |-> Blank, test |-> 0, from |-> 0, count |-> 0,
            batch |-> << >>]

PC == {"idle", "read_status", "read_live", "poll_pick", "poll_save", "log_restored",
       "persist_pick", "persist_check", "persist_insert", "poll_failed", "log_lost",
       "sync_pick", "sync_last", "sync_overrun", "sync_read", "sync_check", "sync_insert",
       "sync_failed"}

Active == {t \in TestIds : life[t] = "running"}
IsFirstActive(t) == t \in Active /\ \A u \in Active : u <= t

\* Whether a number is stored already; StoredAny is wrong on purpose.
StoredAny(t, n) == samples[t] # {}
Stored(t, n) == \E s \in samples[t] : s.seq = n

\* unique_together of TestSample.
SampleTaken(t, n) == Stored(t, n)

\* _effective_phase_for_sample
PhaseAt(t, time) ==
  LET startEnd == started[t] + Recipe.start
      stableEnd == startEnd + Recipe.stable
  IN  IF time < startEnd THEN "START" ELSE IF time < stableEnd THEN "STABLE" ELSE "STOP"

\* The live record is the newest sample; a record never written is all zeros.
LiveRecord == IF last = 0 THEN Blank ELSE [seq |-> last, stamp |-> stamp[last], phase |-> "PLC"]

InSlot(n, s) == n \in kept /\ (n - 1) % Capacity = s
HistoryRecord(s) ==
  IF \E n \in kept : InSlot(n, s)
  THEN LET n == CHOOSE i \in kept : InSlot(i, s)
       IN  [seq |-> n, stamp |-> stamp[n], phase |-> "PLC"]
  ELSE Blank

IsLastStored(t, n) ==
  \/ samples[t] = {} /\ n = 0
  \/ \E s \in samples[t] : s.seq = n /\ \A r \in samples[t] : r.seq <= n

Least(a, b) == IF a < b THEN a ELSE b
Missing(from, current) == IF current > from THEN current - from ELSE 0

\* The number of records a history_sync reads.
Batch(missing) == Least(missing, BatchSize)

Init ==
  /\ Lives!Init
  /\ started = [t \in TestIds |-> 0]
  /\ Plc!Init
  /\ stamp = [n \in 1 .. MaxSeq |-> 0]
  /\ boot = 0 /\ taken = {} /\ restarts = 0
  /\ up = TRUE /\ cuts = 0
  /\ rt = NoRuntime
  /\ samples = [t \in TestIds |-> {}]
  /\ overruns = {} /\ lastEvent = "none"
  /\ pc = [p \in Procs |-> "idle"]
  /\ mem = [p \in Procs |-> NoLocal]
  /\ crashes = 0

Go(p, where) == pc' = [pc EXCEPT ![p] = where]

Return(p) ==
  /\ Go(p, "idle")
  /\ mem' = [mem EXCEPT ![p] = NoLocal]

outside == <<now, testVars, plcVars, link, crashes>>

-----------------------------------------------------------------------------
(* Wrong variants of definitions below, for the properties to refute.      *)

\* A save that does not set connection_ok.
SaveNotOk(p) ==
  /\ pc[p] = "poll_save"
  /\ rt' = [mem[p].rt EXCEPT !.since = NotSet]
  /\ Go(p, "persist_pick")
  /\ UNCHANGED <<outside, samples, overruns, lastEvent, mem>>

\* The start of a loss is kept but never set.
LossNeverSet(p) == mem[p].rt.since

\* A history record is taken for the one that was asked for.
ByNumber(p) ==
  LET n == mem[p].from + Len(mem[p].batch)
      rec == HistoryRecord(n % Capacity)
  IN  [rec EXCEPT !.seq = n + 1, !.phase = PhaseAt(mem[p].test, rec.stamp)]

-----------------------------------------------------------------------------
(* fast_poll                                                               *)

PollLoad(p) ==
  /\ pc[p] = "idle"
  /\ Go(p, "read_status")
  /\ mem' = [mem EXCEPT ![p].rt = rt]
  /\ UNCHANGED <<outside, store>>

\* A request fails: the loss began when it was first noticed, or now.
LossSince(p) == IF mem[p].rt.since # NotSet THEN mem[p].rt.since ELSE now

Fail(p, where) ==
  /\ ~ up
  /\ Go(p, where)
  /\ mem' = [mem EXCEPT ![p].rt.since = LossSince(p)]

ReadStatus(p) ==
  /\ pc[p] = "read_status"
  /\ \/ up /\ Go(p, "read_live") /\ mem' = [mem EXCEPT ![p].rt.seq = last]
     \/ Fail(p, "poll_failed")
  /\ UNCHANGED <<outside, store>>

ReadLive(p) ==
  /\ pc[p] = "read_live"
  /\ \/ up /\ Go(p, "poll_pick") /\ mem' = [mem EXCEPT ![p].rec = LiveRecord]
     \/ Fail(p, "poll_failed")
  /\ UNCHANGED <<outside, store>>

PollPick(p) ==
  /\ pc[p] = "poll_pick"
  /\ \/ /\ Active = {}
        /\ mem' = [mem EXCEPT ![p].rt.seen = now]
     \/ \E t \in TestIds :
          /\ IsFirstActive(t)
          /\ mem' = [mem EXCEPT ![p].rt.seen = now,
                                ![p].rec.phase = PhaseAt(t, mem[p].rec.stamp)]
  /\ Go(p, "poll_save")
  /\ UNCHANGED <<outside, store>>

\* A save of the whole row.
PollSave(p) ==
  /\ pc[p] = "poll_save"
  /\ rt' = [mem[p].rt EXCEPT !.ok = TRUE, !.since = NotSet]
  /\ Go(p, IF mem[p].rt.ok THEN "persist_pick" ELSE "log_restored")
  /\ UNCHANGED <<outside, samples, overruns, lastEvent, mem>>

LogRestored(p) ==
  /\ pc[p] = "log_restored"
  /\ lastEvent' = "restored"
  /\ Go(p, "persist_pick")
  /\ UNCHANGED <<outside, rt, samples, overruns, mem>>

PersistPick(p) ==
  /\ pc[p] = "persist_pick"
  /\ \/ Active = {} /\ Return(p)
     \/ /\ \E t \in TestIds : IsFirstActive(t) /\ mem' = [mem EXCEPT ![p].test = t]
        /\ Go(p, "persist_check")
  /\ UNCHANGED <<outside, store>>

PersistCheck(p) ==
  /\ pc[p] = "persist_check"
  /\ \/ Stored(mem[p].test, mem[p].rec.seq) /\ Return(p)
     \/ ~ Stored(mem[p].test, mem[p].rec.seq) /\ Go(p, "persist_insert") /\ UNCHANGED mem
  /\ UNCHANGED <<outside, store>>

\* An insert into a test that is there, under a number that is free.
MayInsert(t, n) == life[t] # "deleted" /\ ~ SampleTaken(t, n)
Insert(t, rec) ==
  /\ MayInsert(t, rec.seq)
  /\ samples' = [samples EXCEPT ![t] = @ \cup {rec}]

PersistInsert(p) ==
  /\ pc[p] = "persist_insert"
  /\ Insert(mem[p].test, mem[p].rec)
  /\ Return(p)
  /\ UNCHANGED <<outside, rt, overruns, lastEvent>>

\* ModbusClientError: a save of the named columns.
FailSave(p) ==
  /\ pc[p] = "poll_failed"
  /\ rt' = [rt EXCEPT !.ok = FALSE, !.since = mem[p].rt.since]
  /\ \/ mem[p].rt.ok /\ Go(p, "log_lost") /\ UNCHANGED mem
     \/ ~ mem[p].rt.ok /\ Return(p)
  /\ UNCHANGED <<outside, samples, overruns, lastEvent>>

LogLost(p) ==
  /\ pc[p] = "log_lost"
  /\ lastEvent' = "lost"
  /\ Return(p)
  /\ UNCHANGED <<outside, rt, samples, overruns>>

PollStep(p) ==
  \/ PollLoad(p)
  \/ ReadStatus(p)
  \/ ReadLive(p)
  \/ PollPick(p)
  \/ PollSave(p)
  \/ LogRestored(p)
  \/ PersistPick(p)
  \/ PersistCheck(p)
  \/ PersistInsert(p)
  \/ FailSave(p)
  \/ LogLost(p)

-----------------------------------------------------------------------------
(* history_sync                                                            *)

SyncLoad(p) ==
  /\ pc[p] = "idle"
  /\ Go(p, "sync_pick")
  /\ mem' = [mem EXCEPT ![p].rt = rt]
  /\ UNCHANGED <<outside, store>>

SyncPick(p) ==
  /\ pc[p] = "sync_pick"
  /\ \/ (Active = {} \/ ~ mem[p].rt.ok) /\ Return(p)
     \/ /\ mem[p].rt.ok
        /\ \E t \in TestIds : IsFirstActive(t) /\ mem' = [mem EXCEPT ![p].test = t]
        /\ Go(p, "sync_last")
  /\ UNCHANGED <<outside, store>>

\* The gap between the last sample stored and the last one the row knows of.
SyncLast(p) ==
  /\ pc[p] = "sync_last"
  /\ \E from \in {0} \cup {s.seq : s \in samples[mem[p].test]} :
       /\ IsLastStored(mem[p].test, from)
       /\ LET missing == Missing(from, mem[p].rt.seq)
          IN  \/ missing = 0 /\ Return(p)
              \/ /\ missing > 0
                 /\ mem' = [mem EXCEPT ![p].from = from, ![p].count = Batch(missing)]
                 /\ Go(p, IF missing > Capacity THEN "sync_overrun" ELSE "sync_read")
  /\ UNCHANGED <<outside, store>>

SyncOverrun(p) ==
  /\ pc[p] = "sync_overrun"
  /\ overruns' = overruns \cup {mem[p].test}
  /\ Go(p, "sync_read")
  /\ UNCHANGED <<outside, rt, samples, lastEvent, mem>>

\* The next record of a batch, with the number it carries.
NextRecord(p) ==
  LET rec == HistoryRecord((mem[p].from + Len(mem[p].batch)) % Capacity)
  IN  [rec EXCEPT !.phase = PhaseAt(mem[p].test, rec.stamp)]

\* One request for each record; nothing is stored before all of them are read.
SyncRead(p) ==
  /\ pc[p] = "sync_read"
  /\ \/ /\ up
        /\ mem' = [mem EXCEPT ![p].batch = Append(mem[p].batch, NextRecord(p))]
        /\ Go(p, IF Len(mem[p].batch) + 1 < mem[p].count THEN "sync_read" ELSE "sync_check")
     \/ Fail(p, "sync_failed")
  /\ UNCHANGED <<outside, store>>

\* The records in turn: check, insert.
NextInBatch(p) ==
  \/ /\ Len(mem[p].batch) > 1
     /\ mem' = [mem EXCEPT ![p].batch = Tail(mem[p].batch)]
     /\ Go(p, "sync_check")
  \/ Len(mem[p].batch) = 1 /\ Return(p)

SyncCheck(p) ==
  /\ pc[p] = "sync_check"
  /\ \/ Stored(mem[p].test, Head(mem[p].batch).seq) /\ NextInBatch(p)
     \/ /\ ~ Stored(mem[p].test, Head(mem[p].batch).seq)
        /\ Go(p, "sync_insert")
        /\ UNCHANGED mem
  /\ UNCHANGED <<outside, store>>

SyncInsert(p) ==
  /\ pc[p] = "sync_insert"
  /\ Insert(mem[p].test, Head(mem[p].batch))
  /\ NextInBatch(p)
  /\ UNCHANGED <<outside, rt, overruns, lastEvent>>

\* ModbusClientError: the same columns as FailSave, and no event.
SyncFailed(p) ==
  /\ pc[p] = "sync_failed"
  /\ rt' = [rt EXCEPT !.ok = FALSE, !.since = mem[p].rt.since]
  /\ Return(p)
  /\ UNCHANGED <<outside, samples, overruns, lastEvent>>

SyncStep(p) ==
  \/ SyncLoad(p)
  \/ SyncPick(p)
  \/ SyncLast(p)
  \/ SyncOverrun(p)
  \/ SyncRead(p)
  \/ SyncCheck(p)
  \/ SyncInsert(p)
  \/ SyncFailed(p)

-----------------------------------------------------------------------------
(* What ends a task early.                                                 *)

\* The unique index or the foreign key refuses an insert: IntegrityError.
InsertRefused(p) ==
  /\ \/ pc[p] = "persist_insert" /\ ~ MayInsert(mem[p].test, mem[p].rec.seq)
     \/ pc[p] = "sync_insert" /\ ~ MayInsert(mem[p].test, Head(mem[p].batch).seq)
  /\ Return(p)
  /\ UNCHANGED <<outside, store>>

\* An event about a test that is gone.
OverrunRefused(p) ==
  /\ pc[p] = "sync_overrun"
  /\ life[mem[p].test] = "deleted"
  /\ Return(p)
  /\ UNCHANGED <<outside, store>>

Crash(p) ==
  /\ pc[p] # "idle"
  /\ crashes < MaxCrashes
  /\ crashes' = crashes + 1
  /\ Return(p)
  /\ UNCHANGED <<now, testVars, plcVars, link, store>>

-----------------------------------------------------------------------------
(* The tests, the PLC, the connection and the clock.                       *)

tasks == <<store, pc, mem, crashes>>

Tick ==
  /\ now < MaxTime
  /\ Lives!Advance
  /\ UNCHANGED <<started, plcVars, link, tasks>>

\* start_test refuses a second active test (one operator starts tests).
StartTest(t) ==
  /\ Active = {}
  /\ \A u \in TestIds : (life[u] = "none") <=> (u >= t)
  /\ due' = [due EXCEPT ![t] = now + Recipe.start + Recipe.stable + Recipe.stop]
  /\ Lives!Start(t)
  /\ started' = [started EXCEPT ![t] = now]
  /\ UNCHANGED <<plcVars, link, tasks>>

EndTest(t) ==
  /\ life[t] = "running"
  /\ Lives!Judge(t) \/ Lives!Abort(t)
  /\ UNCHANGED <<started, plcVars, link, tasks>>

\* The samples and the reference of an event go with the test.
DeleteTest(t) ==
  /\ life[t] \in {"verdict", "aborted"}
  /\ Lives!Delete(t)
  /\ samples' = [samples EXCEPT ![t] = {}]
  /\ overruns' = overruns \ {t}
  /\ UNCHANGED <<started, plcVars, link, rt, lastEvent, pc, mem, crashes>>

TakeSample ==
  /\ last < MaxSeq
  /\ Plc!Sample
  /\ stamp' = [stamp EXCEPT ![last + 1] = now - boot]
  /\ taken' = taken \cup {[seq |-> last + 1, stamp |-> now - boot]}
  /\ UNCHANGED <<now, testVars, boot, restarts, link, tasks>>

\* The sequence number and the clock of the PLC start again; sync_time only logs.
PlcRestart ==
  /\ restarts < MaxRestarts
  /\ restarts' = restarts + 1
  /\ Plc!Restart
  /\ stamp' = [n \in 1 .. MaxSeq |-> 0]
  /\ boot' = now
  /\ UNCHANGED <<now, testVars, taken, link, tasks>>

LinkDown ==
  /\ up
  /\ cuts < MaxCuts
  /\ up' = FALSE
  /\ cuts' = cuts + 1
  /\ UNCHANGED <<now, testVars, plcVars, tasks>>

LinkUp ==
  /\ ~ up
  /\ up' = TRUE
  /\ UNCHANGED <<now, testVars, plcVars, cuts, tasks>>

Next ==
  \/ \E p \in Pollers : PollStep(p)
  \/ \E p \in Syncers : SyncStep(p)
  \/ \E p \in Procs : InsertRefused(p) \/ OverrunRefused(p) \/ Crash(p)
  \/ \E t \in TestIds : StartTest(t) \/ EndTest(t) \/ DeleteTest(t)
  \/ Tick
  \/ TakeSample
  \/ PlcRestart
  \/ LinkDown
  \/ LinkUp

Spec == Init /\ [][Next]_vars

-----------------------------------------------------------------------------
(* Properties.                                                             *)

Ended(t) == life[t] \in {"verdict", "aborted", "deleted"}

PhaseKnown == {"poll_save", "log_restored", "persist_pick"}
Persisting == {"persist_check", "persist_insert"}
Reading == {"sync_overrun", "sync_read"}
Storing == {"sync_check", "sync_insert"}
HasBatch == Storing \cup {"sync_read", "sync_failed"}
HasTest == Persisting \cup Storing \cup {"sync_last", "sync_overrun", "sync_read"}

\* The memory m of a task that is at w.
MemoryOK(m, w) ==
  /\ w \in HasTest => m.test \in TestIds
  /\ Len(m.batch) <= m.count /\ m.count <= BatchSize
  /\ w \in Reading => Len(m.batch) < m.count
  /\ w \notin HasBatch => m.batch = << >>

LocalOK ==
  /\ pc \in [Procs -> PC]
  /\ mem \in [Procs -> Local]
  /\ \A p \in Procs : MemoryOK(mem[p], pc[p])

\* Every variable has its type, and a task never holds more than a batch of records.
TypeOK ==
  /\ Lives!TypeOK
  /\ started \in [TestIds -> Nat]
  /\ last \in 0 .. MaxSeq /\ kept \subseteq 1 .. last
  /\ stamp \in [1 .. MaxSeq -> Nat]
  /\ boot \in 0 .. now
  /\ taken \subseteq [seq : Nat, stamp : Nat]
  /\ up \in BOOLEAN
  /\ rt \in Runtime
  /\ samples \in [TestIds -> SUBSET Sample]
  /\ overruns \subseteq TestIds
  /\ lastEvent \in {"none", "restored", "lost"}
  /\ LocalOK
  /\ restarts \in Nat /\ cuts \in Nat /\ crashes \in Nat

\* A test has at most one sample of a number, although polls and syncs overlap and
\* check before they insert.
SamplesUnique ==
  \A t \in TestIds : \A r, s \in samples[t] : r.seq = s.seq => r = s

\* What a sample must be: taken by the PLC under this number and time, and in the phase
\* its test had at that time.
Genuine(r) == r.seq = 0 \/ [seq |-> r.seq, stamp |-> r.stamp] \in taken

RightPhase(t, r) ==
  r.seq # 0 /\ r.stamp > started[t] =>
    /\ r.phase # "PLC"
    /\ r.phase = "START" <=> r.stamp < started[t] + Recipe.start
    /\ r.phase = "STOP" <=> r.stamp >= started[t] + Recipe.start + Recipe.stable

\* Every sample of a test is one the PLC has taken, number and time together, even when
\* the history moves on or starts again between two requests; or it is an empty record.
SamplesGenuine == \A t \in TestIds : \A s \in samples[t] : Genuine(s)

\* A sample taken after its test began carries the phase of that test at its time,
\* however late it is stored and whatever became of the test in the meantime.  Nothing of
\* the kind holds of records from before the start, which a sync stores as well.
PhaseOfItsTest == \A t \in TestIds : \A s \in samples[t] : RightPhase(t, s)

-----------------------------------------------------------------------------
(* Why samples are unique, genuine and in the right phase: what a task     *)
(* holds in its hands must be so already, and the test it is meant for     *)
(* must have begun.                                                        *)

PlcInv ==
  /\ \A n \in 1 .. last : [seq |-> n, stamp |-> stamp[n]] \in taken
  /\ \A n \in 1 .. MaxSeq : stamp[n] <= now

TestInv ==
  /\ \A t, u \in Active : t = u
  /\ \A t \in TestIds : life[t] = "none" => samples[t] = {}

TaskInv(m, w) ==
  /\ Genuine(m.rec) /\ m.rec.stamp <= now
  /\ w \in HasTest => life[m.test] # "none"
  /\ w \in PhaseKnown => \A t \in Active : RightPhase(t, m.rec)
  /\ w \in Persisting => RightPhase(m.test, m.rec)
  /\ w \in Storing => Len(m.batch) > 0
  /\ w \in Storing \cup {"sync_read"} =>
       \A i \in 1 .. Len(m.batch) : Genuine(m.batch[i]) /\ RightPhase(m.test, m.batch[i])

\* The inductive invariant behind SamplesUnique, SamplesGenuine and PhaseOfItsTest: what
\* fast_poll and history_sync hold in memory is genuine and in the phase of its test.
IInv ==
  /\ PlcInv
  /\ TestInv
  /\ \A p \in Procs : TaskInv(mem[p], pc[p])
  /\ SamplesUnique /\ SamplesGenuine /\ PhaseOfItsTest

-----------------------------------------------------------------------------
(* Fairness: beat sends fast_poll every half second and history_sync every *)
(* two seconds, and each task runs to its end.                             *)

Refused(p) == InsertRefused(p) \/ OverrunRefused(p)

Fairness ==
  /\ \A p \in Pollers : WF_vars(PollStep(p) \/ Refused(p))
  /\ \A p \in Syncers : WF_vars(SyncStep(p) \/ Refused(p))

FairSpec == Spec /\ Fairness

\* Once the PLC can be reached for good, the row says so for good, whatever old copies
\* of it are still on their way.
ConnectionRecovers == <>[]up => <>[](rt.ok /\ rt.since = NotSet)

\* Once it is out of reach for good, the clock of the loss is running for good.
LossNoticed == <>[]~ up => <>[](~ rt.ok /\ rt.since # NotSet)

\* The stored samples keep up with the PLC while a test runs and the PLC is in reach.
StoreKeepsUp ==
  \A t \in TestIds, n \in 1 .. MaxSeq :
    life[t] = "running" /\ last >= n
      ~> Ended(t) \/ ~ up \/ last < n \/ \E s \in samples[t] : s.seq >= n
=============================================================================
