---------------------------- MODULE TestLifecycle ----------------------------
(***************************************************************************)
(* The life of a test record: started by an operator, driven through its   *)
(* phases by the Celery task supervise_active_test, completed or aborted,  *)
(* evaluated again by every view and report task that opens it, deleted    *)
(* from the history screen.                                                *)
(*                                                                         *)
(* Web requests and Celery tasks run concurrently and only start_test runs *)
(* in a transaction, so the unit of interleaving is one database statement *)
(* together with the Python code up to the next one.  A process keeps the  *)
(* row it has read in memory (mem) and goes on with that copy, however old *)
(* it has become; save(update_fields=...) writes back the named fields     *)
(* only.  Field values that always change together with status             *)
(* (result_passed, abort_reason, fail_reason_summary) are left out.        *)
(***************************************************************************)
EXTENDS Integers

CONSTANTS
  Supervisors,     \* Celery workers that run supervise_active_test
  Starters,        \* web requests that start a test
  Aborters,        \* web requests that abort the active test
  Viewers,         \* history and detail views, report tasks
  Deleters,        \* web requests that delete a test
  Recipes,         \* phase durations: records [start, stable, stop]
  LossLimit,       \* 5 seconds in the code
  PollResults,     \* what a poll of the PLC may yield: "ok", "fault", "lost"
  TicksPerSecond,  \* clock resolution; test_no has a resolution of a second
  MaxTests,        \* bound: rows ever inserted
  MaxTime,         \* bound: clock value
  MaxCrashes       \* bound: processes killed

Procs == Supervisors \cup Starters \cup Aborters \cup Viewers \cup Deleters

ASSUME RecipeAssumption == Recipes \subseteq [start : Nat, stable : Nat, stop : Nat]
ASSUME ClockAssumption == TicksPerSecond \in Nat \ {0} /\ LossLimit \in Nat
ASSUME BoundAssumption == MaxTests \in Nat /\ MaxTime \in Nat /\ MaxCrashes \in Nat

VARIABLES
  now,         \* timezone.now()
  fault,       \* PlcRuntimeState.plc_fault
  lossSince,   \* PlcRuntimeState.communication_loss_since
  db,          \* the committed TestRecord rows
  lastId,      \* primary keys handed out so far; created_at has the same order
  pc,          \* where each process is
  tid,         \* the key of the row it works on
  mem,         \* its in-memory copy of that row
  command,     \* the last command written to the PLC
  queued,      \* tests with report tasks waiting in the broker
  aborts,      \* tests with a TEST_ABORTED entry in the event log
  crashes      \* processes killed so far

vars == <<now, fault, lossSince, db, lastId, pc, tid, mem, command, queued,
          aborts, crashes>>
plc == <<fault, lossSince>>
local == <<pc, tid, mem>>

-----------------------------------------------------------------------------
(* The row.                                                                *)

NotSet == -1
Time == Nat
OptTime == Time \cup {NotSet}
TestIds == 1 .. MaxTests

ActiveStatus == {"START_REQUESTED", "RUNNING"}
CompletedStatus == {"COMPLETED_PASS", "COMPLETED_FAIL"}
AbsentStatus == {"NONE", "DELETED"}
Status == ActiveStatus \cup CompletedStatus \cup AbsentStatus \cup {"ABORTED"}

NoRecipe == [start |-> 0, stable |-> 0, stop |-> 0]

Row == [status : Status, started : Time, stable : OptTime, stop : OptTime,
        ended : OptTime, recipe : Recipes \cup {NoRecipe}]

Blank == [status |-> "NONE", started |-> 0, stable |-> NotSet, stop |-> NotSet,
          ended |-> NotSet, recipe |-> NoRecipe]

Exists(t) == db[t].status \notin AbsentStatus
Active == {t \in TestIds : db[t].status \in ActiveStatus}
Completed == {t \in TestIds : db[t].status \in CompletedStatus}

\* TestRecord.active().first(): Meta.ordering is -created_at.
IsFirstActive(t) == t \in Active /\ \A u \in Active : u <= t

\* test_no, the unique key of a row: the second in which the test started.
TestNo(row) == row.started \div TicksPerSecond

\* What determine_phase and complete_test read off a row.  StopDueFromStart is
\* wrong on purpose: properties refute it.
StableDue(row) == row.stable = NotSet /\ now >= row.started + row.recipe.start

StopDueFromStart(row) ==
  row.stable # NotSet /\ row.stop = NotSet /\ now >= row.started + row.recipe.stable
StopDue(row) ==
  row.stable # NotSet /\ row.stop = NotSet /\ now >= row.stable + row.recipe.stable

PhaseOf(row) ==
  IF row.stop # NotSet THEN "STOP" ELSE IF row.stable # NotSet THEN "STABLE" ELSE "START"

StopServed(row) == row.stop # NotSet /\ now - row.stop >= row.recipe.stop

\* The PLC command word of write_test_command.
Command(start, stop, abort, phase, active) ==
  [start |-> start, stop |-> stop, abort |-> abort, phase |-> phase, active |-> active]

Phase == {"IDLE", "START", "STABLE", "STOP", "ABORTED"}
Commands == [start : BOOLEAN, stop : BOOLEAN, abort : BOOLEAN, phase : Phase, active : BOOLEAN]
NoCommand == Command(FALSE, FALSE, FALSE, "IDLE", FALSE)

-----------------------------------------------------------------------------
(* Steps every process takes.                                              *)

PC == {"idle", "start_recipe", "start_insert", "start_command", "start_commit",
       "supervise", "save_stable", "save_stop", "phase_command", "save_ended",
       "stop_command", "evaluate", "enqueue_reports", "reevaluate",
       "abort_save", "abort_command", "abort_log", "delete"}

Go(p, where) == pc' = [pc EXCEPT ![p] = where]

Return(p) ==
  /\ Go(p, "idle")
  /\ tid' = [tid EXCEPT ![p] = 0]
  /\ mem' = [mem EXCEPT ![p] = Blank]

\* A model instance for row t is in memory, with its fields as given.
Hold(p, t, row, where) ==
  /\ Go(p, where)
  /\ tid' = [tid EXCEPT ![p] = t]
  /\ mem' = [mem EXCEPT ![p] = row]

Init ==
  /\ now = 0
  /\ fault = FALSE
  /\ lossSince = NotSet
  /\ db = [t \in TestIds |-> Blank]
  /\ lastId = 0
  /\ pc = [p \in Procs |-> "idle"]
  /\ tid = [p \in Procs |-> 0]
  /\ mem = [p \in Procs |-> Blank]
  /\ command = NoCommand
  /\ queued = {}
  /\ aborts = {}
  /\ crashes = 0

-----------------------------------------------------------------------------
(* Wrong variants of actions below, for the properties to refute.          *)

\* test_no looked up by start_test instead of kept unique by an index: an open
\* transaction with the same number is not seen.
NeverBlocked(p) == FALSE

\* complete_test that takes an end time to mean that its work is done.
CompleteOnce(p) ==
  /\ pc[p] = "phase_command"
  /\ command' = Command(FALSE, PhaseOf(mem[p]) = "STOP", FALSE, PhaseOf(mem[p]), TRUE)
  /\ \/ /\ ~ StopServed(mem[p]) \/ mem[p].ended # NotSet
        /\ Return(p)
     \/ /\ StopServed(mem[p])
        /\ mem[p].ended = NotSet
        /\ Hold(p, tid[p], [mem[p] EXCEPT !.ended = now], "save_ended")
  /\ UNCHANGED <<now, plc, db, lastId, queued, aborts, crashes>>

\* reconcile_completed_result without its check of the status.
ReconcileAny(p) ==
  /\ pc[p] = "idle"
  /\ \E t \in TestIds : Exists(t) /\ t \notin Active /\ Hold(p, t, db[t], "reevaluate")
  /\ UNCHANGED <<now, plc, db, lastId, command, queued, aborts, crashes>>

\* abort_test that only raises the abort bit.
AbortKeepsStart(p) ==
  /\ pc[p] = "abort_command"
  /\ command' = [command EXCEPT !.abort = TRUE]
  /\ Go(p, "abort_log")
  /\ UNCHANGED <<now, plc, db, lastId, tid, mem, queued, aborts, crashes>>

-----------------------------------------------------------------------------
(* start_test.  The transaction makes the row visible at StartCommit only. *)

StartCheck(p) ==
  /\ pc[p] = "idle"
  /\ lastId < MaxTests
  /\ Active = {}
  /\ Go(p, "start_recipe")
  /\ UNCHANGED <<now, plc, db, lastId, tid, mem, command, queued, aborts, crashes>>

StartRecipe(p) ==
  /\ pc[p] = "start_recipe"
  /\ \E r \in Recipes :
       Hold(p, 0, [Blank EXCEPT !.status = "START_REQUESTED", !.started = now, !.recipe = r],
            "start_insert")
  /\ UNCHANGED <<now, plc, db, lastId, command, queued, aborts, crashes>>

InTransaction == {"start_command", "start_commit"}

\* An insert waits while another transaction holds the same test_no uncommitted.
InsertBlocked(p) ==
  \E q \in Starters \ {p} : pc[q] \in InTransaction /\ TestNo(mem[q]) = TestNo(mem[p])

TestNoTaken(p) == \E t \in TestIds : Exists(t) /\ TestNo(db[t]) = TestNo(mem[p])

StartInsert(p) ==
  /\ pc[p] = "start_insert"
  /\ lastId < MaxTests
  /\ ~ InsertBlocked(p)
  /\ ~ TestNoTaken(p)
  /\ lastId' = lastId + 1
  /\ Hold(p, lastId + 1, mem[p], "start_command")
  /\ UNCHANGED <<now, plc, db, command, queued, aborts, crashes>>

\* The unique index on test_no refuses the insert: IntegrityError, rollback.
StartDuplicate(p) ==
  /\ pc[p] = "start_insert"
  /\ ~ InsertBlocked(p)
  /\ TestNoTaken(p)
  /\ Return(p)
  /\ UNCHANGED <<now, plc, db, lastId, command, queued, aborts, crashes>>

StartCommand(p) ==
  /\ pc[p] = "start_command"
  /\ command' = Command(TRUE, FALSE, FALSE, "START", TRUE)
  /\ Go(p, "start_commit")
  /\ UNCHANGED <<now, plc, db, lastId, tid, mem, queued, aborts, crashes>>

StartCommit(p) ==
  /\ pc[p] = "start_commit"
  /\ db' = [db EXCEPT ![tid[p]] = [mem[p] EXCEPT !.status = "RUNNING"]]
  /\ Return(p)
  /\ UNCHANGED <<now, plc, lastId, command, queued, aborts, crashes>>

-----------------------------------------------------------------------------
(* supervise_active_test and determine_phase.                              *)

SupervisePick(p) ==
  /\ pc[p] = "idle"
  /\ \E t \in TestIds : IsFirstActive(t) /\ Hold(p, t, db[t], "supervise")
  /\ UNCHANGED <<now, plc, db, lastId, command, queued, aborts, crashes>>

MustAbort == fault \/ (lossSince # NotSet /\ now - lossSince > LossLimit)

SuperviseAbort(p) ==
  /\ pc[p] = "supervise"
  /\ MustAbort
  /\ Hold(p, tid[p], [mem[p] EXCEPT !.ended = now], "abort_save")
  /\ UNCHANGED <<now, plc, db, lastId, command, queued, aborts, crashes>>

EnterStable(p) ==
  /\ pc[p] = "supervise"
  /\ ~ MustAbort
  /\ StableDue(mem[p])
  /\ Hold(p, tid[p], [mem[p] EXCEPT !.stable = now], "save_stable")
  /\ UNCHANGED <<now, plc, db, lastId, command, queued, aborts, crashes>>

EnterStop(p) ==
  /\ pc[p] = "supervise"
  /\ ~ MustAbort
  /\ StopDue(mem[p])
  /\ Hold(p, tid[p], [mem[p] EXCEPT !.stop = now], "save_stop")
  /\ UNCHANGED <<now, plc, db, lastId, command, queued, aborts, crashes>>

StayInPhase(p) ==
  /\ pc[p] = "supervise"
  /\ ~ MustAbort
  /\ ~ StableDue(mem[p])
  /\ ~ StopDue(mem[p])
  /\ Go(p, "phase_command")
  /\ UNCHANGED <<now, plc, db, lastId, tid, mem, command, queued, aborts, crashes>>

SaveStable(p) ==
  /\ pc[p] = "save_stable"
  /\ Exists(tid[p])
  /\ db' = [db EXCEPT ![tid[p]].stable = mem[p].stable]
  /\ Go(p, "phase_command")
  /\ UNCHANGED <<now, plc, lastId, tid, mem, command, queued, aborts, crashes>>

SaveStop(p) ==
  /\ pc[p] = "save_stop"
  /\ Exists(tid[p])
  /\ db' = [db EXCEPT ![tid[p]].stop = mem[p].stop]
  /\ Go(p, "phase_command")
  /\ UNCHANGED <<now, plc, lastId, tid, mem, command, queued, aborts, crashes>>

PhaseCommand(p) ==
  /\ pc[p] = "phase_command"
  /\ command' = Command(FALSE, PhaseOf(mem[p]) = "STOP", FALSE, PhaseOf(mem[p]), TRUE)
  /\ \/ /\ ~ StopServed(mem[p])
        /\ Return(p)
     \/ /\ StopServed(mem[p])
        /\ mem[p].ended = NotSet
        /\ Hold(p, tid[p], [mem[p] EXCEPT !.ended = now], "save_ended")
     \/ /\ StopServed(mem[p])
        /\ mem[p].ended # NotSet
        /\ Hold(p, tid[p], mem[p], "stop_command")
  /\ UNCHANGED <<now, plc, db, lastId, queued, aborts, crashes>>

-----------------------------------------------------------------------------
(* complete_test, evaluate and reconcile_completed_result.                 *)

SaveEnded(p) ==
  /\ pc[p] = "save_ended"
  /\ Exists(tid[p])
  /\ db' = [db EXCEPT ![tid[p]].ended = mem[p].ended]
  /\ Go(p, "stop_command")
  /\ UNCHANGED <<now, plc, lastId, tid, mem, command, queued, aborts, crashes>>

StopCommand(p) ==
  /\ pc[p] = "stop_command"
  /\ command' = Command(FALSE, TRUE, FALSE, "STOP", FALSE)
  /\ Go(p, "evaluate")
  /\ UNCHANGED <<now, plc, db, lastId, tid, mem, queued, aborts, crashes>>

\* The verdict depends on the samples; either one is possible here.
SaveVerdict(p) ==
  \E v \in CompletedStatus : db' = [db EXCEPT ![tid[p]].status = v]

Evaluate(p) ==
  /\ pc[p] = "evaluate"
  /\ Exists(tid[p])
  /\ SaveVerdict(p)
  /\ Go(p, "enqueue_reports")
  /\ UNCHANGED <<now, plc, lastId, tid, mem, command, queued, aborts, crashes>>

EnqueueReports(p) ==
  /\ pc[p] = "enqueue_reports"
  /\ queued' = queued \cup {tid[p]}
  /\ Return(p)
  /\ UNCHANGED <<now, plc, db, lastId, command, aborts, crashes>>

\* A view opens any row; only a completed one is evaluated again.
ViewPick(p) ==
  /\ pc[p] = "idle"
  /\ \E t \in Completed : Hold(p, t, db[t], "reevaluate")
  /\ UNCHANGED <<now, plc, db, lastId, command, queued, aborts, crashes>>

\* One of the report tasks of t; the last one leaves the queue empty.
ReportPick(p) ==
  /\ pc[p] = "idle"
  /\ \E t \in queued :
       /\ queued' \in {queued, queued \ {t}}
       /\ \/ t \in Completed /\ Hold(p, t, db[t], "reevaluate")
          \/ t \notin Completed /\ UNCHANGED local
  /\ UNCHANGED <<now, plc, db, lastId, command, aborts, crashes>>

Reevaluate(p) ==
  /\ pc[p] = "reevaluate"
  /\ Exists(tid[p])
  /\ SaveVerdict(p)
  /\ Return(p)
  /\ UNCHANGED <<now, plc, lastId, command, queued, aborts, crashes>>

-----------------------------------------------------------------------------
(* abort_test, from the active-test screen or from the supervisor.         *)

AbortPick(p) ==
  /\ pc[p] = "idle"
  /\ \E t \in TestIds :
       IsFirstActive(t) /\ Hold(p, t, [db[t] EXCEPT !.ended = now], "abort_save")
  /\ UNCHANGED <<now, plc, db, lastId, command, queued, aborts, crashes>>

AbortSave(p) ==
  /\ pc[p] = "abort_save"
  /\ Exists(tid[p])
  /\ db' = [db EXCEPT ![tid[p]].status = "ABORTED", ![tid[p]].ended = mem[p].ended]
  /\ Go(p, "abort_command")
  /\ UNCHANGED <<now, plc, lastId, tid, mem, command, queued, aborts, crashes>>

AbortCommand(p) ==
  /\ pc[p] = "abort_command"
  /\ command' = Command(FALSE, FALSE, TRUE, "ABORTED", FALSE)
  /\ Go(p, "abort_log")
  /\ UNCHANGED <<now, plc, db, lastId, tid, mem, queued, aborts, crashes>>

AbortLog(p) ==
  /\ pc[p] = "abort_log"
  /\ Exists(tid[p])
  /\ aborts' = aborts \cup {tid[p]}
  /\ Return(p)
  /\ UNCHANGED <<now, plc, db, lastId, command, queued, crashes>>

-----------------------------------------------------------------------------
(* TestDeleteView: dispatch reads and checks, form_valid deletes.          *)

DeletePick(p) ==
  /\ pc[p] = "idle"
  /\ \E t \in TestIds : Exists(t) /\ t \notin Active /\ Hold(p, t, db[t], "delete")
  /\ UNCHANGED <<now, plc, db, lastId, command, queued, aborts, crashes>>

\* The event log keeps its entries (SET_NULL), without the reference to the test.
DeleteRow(p) ==
  /\ pc[p] = "delete"
  /\ db' = [db EXCEPT ![tid[p]] = [Blank EXCEPT !.status = "DELETED"]]
  /\ aborts' = aborts \ {tid[p]}
  /\ Return(p)
  /\ UNCHANGED <<now, plc, lastId, command, queued, crashes>>

-----------------------------------------------------------------------------
(* What can go wrong, and the environment.                                 *)

\* save(update_fields) on a row that is gone raises DatabaseError, an event that
\* refers to it IntegrityError; either one ends the request or the task.
NeedsRow == {"save_stable", "save_stop", "save_ended", "evaluate", "reevaluate",
             "abort_save", "abort_log"}

RowGone(p) ==
  /\ pc[p] \in NeedsRow
  /\ ~ Exists(tid[p])
  /\ Return(p)
  /\ UNCHANGED <<now, plc, db, lastId, command, queued, aborts, crashes>>

\* The process is killed; an open transaction is rolled back.
Crash(p) ==
  /\ pc[p] # "idle"
  /\ crashes < MaxCrashes
  /\ crashes' = crashes + 1
  /\ Return(p)
  /\ UNCHANGED <<now, plc, db, lastId, command, queued, aborts>>

Tick ==
  /\ now < MaxTime
  /\ now' = now + 1
  /\ UNCHANGED <<plc, db, lastId, local, command, queued, aborts, crashes>>

\* fast_poll as the supervisor sees it.
PollOk ==
  /\ \E r \in PollResults \cap {"ok", "fault"} : fault' = (r = "fault")
  /\ lossSince' = NotSet
  /\ UNCHANGED <<now, db, lastId, local, command, queued, aborts, crashes>>

PollLost ==
  /\ "lost" \in PollResults
  /\ lossSince = NotSet
  /\ lossSince' = now
  /\ UNCHANGED <<now, fault, db, lastId, local, command, queued, aborts, crashes>>

StartStep(p) ==
  \/ StartRecipe(p)
  \/ StartInsert(p)
  \/ StartDuplicate(p)
  \/ StartCommand(p)
  \/ StartCommit(p)

AbortStep(p) == AbortSave(p) \/ AbortCommand(p) \/ AbortLog(p)

SuperviseStep(p) ==
  \/ SupervisePick(p)
  \/ SuperviseAbort(p)
  \/ EnterStable(p)
  \/ EnterStop(p)
  \/ StayInPhase(p)
  \/ SaveStable(p)
  \/ SaveStop(p)
  \/ PhaseCommand(p)
  \/ SaveEnded(p)
  \/ StopCommand(p)
  \/ Evaluate(p)
  \/ EnqueueReports(p)

Next ==
  \/ Tick
  \/ PollOk
  \/ PollLost
  \/ \E p \in Starters : StartCheck(p) \/ StartStep(p)
  \/ \E p \in Supervisors : SuperviseStep(p)
  \/ \E p \in Aborters : AbortPick(p)
  \/ \E p \in Supervisors \cup Aborters : AbortStep(p)
  \/ \E p \in Viewers : ViewPick(p) \/ ReportPick(p) \/ Reevaluate(p)
  \/ \E p \in Deleters : DeletePick(p) \/ DeleteRow(p)
  \/ \E p \in Procs : RowGone(p) \/ Crash(p)

Spec == Init /\ [][Next]_vars
-----------------------------------------------------------------------------
(* Properties.                                                             *)

\* A process past these points has the key of a row.
NoRowYet == {"idle", "start_recipe", "start_insert"}

LocalOK ==
  /\ pc \in [Procs -> PC]
  /\ tid \in [Procs -> 0 .. MaxTests]
  /\ mem \in [Procs -> Row]
  /\ \A p \in Procs : pc[p] \in NoRowYet \/ tid[p] \in TestIds

\* Every variable has its type.
TypeOK ==
  /\ now \in Time
  /\ fault \in BOOLEAN
  /\ lossSince \in OptTime
  /\ db \in [TestIds -> Row]
  /\ lastId \in 0 .. MaxTests
  /\ LocalOK
  /\ command \in Commands
  /\ queued \subseteq TestIds
  /\ aborts \subseteq TestIds
  /\ crashes \in 0 .. MaxCrashes

\* The programme of a test: start, stable and stop phase one after the other.
Due(row) == row.started + row.recipe.start + row.recipe.stable + row.recipe.stop

\* No test has a verdict before its whole programme has gone by, however many
\* supervisors work on old copies of its row (complete_test, evaluate).
CompletedOnlyWhenDue == \A t \in Completed : now >= Due(db[t])

\* Two tests never carry the same number, even when two operators start a test
\* within the same second and neither sees the other's row.
TestNoUnique ==
  \A t, u \in TestIds : Exists(t) /\ Exists(u) /\ TestNo(db[t]) = TestNo(db[u]) => t = u

\* Every active test comes from another start request: start_test looks for an active
\* test before it adds one, so two of them can only be the work of two operators who
\* looked at the same time, and one operator never gets a second.
OneTestPerOperator ==
  \E starter \in [Active -> Starters] :
    \A t, u \in Active : starter[t] = starter[u] => t = u

\* A test that has ended, or was deleted, never runs again: no copy of the row
\* read while it ran can bring its old status back.
NoResurrection ==
  [][\A t \in TestIds : db[t].status # "NONE" /\ t \notin Active => t \notin Active']_db

\* The history screen never deletes a running test, although the check and the
\* deletion are two requests to the database.
DeleteSparesActive == [][\A t \in Active : Exists(t)']_db

\* A process at one of these points goes on to save a verdict, if it is not stopped.
Deciding == {"supervise", "save_stable", "save_stop", "phase_command", "save_ended",
             "stop_command", "evaluate", "reevaluate"}

\* The test is aborted, and nobody is left who picked it before the abort.
Settled(t) == db[t].status = "ABORTED" /\ \A p \in Procs : tid[p] = t => pc[p] \notin Deciding

\* evaluate saves a verdict over an abort if it works on a copy from before it; no task
\* and no view that comes later does.  So an abort is final once those who held the row
\* at the time have returned, however many they are and whatever they did before.
AbortSettles ==
  [][\A t \in TestIds : Settled(t) => Settled(t)' \/ db'[t].status = "DELETED"]_vars

-----------------------------------------------------------------------------
(* Why CompletedOnlyWhenDue holds.  A process acts on its copy, so the     *)
(* phase times must be right in every copy as well as in every row, and a  *)
(* copy must be of the same test (start time and recipe) as its row.       *)

PhaseTimes(row) ==
  /\ row.stable # NotSet => row.stable >= row.started + row.recipe.start
  /\ row.stop # NotSet => row.stop >= row.started + row.recipe.start + row.recipe.stable

SameTest(r, s) == r.started = s.started /\ r.recipe = s.recipe

HasRow(p) == pc[p] \notin NoRowYet \cup InTransaction
Judging == {"save_ended", "stop_command", "evaluate", "reevaluate"}

ProcInv(p) ==
  /\ PhaseTimes(mem[p])
  /\ HasRow(p) => /\ db[tid[p]].status # "NONE"
                  /\ Exists(tid[p]) => SameTest(mem[p], db[tid[p]])
  /\ pc[p] \in Judging => now >= Due(mem[p])
  /\ pc[p] = "delete" => tid[p] \notin Active
  /\ pc[p] \in InTransaction => tid[p] <= lastId /\ db[tid[p]].status = "NONE"

RowInv(t) ==
  /\ PhaseTimes(db[t])
  /\ t \in Completed => now >= Due(db[t])
  /\ t > lastId => db[t].status = "NONE"

\* No two transactions insert under the same key.
OwnKey ==
  \A p, q \in Procs :
    pc[p] \in InTransaction /\ pc[q] \in InTransaction /\ tid[p] = tid[q] => p = q

\* The inductive invariant behind CompletedOnlyWhenDue: rows, copies and keys of
\* running transactions agree on which test they are about and on its phase times.
IInv ==
  /\ \A t \in TestIds : RowInv(t)
  /\ \A p \in Procs : ProcInv(p)
  /\ OwnKey

-----------------------------------------------------------------------------
(* The abstract promise, read off the rows.                                *)

LifeOf(row) ==
  CASE row.status = "NONE" -> "none"
    [] row.status \in ActiveStatus -> "running"
    [] row.status \in CompletedStatus -> "verdict"
    [] row.status = "ABORTED" -> "aborted"
    [] row.status = "DELETED" -> "deleted"

Promise == INSTANCE TestPromise WITH
  Tests <- TestIds,
  life <- [t \in TestIds |-> LifeOf(db[t])],
  due <- [t \in TestIds |-> Due(db[t])]

\* The record lifecycle keeps the promise of TestPromise.
KeepsPromise == Promise!Spec

-----------------------------------------------------------------------------
(* Fairness: beat sends supervise_active_test every second and a worker    *)
(* takes it; a request that was accepted is served to its end.  Nothing    *)
(* makes an operator start, abort, view or delete.                         *)

Fairness ==
  /\ WF_vars(Tick)
  /\ \A p \in Supervisors : WF_vars(SuperviseStep(p) \/ AbortStep(p) \/ RowGone(p))
  /\ \A p \in Starters : WF_vars(StartStep(p))
  /\ \A p \in Aborters : WF_vars(AbortStep(p) \/ RowGone(p))

FairSpec == Spec /\ Fairness

\* Every active test ends: the supervisor completes it or somebody aborts it.
ActiveTestEnds == \A t \in TestIds : t \in Active ~> t \notin Active

\* A start request bit is taken back, as long as no process has been killed.
StartPulseEnds == command.start /\ crashes = 0 ~> ~ command.start \/ crashes > 0
=============================================================================
